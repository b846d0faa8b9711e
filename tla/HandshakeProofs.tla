---------------------------- MODULE HandshakeProofs ----------------------------
(***************************************************************************)
(* Proofs about the client() and the SmppServer of Handshake, for any      *)
(* number of attempts, connections, binds, faults and calls of close().    *)
(*                                                                         *)
(* The invariant is that of the client, that of the server, and what the   *)
(* wire between them says.                                                 *)
(***************************************************************************)
EXTENDS Handshake, SessionMethodsProofs

-----------------------------------------------------------------------------
(* The client.                                                             *)

Hidden == [s : Sessions, closing : Closings]

Fresh == [s |-> FirstSession, closing |-> "none"]

\* A session of the client: one whose close() was called is stopped.
Kept(e) == e \in Hidden /\ Sound(e.s) /\ (e.closing # "none" => e.s.link.stopped)

ClientTypes == call \in Calls /\ loop \in Loops /\ \A i \in Tries : Kept(esme[i])

\* Where client() is and what its loop does.
Control ==
    /\ call.at \in {"idle", "connecting"} => call.tries = 0
    /\ call.at = "binding" \/ loop.attempt = "bind" \/ call.result = "session" => call.tries > 0
    /\ call.at # "trying" => ~loop.timer /\ loop.attempt = "none"
    /\ loop.timer => loop.attempt = "none"
    /\ loop.attempt \in {"none", "connect", "bind"}
    /\ call.at = "trying" => FromStart
    /\ call.result # "none" => call.at = "settled"
    /\ call.aborted => call.at \in {"idle", "settled"}
    /\ FromStart /\ call.result = "err" => call.aborted

\* A session that nobody stopped is in use, and those to come are new.
InUse(i) ==
    /\ i > call.tries => esme[i] = Fresh
    /\ i <= call.tries /\ ~esme[i].s.link.stopped =>
        ~call.aborted /\ (IsBinding(i) \/ (i = call.tries /\ call.result = "session"))

ClientInv ==
    /\ ClientTypes /\ esme \in [Tries -> Hidden]
    /\ Control
    /\ \A i \in Tries : InUse(i)

\* A session begins as every method keeps it.
LEMMA FreshKept == Kept(Fresh)
<1>1. NothingHeard \in Heard /\ FirstLink \in Links
  BY DEF NothingHeard, Heard, FirstLink, Links, Phases
<1>2. FirstSession \in Sessions
  BY <1>1 DEF FirstSession, Sessions, Sockets, Attempts
<1>3. Sound(FirstSession)
  BY <1>2 DEF FirstSession, FirstLink, NothingHeard, Sound
<1>4. QED
  BY <1>2, <1>3 DEF Fresh, Kept, Hidden, Closings

\* A session that is closed is stopped, whether it drains first or not.
LEMMA CloseKept ==
    ASSUME NEW e, Kept(e), NEW cut
    PROVE  Kept(CloseSession(e, cut)) /\ CloseSession(e, cut).s.link.stopped
<1>1. Sound(e.s)
  BY DEF Kept
<1>2. Sound(Stop(e.s)) /\ Stop(e.s).link.stopped
  BY <1>1, StopSound
<1>3. Sound(End(e.s)) /\ End(e.s).link.stopped
  BY <1>1, EndSound DEF Sound
<1>4. Stop(e.s) \in Sessions /\ End(e.s) \in Sessions
  BY <1>2, <1>3 DEF Sound
<1>5. CASE canCarry(e.s) /\ ~cut
  BY <1>2, <1>4, <1>5 DEF CloseSession, Kept, Hidden, Closings
<1>6. CASE ~(canCarry(e.s) /\ ~cut)
  BY <1>3, <1>4, <1>6 DEF CloseSession, Kept, Hidden, Closings
<1>7. QED
  BY <1>5, <1>6

\* The socket of a session that is closed may go first.
LEMMA DestroyKept ==
    ASSUME NEW e, Kept(e)
    PROVE  LET t == [e EXCEPT !.s.sock = Destroy(@)]
           IN  Kept(t) /\ t.s.link = e.s.link
<1>. DEFINE s == e.s
            u == [s EXCEPT !.sock = Destroy(@)]
            t == [e EXCEPT !.s.sock = Destroy(@)]
<1>1. s \in Sessions /\ s.sock \in Sockets /\ Sound(s) /\ e \in Hidden
  BY DEF Kept, Sound, Sessions
<1>2. Destroy(s.sock) \in Sockets /\ Destroy(s.sock) # "open"
  BY <1>1 DEF Destroy, Sockets
<1>3. u \in Sessions /\ u.link = s.link /\ u.sock = Destroy(s.sock) /\ u.attempt = s.attempt
      /\ u.timer = s.timer /\ u.halted = s.halted /\ u.heard = s.heard
  BY <1>1, <1>2 DEF Sessions
<1>4. t.s = u /\ t.closing = e.closing /\ t \in Hidden
  BY <1>1, <1>3 DEF Hidden
<1>. HIDE DEF u, s
<1>5. Sound(u)
  BY <1>1, <1>2, <1>3 DEF Sound
<1>. HIDE DEF t
<1>6. Kept(t) /\ t.s.link = e.s.link
  BY <1>3, <1>4, <1>5 DEF Kept, s
<1>7. QED
  BY <1>6 DEF t

\* A turn of a session that loses its link: nothing is attached after it.
LEMMA LosesLink ==
    ASSUME NEW e, Kept(e), NEW t,
           \/ e.s.sock # "closed" /\ t = OnClose([e.s EXCEPT !.sock = "closed"], FALSE)
           \/ t = Teardown(e.s, FALSE)
    PROVE  LET u == [e EXCEPT !.s = t]
           IN  /\ Kept(u) /\ u.s = t
               /\ e.s.link.stopped => t.link.stopped
               /\ ~isAttached(t.link)
<1>. DEFINE u == [e EXCEPT !.s = t]
<1>1. Sound(e.s) /\ e \in Hidden
  BY DEF Kept
<1>2. Sound(t) /\ t.link.phase \in {"down", "ended"} /\ (e.s.link.stopped => t.link.stopped)
  <2>1. CASE t = Teardown(e.s, FALSE)
    BY <1>1, <2>1, TeardownSound
  <2>2. CASE t = OnClose([e.s EXCEPT !.sock = "closed"], FALSE)
    <3>. DEFINE x == [e.s EXCEPT !.sock = "closed"]
    <3>1. Sound(x) /\ x.sock = "closed" /\ x.link = e.s.link
      BY <1>1, SocketSound
    <3>2. t = OnClose(x, FALSE)
      BY <2>2
    <3>. HIDE DEF x
    <3>3. /\ Sound(t) /\ t.link.phase \in {"down", "ended"}
          /\ ~(Reconnects /\ ~x.link.stopped) => t.link.phase = "ended"
      BY <3>1, <3>2, OnCloseSound
    <3>4. QED
      BY <3>1, <3>3 DEF Sound
  <2>3. QED
    BY <2>1, <2>2
<1>3. u.s = t /\ u.closing = e.closing /\ u \in Hidden
  BY <1>1, <1>2 DEF Hidden, Sound
<1>. HIDE DEF u
<1>4. Kept(u) /\ ~isAttached(t.link)
  BY <1>2, <1>3 DEF Kept, isAttached
<1>5. QED
  BY <1>2, <1>3, <1>4 DEF u

\* client() was not called, and made nothing.
LEMMA ClientStarts == ClientInit => ClientInv
<1>. SUFFICES ASSUME ClientInit PROVE ClientInv
  OBVIOUS
<1>1. \A i \in Tries : esme[i] = Fresh
  BY DEF ClientInit, Fresh
<1>2. call \in Calls /\ loop \in Loops
  BY MaxTriesAssumption DEF ClientInit, Calls, Loops, Attempts
<1>3. Fresh \in Hidden
  BY FreshKept DEF Kept
<1>4. esme \in [Tries -> Hidden]
  BY <1>3 DEF ClientInit, Fresh
<1>5. Control
  BY DEF ClientInit, Control
<1>6. \A i \in Tries : InUse(i)
  BY <1>1 DEF ClientInit, InUse, Tries
<1>7. QED
  BY <1>1, <1>2, <1>4, <1>5, <1>6, FreshKept DEF ClientInv, ClientTypes

\* Nothing but call and loop moves, and the same session is in use or nobody can be.
LEMMA SessionsStay ==
    ASSUME ClientInv, UNCHANGED esme, call' \in Calls, loop' \in Loops, Control',
           call'.tries = call.tries, call'.aborted = call.aborted,
           \A i \in Tries : i <= call.tries /\ ~esme[i].s.link.stopped =>
                IsBinding(i)' \/ (i = call'.tries /\ call'.result = "session")
    PROVE  ClientInv'
<1>1. ClientTypes' /\ esme' \in [Tries -> Hidden]
  BY DEF ClientInv, ClientTypes, Kept
<1>2. \A i \in Tries : InUse(i)'
  BY DEF ClientInv, InUse
<1>3. QED
  BY <1>1, <1>2 DEF ClientInv

\* client() is called, and opens nothing if it is aborted by then.
LEMMA CallClientKeeps == ASSUME ClientInv, CallClient PROVE ClientInv'
<1>. USE DEF ClientInv, ClientTypes, CallClient, Settled, Calls
<1>1. call' \in Calls /\ loop' \in Loops /\ UNCHANGED esme /\ call'.tries = call.tries /\ call'.aborted = call.aborted
  OBVIOUS
<1>2. Control'
  BY DEF Control
<1>3. \A i \in Tries : ~(i <= call.tries)
  BY MaxTriesAssumption DEF Control, Tries
<1>4. QED
  BY <1>1, <1>2, <1>3, SessionsStay

\* A connect fails, and the loop goes on or the call is over.
LEMMA ConnectFailsKeeps == ASSUME ClientInv, ConnectFails PROVE ClientInv'
<1>. USE DEF ClientInv, ClientTypes
<1>1. call' \in Calls /\ loop' \in Loops /\ UNCHANGED esme /\ call'.tries = call.tries /\ call'.aborted = call.aborted
  BY DEF ConnectFails, FirstFailed, Settled, LoopFailed, Calls, Loops, Attempts
<1>2. Control'
  BY FromStartAssumption DEF ConnectFails, Connecting, FirstFailed, Settled, LoopFailed, Calls, Loops, Control
<1>3. \A i \in Tries : i <= call.tries => esme[i].s.link.stopped
  BY DEF ConnectFails, Connecting, Control, InUse, IsBinding
<1>4. QED
  BY <1>1, <1>2, <1>3, SessionsStay

\* The loop's timer fires.
LEMMA LoopTimerKeeps == ASSUME ClientInv, LoopTimer PROVE ClientInv'
<1>. USE DEF ClientInv, ClientTypes
<1>1. call' \in Calls /\ loop' \in Loops /\ UNCHANGED <<call, esme>>
  BY DEF LoopTimer, Loops, Attempts
<1>2. Control'
  BY DEF LoopTimer, Loops, Control
<1>3. \A i \in Tries : i <= call.tries => esme[i].s.link.stopped
  BY DEF LoopTimer, Control, InUse, IsBinding
<1>4. QED
  BY <1>1, <1>2, <1>3, SessionsStay

\* A socket opens: the last session was given up by then.
LEMMA ConnectOpensKeeps == ASSUME ClientInv, ConnectOpens PROVE ClientInv' /\ call'.tries \in Tries
<1>. USE DEF ClientInv, ClientTypes
<1>0. call.tries \in Nat /\ call.tries + 1 \in 1..MaxTries /\ call.tries + 1 \in 0..MaxTries
  BY MaxTriesAssumption DEF ConnectOpens, Calls
<1>1. /\ call' \in Calls /\ UNCHANGED esme
      /\ call.tries \in Nat /\ call'.tries = call.tries + 1 /\ call'.aborted = call.aborted /\ call'.result = call.result
      /\ call'.at = IF call.at = "connecting" THEN "binding" ELSE call.at
      /\ call'.tries \in Tries
  BY <1>0 DEF ConnectOpens, Calls, Tries
<1>01. /\ loop' \in Loops /\ loop'.timer = loop.timer
       /\ loop'.attempt = IF loop.attempt = "connect" THEN "bind" ELSE loop.attempt
  BY DEF ConnectOpens, Loops, Attempts
<1>2. Control'
  BY <1>0, <1>1, <1>01 DEF Connecting, ConnectOpens, Control
<1>3. \A i \in Tries : i <= call.tries => esme[i].s.link.stopped
  BY DEF ConnectOpens, Connecting, Control, InUse, IsBinding
<1>4. ~call.aborted
  BY DEF ConnectOpens, Connecting, Control
<1>5. call'.at = "binding" \/ loop'.attempt = "bind"
  BY <1>1, <1>01 DEF ConnectOpens, Connecting
<1>6. ASSUME NEW i \in Tries PROVE InUse(i)'
  BY <1>1, <1>3, <1>4, <1>5, <1>6 DEF InUse, IsBinding, Tries
<1>7. QED
  BY <1>1, <1>01, <1>2, <1>6

\* bindOn() on an err closes the session nobody has seen.
LEMMA BindFailsKeeps ==
    ASSUME ClientInv, NEW i \in Tries, NEW e, Kept(e), IsBinding(i), BindFails(i, e)
    PROVE  ClientInv'
<1>. USE DEF ClientInv, ClientTypes
<1>. DEFINE closed == CloseSession(e, FALSE)
            gone == [closed EXCEPT !.s.sock = Destroy(@)]
<1>1. Kept(closed) /\ closed.s.link.stopped
  BY CloseKept
<1>2. Kept(gone) /\ gone.s.link.stopped
  BY <1>1, DestroyKept
<1>. HIDE DEF closed, gone
<1>3. PICK f : /\ Kept(f) /\ f.s.link.stopped /\ f \in Hidden
               /\ esme' = [esme EXCEPT ![i] = f]
               /\ \/ call.at = "binding" /\ FirstFailed
                  \/ call.at # "binding" /\ loop' = LoopFailed(loop) /\ UNCHANGED call
  BY <1>1, <1>2 DEF BindFails, closed, gone, Kept
<1>4. i = call.tries /\ (call.at = "binding" \/ loop.attempt = "bind")
  BY DEF IsBinding
<1>5. call' \in Calls /\ loop' \in Loops /\ call'.tries = call.tries /\ call'.aborted = call.aborted
  BY <1>3 DEF FirstFailed, Settled, LoopFailed, Calls, Loops, Attempts
<1>6. Control'
  BY <1>3, <1>4, FromStartAssumption DEF FirstFailed, Settled, LoopFailed, Calls, Loops, Control
<1>7. esme' \in [Tries -> Hidden] /\ \A j \in Tries : Kept(esme'[j])
  BY <1>3
<1>8. \A j \in Tries : j <= call.tries => esme'[j].s.link.stopped
  BY <1>3, <1>4 DEF InUse, IsBinding, Control
<1>9. \A j \in Tries : InUse(j)'
  BY <1>3, <1>4, <1>5, <1>8 DEF InUse, Calls, Tries
<1>10. QED
  BY <1>5, <1>6, <1>7, <1>9 DEF Kept

\* A lost link fails the bind that waits on it, and is nothing to the call otherwise.
LEMMA SessionTurnKeeps ==
    ASSUME ClientInv, NEW i \in Made, NEW t, SessionTurn(i, t),
           \/ esme[i].s.sock # "closed" /\ t = OnClose([esme[i].s EXCEPT !.sock = "closed"], FALSE)
           \/ t = Teardown(esme[i].s, FALSE)
    PROVE  ClientInv'
<1>. USE DEF ClientInv, ClientTypes
<1>. DEFINE u == [esme[i] EXCEPT !.s = t]
<1>1. i \in Tries /\ i <= call.tries
  BY MaxTriesAssumption DEF Made, Tries, Calls
<1>2. Kept(u) /\ u.s = t /\ (esme[i].s.link.stopped => t.link.stopped) /\ ~isAttached(t.link)
  BY <1>1, LosesLink
<1>. HIDE DEF u
<1>3. CASE IsBinding(i)
  <2>1. BindFails(i, u)
    BY <1>2, <1>3 DEF SessionTurn, u
  <2>2. QED
    BY <1>1, <1>2, <1>3, <2>1, BindFailsKeeps
<1>4. CASE ~IsBinding(i)
  <2>1. esme' = [esme EXCEPT ![i] = u] /\ UNCHANGED <<call, loop>>
    BY <1>4 DEF SessionTurn, u
  <2>2. u \in Hidden
    BY <1>2 DEF Kept
  <2>3. esme' \in [Tries -> Hidden] /\ \A j \in Tries : Kept(esme'[j])
    BY <1>2, <2>1, <2>2
  <2>4. \A j \in Tries : InUse(j)'
    BY <1>1, <1>2, <2>1 DEF InUse, IsBinding, Tries, Calls
  <2>5. Control'
    BY <2>1 DEF Control
  <2>6. QED
    BY <2>1, <2>3, <2>4, <2>5 DEF Kept
<1>5. QED
  BY <1>3, <1>4

\* An abort that closes whatever may be in use leaves no session that is not stopped.
LEMMA AbortedKeeps ==
    ASSUME ClientInv, NEW tries \in 0..MaxTries, call.tries <= tries,
           NEW C \in SUBSET Tries,
           \A i \in Tries : i > tries => i \notin C,
           \A i \in Tries : i > call.tries /\ i <= tries => i \in C,
           \A i \in Tries : i <= call.tries /\ ~esme[i].s.link.stopped => i \in C,
           call' \in Calls, call'.tries = tries, loop' \in Loops, Control',
           esme' = [i \in Tries |-> IF i \in C THEN CloseSession(esme[i], TRUE) ELSE esme[i]]
    PROVE  ClientInv'
<1>. USE DEF ClientInv, ClientTypes
<1>1. ASSUME NEW i \in Tries
      PROVE  /\ Kept(esme'[i])
             /\ i \in C => esme'[i].s.link.stopped
             /\ i \notin C => esme'[i] = esme[i]
  <2>1. Kept(CloseSession(esme[i], TRUE)) /\ CloseSession(esme[i], TRUE).s.link.stopped
    BY CloseKept
  <2>2. QED
    BY <2>1
<1>2. esme' \in [Tries -> Hidden]
  <2>1. \A i \in Tries : esme'[i] \in Hidden
    BY <1>1 DEF Kept
  <2>2. QED
    BY <2>1
<1>3. call.tries \in Nat /\ tries \in Nat
  BY MaxTriesAssumption DEF Calls
<1>4. ASSUME NEW i \in Tries PROVE InUse(i)'
  <2>1. i \in Nat
    BY DEF Tries
  <2>2. ASSUME i > tries PROVE esme'[i] = Fresh
    <3>1. i > call.tries /\ i \notin C
      BY <1>3, <2>1, <2>2
    <3>2. esme[i] = Fresh
      BY <3>1 DEF InUse
    <3>3. QED
      BY <1>1, <3>1, <3>2
  <2>3. ASSUME i <= tries PROVE esme'[i].s.link.stopped
    <3>1. CASE i \in C
      BY <1>1, <3>1
    <3>2. CASE i \notin C
      <4>1. i <= call.tries
        BY <1>3, <2>1, <2>3, <3>2
      <4>2. esme[i].s.link.stopped
        BY <3>2, <4>1
      <4>3. QED
        BY <1>1, <3>2, <4>2
    <3>3. QED
      BY <3>1, <3>2
  <2>4. QED
    BY <2>2, <2>3 DEF InUse
<1>5. QED
  BY <1>1, <1>2, <1>4

\* The signal aborts the call.
LEMMA AbortKeeps == ASSUME ClientInv, Abort PROVE ClientInv'
<1>. USE DEF ClientInv, ClientTypes
<1>. DEFINE C == {i \in Tries : \/ esme[i].closing = "draining"
                                \/ IsBinding(i)
                                \/ i = call.tries /\ call.result = "session"}
<1>1. esme' = [i \in Tries |-> IF i \in C THEN CloseSession(esme[i], TRUE) ELSE esme[i]]
  BY DEF Abort
<1>2. C \in SUBSET Tries
  OBVIOUS
<1>3. call.tries \in 0..MaxTries /\ call.tries \in Nat /\ call.tries <= call.tries
  BY MaxTriesAssumption DEF Calls
<1>4. call' \in Calls /\ call'.tries = call.tries /\ loop' \in Loops
  BY DEF Abort, Calls, Loops, Settled, LoopStopped, Attempts
<1>5. Control'
  BY <1>4 DEF Abort, Calls, Loops, Settled, LoopStopped, Control
<1>6. \A i \in Tries : i > call.tries => i \notin C
  BY <1>3 DEF InUse, IsBinding, Fresh, Tries
<1>7. \A i \in Tries : i <= call.tries /\ ~esme[i].s.link.stopped => i \in C
  BY DEF InUse
<1>8. \A i \in Tries : i > call.tries /\ i <= call.tries => i \in C
  BY <1>3 DEF Tries
<1>. HIDE DEF C
<1>9. QED
  BY <1>1, <1>2, <1>3, <1>4, <1>5, <1>6, <1>7, <1>8, AbortedKeeps

\* The abort comes between a `connect` event and bindOn().
LEMMA ConnectOpensAbortedKeeps ==
    ASSUME ClientInv, ConnectOpensAborted
    PROVE  ClientInv' /\ (call.at = "connecting" => call'.tries \in Tries)
<1>. USE DEF ClientInv, ClientTypes
<1>1. /\ call.tries \in Nat /\ call.tries \in 0..MaxTries
      /\ call.tries + 1 \in 1..MaxTries /\ call.tries + 1 \in 0..MaxTries
  BY MaxTriesAssumption DEF ConnectOpensAborted, Calls
<1>2. \A i \in Tries : i <= call.tries => esme[i].s.link.stopped
  BY DEF ConnectOpensAborted, Connecting, Control, InUse, IsBinding
<1>3. CASE call.at = "connecting"
  <2>. DEFINE C == {call.tries + 1}
  <2>1. C \in SUBSET Tries /\ call.tries <= call.tries + 1
    BY <1>1 DEF Tries
  <2>2. /\ call' \in Calls /\ call'.tries = call.tries + 1
        /\ call'.at = "settled" /\ call'.result = "err" /\ call'.aborted
        /\ loop' \in Loops /\ loop' = loop
    BY <1>1, <1>3 DEF ConnectOpensAborted, Settled, Calls
  <2>3. Control'
    BY <1>1, <1>3, <2>2 DEF Control
  <2>4. esme' = [i \in Tries |-> IF i \in C THEN CloseSession(esme[i], TRUE) ELSE esme[i]]
    BY <1>3 DEF ConnectOpensAborted
  <2>5. /\ \A i \in Tries : i > call.tries + 1 => i \notin C
        /\ \A i \in Tries : i > call.tries /\ i <= call.tries + 1 => i \in C
        /\ \A i \in Tries : i <= call.tries /\ ~esme[i].s.link.stopped => i \in C
    BY <1>1, <1>2 DEF Tries
  <2>. HIDE DEF C
  <2>6. ClientInv'
    BY <1>1, <2>1, <2>2, <2>3, <2>4, <2>5, AbortedKeeps
  <2>7. QED
    BY <1>1, <2>2, <2>6 DEF Tries
<1>4. CASE call.at # "connecting"
  <2>. DEFINE C == {i \in Tries : esme[i].closing = "draining"}
  <2>1. C \in SUBSET Tries /\ call.tries <= call.tries
    BY <1>1
  <2>2. /\ call' \in Calls /\ call'.tries = call.tries
        /\ call'.at = "settled" /\ call'.result = "err" /\ call'.aborted
        /\ loop' \in Loops /\ ~loop'.timer /\ loop'.attempt = "none"
    BY <1>4 DEF ConnectOpensAborted, Settled, LoopStopped, Calls, Loops, Attempts
  <2>3. Control'
    BY <2>2 DEF Control
  <2>4. esme' = [i \in Tries |-> IF i \in C THEN CloseSession(esme[i], TRUE) ELSE esme[i]]
    BY <1>4 DEF ConnectOpensAborted
  <2>5. /\ \A i \in Tries : i > call.tries => i \notin C
        /\ \A i \in Tries : i > call.tries /\ i <= call.tries => i \in C
        /\ \A i \in Tries : i <= call.tries /\ ~esme[i].s.link.stopped => i \in C
    BY <1>1, <1>2 DEF Tries, InUse, Fresh
  <2>. HIDE DEF C
  <2>6. ClientInv'
    BY <1>1, <2>1, <2>2, <2>3, <2>4, <2>5, AbortedKeeps
  <2>7. QED
    BY <1>4, <2>6
<1>5. QED
  BY <1>3, <1>4

\* client() resolves with the session whose bind is accepted.
LEMMA BindAcceptedKeeps ==
    ASSUME ClientInv, NEW i \in Tries, BindAccepted(i)
    PROVE  ClientInv' /\ i = call'.tries /\ call'.result = "session"
<1>. USE DEF ClientInv, ClientTypes
<1>1. /\ call' \in Calls /\ call'.tries = call.tries /\ call'.aborted = call.aborted
      /\ call'.at = "settled" /\ call'.result = "session" /\ i = call.tries
      /\ loop' \in Loops /\ ~loop'.timer /\ loop'.attempt = "none" /\ UNCHANGED esme
  BY DEF BindAccepted, IsBinding, Settled, LoopStopped, Calls, Loops, Attempts
<1>2. Control'
  BY <1>1 DEF BindAccepted, IsBinding, Control, Tries
<1>3. \A j \in Tries : j <= call.tries /\ ~esme[j].s.link.stopped =>
        IsBinding(j)' \/ (j = call'.tries /\ call'.result = "session")
  BY <1>1 DEF BindAccepted, InUse, IsBinding
<1>4. ClientInv'
  BY <1>1, <1>2, <1>3, SessionsStay
<1>5. QED
  BY <1>1, <1>4

\* The abort comes in the turn the bind is accepted in, and closes the session.
LEMMA BindAcceptedAbortedKeeps ==
    ASSUME ClientInv, NEW i \in Tries, BindAcceptedAborted(i)
    PROVE  ClientInv' /\ i = call'.tries
<1>. USE DEF ClientInv, ClientTypes
<1>. DEFINE C == {j \in Tries : j = i \/ esme[j].closing = "draining"}
<1>1. /\ call' \in Calls /\ call'.tries = call.tries /\ call'.aborted
      /\ call'.at = "settled" /\ i = call.tries
      /\ loop' \in Loops /\ ~loop'.timer /\ loop'.attempt = "none"
  BY DEF BindAcceptedAborted, IsBinding, Settled, LoopStopped, Calls, Loops, Attempts
<1>2. Control'
  BY <1>1 DEF Control, Tries
<1>3. call.tries \in 0..MaxTries /\ call.tries \in Nat /\ call.tries <= call.tries
  BY MaxTriesAssumption DEF Calls
<1>4. esme' = [j \in Tries |-> IF j \in C THEN CloseSession(esme[j], TRUE) ELSE esme[j]]
  BY DEF BindAcceptedAborted
<1>5. C \in SUBSET Tries
  OBVIOUS
<1>6. /\ \A j \in Tries : j > call.tries => j \notin C
      /\ \A j \in Tries : j > call.tries /\ j <= call.tries => j \in C
      /\ \A j \in Tries : j <= call.tries /\ ~esme[j].s.link.stopped => j \in C
  BY <1>1, <1>3 DEF InUse, Fresh, Tries, BindAcceptedAborted, IsBinding, Control
<1>. HIDE DEF C
<1>7. ClientInv'
  BY <1>1, <1>2, <1>3, <1>4, <1>5, <1>6, AbortedKeeps
<1>8. QED
  BY <1>1, <1>7

\* A hidden close() is over: its session has ended.
LEMMA ClientDrainOverKeeps ==
    ASSUME ClientInv, NEW i \in Tries, ClientDrainOver(i) PROVE ClientInv'
<1>. USE DEF ClientInv, ClientTypes
<1>. DEFINE u == [s |-> End(esme[i].s), closing |-> "over"]
<1>1. Sound(End(esme[i].s)) /\ End(esme[i].s).link.phase = "ended"
  BY EndSound DEF Kept
<1>2. Kept(u) /\ u.s.link.stopped
  BY <1>1 DEF Kept, Hidden, Closings, Sound
<1>3. esme' = [esme EXCEPT ![i] = u] /\ UNCHANGED <<call, loop>>
  BY DEF ClientDrainOver
<1>4. esme[i] # Fresh
  BY DEF ClientDrainOver, Fresh
<1>. HIDE DEF u
<1>5. esme' \in [Tries -> Hidden] /\ \A j \in Tries : Kept(esme'[j])
  BY <1>2, <1>3 DEF Kept
<1>6. \A j \in Tries : InUse(j)'
  BY <1>2, <1>3, <1>4 DEF InUse, IsBinding
<1>7. Control'
  BY <1>3 DEF Control
<1>8. QED
  BY <1>3, <1>5, <1>6, <1>7

-----------------------------------------------------------------------------
(* The server.  Its sessions are those of SessionMethods without a loop.   *)

Served == INSTANCE SessionMethodsProofs WITH Reconnects <- FALSE

\* The methods are the same under both names.
LEMMA SameMethods ==
    ASSUME NEW s
    PROVE  /\ Served!Stop(s) = SMSC!Stop(s) /\ Served!End(s) = SMSC!End(s)
           /\ Served!Teardown(s, FALSE) = SMSC!Teardown(s, FALSE)
           /\ Served!OnClose(s, FALSE) = SMSC!OnClose(s, FALSE)
           /\ Served!Sessions = SMSC!Sessions /\ Served!FirstSession = SMSC!FirstSession
<1>. USE DEF Served!retrying, SMSC!retrying, Served!isAttached, SMSC!isAttached,
             Served!isOver, SMSC!isOver, Served!Destroy, SMSC!Destroy,
             Served!stop, SMSC!stop, Served!end, SMSC!end, Served!drop, SMSC!drop
<1>1. Served!Stop(s) = SMSC!Stop(s)
  BY DEF Served!Stop, SMSC!Stop
<1>2. \A x : Served!EmitClose(x) = SMSC!EmitClose(x)
  BY DEF Served!EmitClose, SMSC!EmitClose
<1>3. \A x : Served!Teardown(x, FALSE) = SMSC!Teardown(x, FALSE)
  BY <1>2 DEF Served!Teardown, SMSC!Teardown, Served!dropEvent, SMSC!dropEvent
<1>4. Served!End(s) = SMSC!End(s)
  BY <1>1, <1>2, <1>3 DEF Served!End, SMSC!End
<1>5. Served!OnClose(s, FALSE) = SMSC!OnClose(s, FALSE)
  BY <1>4 DEF Served!OnClose, SMSC!OnClose
<1>6. Served!Sessions = SMSC!Sessions /\ Served!FirstSession = SMSC!FirstSession
  BY DEF Served!Sessions, SMSC!Sessions, Served!FirstSession, SMSC!FirstSession,
         Served!Links, SMSC!Links, Served!Phases, SMSC!Phases, Served!Heard, SMSC!Heard,
         Served!Sockets, SMSC!Sockets, Served!Attempts, SMSC!Attempts,
         Served!FirstLink, SMSC!FirstLink, Served!NothingHeard, SMSC!NothingHeard
<1>7. QED
  BY <1>1, <1>3, <1>4, <1>5, <1>6


SessionOver(s) == SMSC!isOver(s.link)

\* What the methods keep of a session the server has.
LEMMA ServedKept ==
    ASSUME NEW s, Served!Sound(s)
    PROVE  /\ s \in SMSC!Sessions
           /\ Served!Sound(SMSC!Stop(s)) /\ SMSC!Stop(s).sock = s.sock
           /\ SMSC!Stop(s).link.phase = s.link.phase
           /\ Served!Sound(SMSC!End(s)) /\ SessionOver(SMSC!End(s))
           /\ s.link.phase \in {"binding", "up"} =>
                /\ Served!Sound(SMSC!Teardown(s, FALSE))
                /\ SessionOver(SMSC!Teardown(s, FALSE))
<1>1. s \in SMSC!Sessions
  BY SameMethods DEF Served!Sound
<1>2. /\ Served!Sound(SMSC!Stop(s)) /\ SMSC!Stop(s).sock = s.sock
      /\ SMSC!Stop(s).link.phase = s.link.phase
  BY SameMethods, Served!StopSound
<1>3. Served!Sound(SMSC!End(s)) /\ SessionOver(SMSC!End(s))
  <2>1. Served!Sound(Served!End(s)) /\ Served!End(s).link.phase = "ended"
    BY Served!EndSound
  <2>2. Served!End(s) = SMSC!End(s)
    BY SameMethods
  <2>3. QED
    BY <2>1, <2>2 DEF SessionOver, SMSC!isOver
<1>4. ASSUME s.link.phase \in {"binding", "up"}
      PROVE  /\ Served!Sound(SMSC!Teardown(s, FALSE))
             /\ SessionOver(SMSC!Teardown(s, FALSE))
  <2>1. FALSE \in BOOLEAN
    OBVIOUS
  <2>2. Served!Sound(Served!Teardown(s, FALSE)) /\ Served!Teardown(s, FALSE).link.phase = "ended"
    BY <1>4, <2>1, Served!TeardownSound
  <2>3. QED
    BY <2>2, SameMethods DEF SessionOver, SMSC!isOver
<1>5. QED
  BY <1>1, <1>2, <1>3, <1>4

\* The `close` event ends it: there is no retry.
LEMMA ServedCloses ==
    ASSUME NEW s, Served!Sound(s), NEW x \in {"destroyed", "closed"}
    PROVE  LET t == [s EXCEPT !.sock = x]
           IN  /\ Served!Sound(t) /\ t.sock = x
               /\ Served!Sound(SMSC!OnClose(t, FALSE)) /\ SessionOver(SMSC!OnClose(t, FALSE))
<1>. DEFINE t == [s EXCEPT !.sock = x]
<1>1. Served!Sound(t) /\ t.sock = x
  BY Served!SocketSound
<1>. HIDE DEF t
<1>2. t.sock # "open" /\ FALSE \in BOOLEAN
  BY <1>1
<1>3. Served!Sound(Served!OnClose(t, FALSE)) /\ Served!OnClose(t, FALSE).link.phase = "ended"
  BY <1>1, <1>2, Served!OnCloseSound
<1>4. QED
  BY <1>1, <1>3, SameMethods DEF t, SessionOver, SMSC!isOver

\* An accepted connection, as Node hands it over.
LEMMA ServedStarts ==
    /\ Served!Sound(SMSC!FirstSession) /\ SMSC!FirstSession.sock = "open"
    /\ ~SessionOver(SMSC!FirstSession)
<1>1. Served!NothingHeard \in Served!Heard /\ Served!FirstLink \in Served!Links
  BY DEF Served!NothingHeard, Served!Heard, Served!FirstLink, Served!Links, Served!Phases
<1>2. Served!FirstSession \in Served!Sessions
  BY <1>1 DEF Served!FirstSession, Served!Sessions, Served!Sockets, Served!Attempts
<1>3. Served!Sound(Served!FirstSession) /\ Served!FirstSession.sock = "open"
      /\ Served!FirstSession.link.phase = "up"
  BY <1>2 DEF Served!FirstSession, Served!FirstLink, Served!NothingHeard, Served!Sound
<1>4. QED
  BY <1>3, SameMethods DEF SessionOver, SMSC!isOver

\* A connection is a new session until it is one of the server's, whose closed socket
\* has ended it; and only a close() of the server closes one of its sessions.
Connection(c) ==
    /\ Served!Sound(smsc[c].s)
    /\ smsc[c].at \in {"none", "handshake"} => smsc[c].s = SMSC!FirstSession
    /\ smsc[c].at = "session" /\ smsc[c].s.sock = "closed" => SessionOver(smsc[c].s)
    /\ smsc[c].closing # "none" => \E k \in ServerClosers : c \in closers[k].live

Closer(k) ==
    /\ closers[k].at = "idle" => closers[k].live = {}
    /\ closers[k].at # "idle" => ~listening
    /\ \A c \in closers[k].live : smsc[c].at = "session"

ServerInv ==
    /\ ServerTypeOK
    /\ \A c \in Conns : Connection(c)
    /\ \A k \in ServerClosers : Closer(k)
    /\ ListedIsLive /\ ClosedServerIsEmpty

\* Nobody has connected, and close() was not called.
LEMMA ServerStarts == ServerInit => ServerInv
<1>. SUFFICES ASSUME ServerInit PROVE ServerInv
  OBVIOUS
<1>1. /\ Served!Sound(SMSC!FirstSession) /\ SMSC!FirstSession.sock = "open"
      /\ ~SessionOver(SMSC!FirstSession) /\ SMSC!FirstSession \in SMSC!Sessions
  BY ServedStarts, ServedKept
<1>2. ServerTypeOK
  BY <1>1, MaxBindsAssumption DEF ServerInit, ServerTypeOK, Connections
<1>3. QED
  BY <1>1, <1>2 DEF ServerInit, ServerInv, Connection, Closer, ListedIsLive, ClosedServerIsEmpty

\* One connection moves, and what it becomes is what the invariant says of one.
LEMMA OneMoves ==
    ASSUME ServerInv, NEW c \in Conns, UNCHANGED <<listening, closers>>,
           smsc' \in [Conns -> Connections], \A d \in Conns \ {c} : smsc'[d] = smsc[d],
           Served!Sound(smsc'[c].s),
           smsc'[c].at \in {"none", "handshake"} => smsc'[c].s = SMSC!FirstSession,
           smsc'[c].at = "session" /\ smsc'[c].s.sock = "closed" => SessionOver(smsc'[c].s),
           smsc'[c].closing # "none" => smsc[c].closing # "none",
           smsc[c].at = "session" => smsc'[c].at = "session",
           smsc[c].at = "failed" => smsc'[c].at = "failed",
           smsc[c].at = "none" /\ ~listening => smsc'[c].at = "none",
           smsc[c].at = "session" /\ SessionOver(smsc[c].s) => SessionOver(smsc'[c].s),
           smsc'[c].listed <=>
               /\ smsc'[c].at = "session" /\ ~SessionOver(smsc'[c].s)
               /\ \A k \in ServerClosers : c \notin closers[k].live
    PROVE  ServerInv'
<1>1. ServerTypeOK'
  BY DEF ServerInv, ServerTypeOK
<1>2. \A d \in Conns : Connection(d)'
  <2>1. Connection(c)'
    BY DEF ServerInv, Connection
  <2>2. ASSUME NEW d \in Conns \ {c} PROVE Connection(d)'
    <3>1. smsc'[d] = smsc[d] /\ Connection(d)
      BY <2>2 DEF ServerInv
    <3>2. QED
      BY <3>1 DEF Connection
  <2>3. QED
    BY <2>1, <2>2
<1>3. \A k \in ServerClosers : Closer(k)'
  <2>1. ASSUME NEW k \in ServerClosers PROVE Closer(k)'
    <3>1. Closer(k) /\ closers[k].live \in SUBSET Conns
      BY DEF ServerInv, ServerTypeOK
    <3>2. QED
      BY <3>1 DEF Closer
  <2>2. QED
    BY <2>1
<1>4. ListedIsLive'
  BY DEF ServerInv, ListedIsLive, SessionOver
<1>5. ClosedServerIsEmpty'
  <2>1. ASSUME NEW k \in ServerClosers, closers[k].at = "resolved"
        PROVE  ~listening
    BY <2>1 DEF ServerInv, Closer
  <2>2. ASSUME NEW k \in ServerClosers, closers'[k].at = "resolved", NEW d \in Conns
        PROVE  \/ smsc'[d].at \in {"none", "failed"}
               \/ smsc'[d].at = "session" /\ SessionOver(smsc'[d].s)
    <3>1. \/ smsc[d].at \in {"none", "failed"}
          \/ smsc[d].at = "session" /\ SessionOver(smsc[d].s)
      BY <2>2 DEF ServerInv, ClosedServerIsEmpty, SessionOver
    <3>2. QED
      BY <2>1, <2>2, <3>1
  <2>3. QED
    BY <2>2 DEF ClosedServerIsEmpty, SessionOver
<1>6. QED
  BY <1>1, <1>2, <1>3, <1>4, <1>5 DEF ServerInv

\* A bind once recorded stays recorded.
BoundStays == \A c \in Conns : smsc[c].bound => smsc'[c].bound

\* A turn that ends a session takes it out of the set.
LEMMA TurnEnds ==
    ASSUME ServerInv, NEW c \in Conns, NEW s, Served!Sound(s), SessionOver(s),
           smsc[c].at = "session", ServerTurn(c, s), UNCHANGED <<listening, closers>>
    PROVE  ServerInv' /\ BoundStays
<1>1. smsc \in [Conns -> Connections] /\ s \in SMSC!Sessions /\ Connection(c)
  BY ServedKept DEF ServerInv, ServerTypeOK
<1>2. /\ smsc' \in [Conns -> Connections] /\ \A d \in Conns \ {c} : smsc'[d] = smsc[d]
      /\ smsc'[c].s = s /\ smsc'[c].at = "session" /\ smsc'[c].closing = smsc[c].closing
      /\ smsc'[c].listed = FALSE /\ smsc'[c].bound = smsc[c].bound
  BY <1>1 DEF ServerTurn, Connections, SessionOver
<1>3. ServerInv'
  BY <1>2, OneMoves
<1>4. QED
  BY <1>2, <1>3 DEF BoundStays

\* A session reads only while its link is attached.
LEMMA ReadsAttached ==
    ASSUME ServerInv, NEW c \in Conns, CanRead(c)
    PROVE  /\ smsc[c].at = "session" /\ smsc[c].s.link.phase \in {"binding", "up"}
           /\ Served!Sound(smsc[c].s)
  BY DEF ServerInv, Connection, CanRead, SMSC!isAttached

\* An unbind, a close event and a link given up end the session.
LEMMA TurnsKeep ==
    ASSUME ServerInv, NEW c \in Conns,
           UnbindRead(c) \/ ServerSocketCloses(c) \/ ServerGivesLinkUp(c)
    PROVE  ServerInv' /\ BoundStays
<1>1. CASE UnbindRead(c)
  <2>1. smsc[c].at = "session" /\ Served!Sound(smsc[c].s)
    BY <1>1, ReadsAttached DEF UnbindRead
  <2>2. Served!Sound(SMSC!End(smsc[c].s)) /\ SessionOver(SMSC!End(smsc[c].s))
    BY <2>1, ServedKept
  <2>3. QED
    BY <1>1, <2>1, <2>2, TurnEnds DEF UnbindRead
<1>2. CASE ServerSocketCloses(c)
  <2>. DEFINE t == SMSC!OnClose([smsc[c].s EXCEPT !.sock = "closed"], FALSE)
  <2>1. smsc[c].at = "session" /\ Served!Sound(smsc[c].s)
    BY <1>2 DEF ServerSocketCloses, ServerInv, Connection
  <2>2. Served!Sound(t) /\ SessionOver(t)
    BY <2>1, ServedCloses
  <2>3. ServerTurn(c, t) /\ UNCHANGED <<listening, closers>>
    BY <1>2 DEF ServerSocketCloses
  <2>. HIDE DEF t
  <2>4. QED
    BY <2>1, <2>2, <2>3, TurnEnds
<1>3. CASE ServerGivesLinkUp(c)
  <2>1. smsc[c].at = "session" /\ Served!Sound(smsc[c].s) /\ smsc[c].s.link.phase \in {"binding", "up"}
    BY <1>3, ReadsAttached DEF ServerGivesLinkUp
  <2>2. Served!Sound(SMSC!Teardown(smsc[c].s, FALSE)) /\ SessionOver(SMSC!Teardown(smsc[c].s, FALSE))
    BY <2>1, ServedKept
  <2>3. QED
    BY <1>3, <2>1, <2>2, TurnEnds DEF ServerGivesLinkUp
<1>4. QED
  BY <1>1, <1>2, <1>3

\* A connection arrives, becomes a session, or fails before it does.
LEMMA ConnectionsKeep ==
    ASSUME ServerInv, NEW c \in Conns,
           ConnectionArrives(c) \/ Accepted(c) \/ HandshakeFails(c)
    PROVE  ServerInv' /\ BoundStays
<1>1. /\ smsc \in [Conns -> Connections] /\ Connection(c)
      /\ \A k \in ServerClosers : Closer(k) /\ closers[k].live \in SUBSET Conns
      /\ smsc[c].listed <=>
            /\ smsc[c].at = "session" /\ ~SessionOver(smsc[c].s)
            /\ \A k \in ServerClosers : c \notin closers[k].live
  BY DEF ServerInv, ServerTypeOK, ListedIsLive, SessionOver
<1>2. CASE ConnectionArrives(c)
  <2>1. /\ smsc' \in [Conns -> Connections] /\ \A d \in Conns \ {c} : smsc'[d] = smsc[d]
        /\ smsc'[c].at = "handshake" /\ smsc'[c].s = smsc[c].s /\ smsc'[c].closing = smsc[c].closing
        /\ smsc'[c].listed = smsc[c].listed /\ smsc'[c].bound = smsc[c].bound
        /\ UNCHANGED <<listening, closers>> /\ listening /\ smsc[c].at = "none"
    BY <1>1, <1>2 DEF ConnectionArrives, Connections
  <2>2. ServerInv'
    BY <1>1, <2>1, OneMoves DEF Connection
  <2>3. QED
    BY <2>1, <2>2 DEF BoundStays
<1>3. CASE Accepted(c)
  <2>1. /\ smsc' \in [Conns -> Connections] /\ \A d \in Conns \ {c} : smsc'[d] = smsc[d]
        /\ smsc'[c].at = "session" /\ smsc'[c].s = smsc[c].s /\ smsc'[c].closing = smsc[c].closing
        /\ smsc'[c].listed = TRUE /\ smsc'[c].bound = smsc[c].bound
        /\ UNCHANGED <<listening, closers>> /\ smsc[c].at = "handshake"
    BY <1>1, <1>3 DEF Accepted, Connections
  <2>2. smsc[c].s.sock = "open" /\ ~SessionOver(smsc[c].s) /\ Served!Sound(smsc[c].s)
    BY <1>1, <2>1, ServedStarts DEF Connection
  <2>3. \A k \in ServerClosers : c \notin closers[k].live
    BY <1>1, <2>1 DEF Closer
  <2>4. ServerInv'
    BY <2>1, <2>2, <2>3, OneMoves
  <2>5. QED
    BY <2>1, <2>4 DEF BoundStays
<1>4. CASE HandshakeFails(c)
  <2>. DEFINE t == [smsc[c].s EXCEPT !.sock = "closed"]
  <2>1. Served!Sound(t) /\ t \in SMSC!Sessions
    BY <1>1, ServedCloses, ServedKept DEF Connection
  <2>2. /\ smsc' \in [Conns -> Connections] /\ \A d \in Conns \ {c} : smsc'[d] = smsc[d]
        /\ smsc'[c].at = "failed" /\ smsc'[c].s = t /\ smsc'[c].closing = smsc[c].closing
        /\ smsc'[c].listed = smsc[c].listed /\ smsc'[c].bound = smsc[c].bound
        /\ UNCHANGED <<listening, closers>> /\ smsc[c].at = "handshake"
    <3>1. smsc' = [smsc EXCEPT ![c] = [smsc[c] EXCEPT !.at = "failed", !.s = t]]
      BY <1>1, <1>4 DEF HandshakeFails, Connections
    <3>2. smsc[c].at = "handshake" /\ UNCHANGED <<listening, closers>>
      BY <1>4 DEF HandshakeFails
    <3>. HIDE DEF t
    <3>3. QED
      BY <1>1, <2>1, <3>1, <3>2 DEF Connections
  <2>. HIDE DEF t
  <2>3. ServerInv'
    BY <1>1, <2>1, <2>2, OneMoves
  <2>4. QED
    BY <2>2, <2>3 DEF BoundStays
<1>5. QED
  BY <1>2, <1>3, <1>4

\* A bind is read, and authenticate() answers for it or throws.
LEMMA BindsKeep ==
    ASSUME ServerInv, NEW c \in Conns, NEW accepts \in BOOLEAN,
           BindRead(c) \/ Authenticated(c, accepts) \/ AuthenticateThrows(c)
    PROVE  ServerInv' /\ BoundStays
<1>1. /\ smsc \in [Conns -> Connections] /\ Connection(c)
      /\ smsc[c].listed <=>
            /\ smsc[c].at = "session" /\ ~SessionOver(smsc[c].s)
            /\ \A k \in ServerClosers : c \notin closers[k].live
  BY DEF ServerInv, ServerTypeOK, ListedIsLive, SessionOver
<1>2. smsc[c].authenticating \in 0..MaxBinds /\ MaxBinds \in Nat
  BY <1>1, MaxBindsAssumption DEF Connections
<1>3. /\ smsc[c].authenticating < MaxBinds => smsc[c].authenticating + 1 \in 0..MaxBinds
      /\ smsc[c].authenticating > 0 => smsc[c].authenticating - 1 \in 0..MaxBinds
  BY <1>2
<1>4. /\ smsc' \in [Conns -> Connections] /\ \A d \in Conns \ {c} : smsc'[d] = smsc[d]
      /\ smsc'[c].at = smsc[c].at /\ smsc'[c].s = smsc[c].s /\ smsc'[c].closing = smsc[c].closing
      /\ smsc'[c].listed = smsc[c].listed /\ (smsc[c].bound => smsc'[c].bound)
      /\ UNCHANGED <<listening, closers>>
  <2>1. CASE BindRead(c)
    BY <1>1, <1>3, <2>1 DEF BindRead, Connections
  <2>2. CASE Authenticated(c, accepts)
    <3>. DEFINE b == smsc[c].bound \/ accepts
                n == smsc[c].authenticating - 1
    <3>1. n \in 0..MaxBinds /\ b \in BOOLEAN /\ (smsc[c].bound => b)
      BY <1>3, <2>2 DEF Authenticated
    <3>2. smsc' = [smsc EXCEPT ![c] = [smsc[c] EXCEPT !.authenticating = n, !.bound = b]]
      BY <1>1, <2>2 DEF Authenticated, Connections
    <3>3. UNCHANGED <<listening, closers>>
      BY <2>2 DEF Authenticated
    <3>. HIDE DEF b, n
    <3>4. QED
      BY <1>1, <3>1, <3>2, <3>3 DEF Connections
  <2>3. CASE AuthenticateThrows(c)
    BY <1>1, <1>3, <2>3 DEF AuthenticateThrows, Connections
  <2>4. QED
    BY <2>1, <2>2, <2>3
<1>5. ServerInv'
  BY <1>1, <1>4, OneMoves DEF Connection
<1>6. QED
  BY <1>4, <1>5 DEF BoundStays

\* A drain ends in the end of its session.
LEMMA ServerDrainOverKeeps ==
    ASSUME ServerInv, NEW c \in Conns, ServerDrainOver(c) PROVE ServerInv' /\ BoundStays
<1>1. /\ smsc \in [Conns -> Connections] /\ Connection(c)
      /\ smsc[c].listed <=>
            /\ smsc[c].at = "session" /\ ~SessionOver(smsc[c].s)
            /\ \A k \in ServerClosers : c \notin closers[k].live
  BY DEF ServerInv, ServerTypeOK, ListedIsLive, SessionOver
<1>2. Served!Sound(SMSC!End(smsc[c].s)) /\ SessionOver(SMSC!End(smsc[c].s))
      /\ SMSC!End(smsc[c].s) \in SMSC!Sessions
  BY <1>1, ServedKept DEF Connection
<1>. DEFINE t == SMSC!End(smsc[c].s)
<1>3. /\ smsc' \in [Conns -> Connections] /\ \A d \in Conns \ {c} : smsc'[d] = smsc[d]
      /\ smsc'[c].at = smsc[c].at /\ smsc'[c].s = t /\ smsc[c].closing = "draining"
      /\ smsc'[c].listed = smsc[c].listed /\ smsc'[c].bound = smsc[c].bound
      /\ UNCHANGED <<listening, closers>>
  BY <1>1, <1>2 DEF ServerDrainOver, Connections
<1>4. PICK k \in ServerClosers : c \in closers[k].live
  BY <1>1, <1>3 DEF Connection
<1>5. smsc[c].at = "session"
  BY <1>4 DEF ServerInv, Closer
<1>. HIDE DEF t
<1>6. Served!Sound(t) /\ SessionOver(t)
  BY <1>2 DEF t
<1>7. ServerInv'
  BY <1>1, <1>3, <1>4, <1>5, <1>6, OneMoves
<1>8. QED
  BY <1>3, <1>7 DEF BoundStays

\* What a close() does to each session it takes.
LEMMA CloseTakes ==
    ASSUME ServerInv, NEW k \in ServerClosers, NEW cut \in BOOLEAN, CloseServer(k, cut),
           NEW c \in Listed
    PROVE  /\ smsc'[c] \in Connections /\ Served!Sound(smsc'[c].s)
           /\ smsc'[c].at = "session" /\ ~smsc'[c].listed
           /\ smsc'[c].s.sock = "closed" => SessionOver(smsc'[c].s)
           /\ smsc'[c].closing # "none" /\ smsc'[c].bound = smsc[c].bound
<1>. DEFINE s == smsc[c].s
<1>1. c \in Conns /\ smsc[c] \in Connections /\ Connection(c) /\ smsc[c].listed
  BY DEF ServerInv, ServerTypeOK, Listed
<1>2. smsc[c].at = "session"
  BY <1>1 DEF ServerInv, ListedIsLive
<1>3. Served!Sound(s)
  BY <1>1 DEF Connection
<1>. HIDE DEF s
<1>4. /\ Served!Sound(SMSC!Stop(s)) /\ SMSC!Stop(s).sock = s.sock /\ SMSC!Stop(s) \in SMSC!Sessions
      /\ Served!Sound(SMSC!End(s)) /\ SessionOver(SMSC!End(s)) /\ SMSC!End(s) \in SMSC!Sessions
  <2>1. /\ Served!Sound(SMSC!Stop(s)) /\ SMSC!Stop(s).sock = s.sock
        /\ Served!Sound(SMSC!End(s)) /\ SessionOver(SMSC!End(s))
    BY <1>3, ServedKept
  <2>2. QED
    BY <2>1, ServedKept
<1>5. CASE SMSC!canCarry(s) /\ ~cut
  <2>1. smsc'[c] = [smsc[c] EXCEPT !.s = SMSC!Stop(s), !.closing = "draining", !.listed = FALSE]
    BY <1>1, <1>5 DEF CloseServer, s
  <2>2. s.sock = "open"
    BY <1>5 DEF SMSC!canCarry
  <2>3. /\ smsc'[c] \in Connections /\ smsc'[c].s = SMSC!Stop(s) /\ smsc'[c].at = "session"
        /\ ~smsc'[c].listed /\ smsc'[c].closing = "draining" /\ smsc'[c].bound = smsc[c].bound
    BY <1>1, <1>2, <1>4, <2>1 DEF Connections
  <2>4. QED
    BY <1>4, <2>2, <2>3
<1>6. CASE ~(SMSC!canCarry(s) /\ ~cut)
  <2>1. smsc'[c] = [smsc[c] EXCEPT !.s = SMSC!End(s), !.closing = "over", !.listed = FALSE]
    BY <1>1, <1>6 DEF CloseServer, s
  <2>2. /\ smsc'[c] \in Connections /\ smsc'[c].s = SMSC!End(s) /\ smsc'[c].at = "session"
        /\ ~smsc'[c].listed /\ smsc'[c].closing = "over" /\ smsc'[c].bound = smsc[c].bound
    BY <1>1, <1>2, <1>4, <2>1 DEF Connections
  <2>3. QED
    BY <1>4, <2>2
<1>7. QED
  BY <1>5, <1>6

\* close() takes every session there is, and nothing of the others.
LEMMA CloseServerKeeps ==
    ASSUME ServerInv, NEW k \in ServerClosers, NEW cut \in BOOLEAN, CloseServer(k, cut)
    PROVE  ServerInv' /\ BoundStays
<1>1. /\ listening' = FALSE /\ closers[k].at = "idle" /\ closers[k].live = {}
      /\ closers' = [closers EXCEPT ![k] = [at |-> "waiting", live |-> Listed]]
      /\ Listed \in SUBSET Conns
  BY DEF CloseServer, ServerInv, Closer, Listed
<1>2. ASSUME NEW c \in Conns
      PROVE  IF c \in Listed
             THEN /\ smsc'[c] \in Connections /\ Served!Sound(smsc'[c].s)
                  /\ smsc'[c].at = "session" /\ ~smsc'[c].listed
                  /\ smsc'[c].s.sock = "closed" => SessionOver(smsc'[c].s)
                  /\ smsc'[c].closing # "none" /\ smsc'[c].bound = smsc[c].bound
                  /\ smsc[c].at = "session" /\ ~SessionOver(smsc[c].s)
                  /\ \A j \in ServerClosers : c \notin closers[j].live
             ELSE smsc'[c] = smsc[c] /\ ~smsc[c].listed
  <2>1. CASE c \in Listed
    <3>1. smsc[c].listed
      BY <2>1 DEF Listed
    <3>2. smsc[c].at = "session" /\ ~SessionOver(smsc[c].s)
          /\ \A j \in ServerClosers : c \notin closers[j].live
      BY <3>1 DEF ServerInv, ListedIsLive, SessionOver
    <3>3. QED
      BY <2>1, <3>2, CloseTakes
  <2>2. CASE c \notin Listed
    BY <2>2 DEF CloseServer, Listed
  <2>3. QED
    BY <2>1, <2>2
<1>3. /\ smsc \in [Conns -> Connections]
      /\ closers \in [ServerClosers ->
                       [at : {"idle", "waiting", "resolved"}, live : SUBSET Conns]]
      /\ DOMAIN smsc' = Conns /\ smsc' = [c \in Conns |-> smsc'[c]]
  BY DEF ServerInv, ServerTypeOK, CloseServer
<1>4. ServerTypeOK'
  <2>1. \A c \in Conns : smsc'[c] \in Connections
    BY <1>2, <1>3
  <2>2. smsc' \in [Conns -> Connections]
    BY <1>3, <2>1
  <2>3. QED
    BY <1>1, <1>3, <2>2 DEF ServerTypeOK
<1>5. /\ closers'[k].at = "waiting" /\ closers'[k].live = Listed
      /\ \A j \in ServerClosers \ {k} : closers'[j] = closers[j]
  BY <1>1, <1>3
<1>6. \A c \in Conns : (\E j \in ServerClosers : c \in closers[j].live) =>
        \E j \in ServerClosers : c \in closers'[j].live
  BY <1>1, <1>5
<1>7. ASSUME NEW c \in Conns PROVE Connection(c)'
  <2>1. Connection(c)
    BY DEF ServerInv
  <2>2. CASE c \in Listed
    BY <1>2, <1>5, <2>2 DEF Connection
  <2>3. CASE c \notin Listed
    <3>1. smsc'[c] = smsc[c]
      BY <1>2, <2>3
    <3>2. QED
      BY <1>6, <2>1, <3>1 DEF Connection
  <2>4. QED
    BY <2>2, <2>3
<1>8. ASSUME NEW j \in ServerClosers PROVE Closer(j)'
  <2>1. ASSUME NEW c \in Conns, smsc[c].at = "session" PROVE smsc'[c].at = "session"
    BY <1>2, <2>1
  <2>2. CASE j = k
    BY <1>1, <1>2, <1>5, <2>2 DEF Closer
  <2>3. CASE j # k
    <3>1. closers'[j] = closers[j] /\ Closer(j) /\ closers[j].live \in SUBSET Conns
      BY <1>3, <1>5, <2>3 DEF ServerInv
    <3>2. QED
      BY <1>1, <2>1, <3>1 DEF Closer
  <2>4. QED
    BY <2>2, <2>3
<1>9. ListedIsLive'
  <2>1. ASSUME NEW c \in Conns
        PROVE  smsc'[c].listed <=>
                  /\ smsc'[c].at = "session" /\ ~SessionOver(smsc'[c].s)
                  /\ \A j \in ServerClosers : c \notin closers'[j].live
    <3>1. CASE c \in Listed
      BY <1>2, <1>5, <3>1
    <3>2. CASE c \notin Listed
      <4>1. smsc'[c] = smsc[c] /\ ~smsc[c].listed
        BY <1>2, <3>2
      <4>2. ~(/\ smsc[c].at = "session" /\ ~SessionOver(smsc[c].s)
              /\ \A j \in ServerClosers : c \notin closers[j].live)
        BY <4>1 DEF ServerInv, ListedIsLive, SessionOver
      <4>3. QED
        BY <1>6, <4>1, <4>2
    <3>3. QED
      BY <3>1, <3>2
  <2>2. QED
    BY <2>1 DEF ListedIsLive, SessionOver
<1>10. ClosedServerIsEmpty'
  <2>1. ASSUME NEW j \in ServerClosers, closers'[j].at = "resolved", NEW c \in Conns
        PROVE  \/ smsc'[c].at \in {"none", "failed"}
               \/ smsc'[c].at = "session" /\ SessionOver(smsc'[c].s)
    <3>1. closers[j].at = "resolved"
      BY <1>5, <2>1
    <3>2. \/ smsc[c].at \in {"none", "failed"}
          \/ smsc[c].at = "session" /\ SessionOver(smsc[c].s)
      BY <3>1 DEF ServerInv, ClosedServerIsEmpty, SessionOver
    <3>3. QED
      BY <1>2, <3>2
  <2>2. QED
    BY <2>1 DEF ClosedServerIsEmpty, SessionOver
<1>11. BoundStays
  BY <1>2 DEF BoundStays
<1>12. QED
  BY <1>4, <1>7, <1>8, <1>9, <1>10, <1>11 DEF ServerInv

\* close() resolves when the listener's last connection is gone.
LEMMA CloseResolvesKeeps ==
    ASSUME ServerInv, NEW k \in ServerClosers, CloseResolves(k) PROVE ServerInv' /\ BoundStays
<1>1. /\ smsc' = smsc /\ listening' = listening
      /\ closers \in [ServerClosers ->
                       [at : {"idle", "waiting", "resolved"}, live : SUBSET Conns]]
      /\ closers' = [closers EXCEPT ![k].at = "resolved"] /\ closers[k].at = "waiting"
  BY DEF CloseResolves, ServerInv, ServerTypeOK
<1>2. /\ closers' \in [ServerClosers ->
                       [at : {"idle", "waiting", "resolved"}, live : SUBSET Conns]]
      /\ closers'[k].at = "resolved"
      /\ \A j \in ServerClosers : closers'[j].live = closers[j].live
      /\ \A j \in ServerClosers \ {k} : closers'[j] = closers[j]
  BY <1>1
<1>3. ServerTypeOK'
  BY <1>1, <1>2 DEF ServerInv, ServerTypeOK
<1>4. \A c \in Conns : Connection(c)'
  BY <1>1, <1>2 DEF ServerInv, Connection
<1>5. \A j \in ServerClosers : Closer(j)'
  BY <1>1, <1>2 DEF ServerInv, Closer
<1>6. ListedIsLive'
  BY <1>1, <1>2 DEF ServerInv, ListedIsLive
<1>7. ASSUME NEW c \in Conns
      PROVE  \/ smsc[c].at \in {"none", "failed"}
             \/ smsc[c].at = "session" /\ SessionOver(smsc[c].s)
  <2>1. Connection(c) /\ smsc[c].at \in {"none", "handshake", "session", "failed"}
        /\ (smsc[c].at # "none" => smsc[c].s.sock = "closed")
    BY DEF ServerInv, ServerTypeOK, Connections, CloseResolves
  <2>2. smsc[c].at # "handshake"
    BY <2>1, ServedStarts DEF Connection
  <2>3. QED
    BY <2>1, <2>2 DEF Connection
<1>8. ClosedServerIsEmpty'
  BY <1>1, <1>7 DEF ClosedServerIsEmpty, SessionOver
<1>9. QED
  BY <1>1, <1>3, <1>4, <1>5, <1>6, <1>8 DEF ServerInv, BoundStays

-----------------------------------------------------------------------------
(* Both, and the wire between them.                                        *)

\* client() has not just resolved with a session.
ResultStays == call'.result = "session" => call.result = "session" /\ call'.tries = call.tries

\* A failed bind, and whatever fails one, resolves client() with no session.
LEMMA FailuresStay ==
    ASSUME ClientInv, NEW i, NEW e, BindFails(i, e) PROVE ResultStays
  BY DEF ClientInv, ClientTypes, BindFails, FirstFailed, Settled, Calls, ResultStays

\* The turns of the client but those in which a bind is accepted.
LEMMA ClientTurns ==
    ASSUME ClientInv,
           \/ CallClient \/ Abort \/ ConnectFails \/ LoopTimer
           \/ ConnectOpens \/ ConnectOpensAborted
           \/ \E i \in Tries : \/ BindRefused(i) \/ ClientGivesLinkUp(i)
                               \/ ClientSocketCloses(i) \/ ClientDrainOver(i)
    PROVE  ClientInv' /\ ResultStays
<1>1. call \in Calls /\ Control
  BY DEF ClientInv, ClientTypes
<1>2. CASE CallClient
  BY <1>1, <1>2, CallClientKeeps DEF CallClient, Settled, Calls, ResultStays
<1>3. CASE Abort
  BY <1>1, <1>3, AbortKeeps DEF Abort, Settled, Calls, ResultStays
<1>4. CASE ConnectFails
  BY <1>1, <1>4, ConnectFailsKeeps DEF ConnectFails, FirstFailed, Settled, Calls, ResultStays
<1>5. CASE LoopTimer
  BY <1>5, LoopTimerKeeps DEF LoopTimer, ResultStays
<1>6. CASE ConnectOpens
  BY <1>1, <1>6, ConnectOpensKeeps DEF ConnectOpens, Connecting, Control, Calls, ResultStays
<1>7. CASE ConnectOpensAborted
  BY <1>1, <1>7, ConnectOpensAbortedKeeps DEF ConnectOpensAborted, Settled, Calls, ResultStays
<1>8. ASSUME NEW i \in Tries, BindRefused(i) PROVE ClientInv' /\ ResultStays
  BY <1>8, BindFailsKeeps, FailuresStay DEF BindRefused, ClientInv, ClientTypes
<1>9. ASSUME NEW i \in Tries, ClientGivesLinkUp(i) \/ ClientSocketCloses(i)
      PROVE  ClientInv' /\ ResultStays
  <2>1. PICK t : /\ SessionTurn(i, t)
                 /\ \/ /\ esme[i].s.sock # "closed"
                       /\ t = OnClose([esme[i].s EXCEPT !.sock = "closed"], FALSE)
                    \/ t = Teardown(esme[i].s, FALSE)
    BY <1>9 DEF ClientGivesLinkUp, ClientSocketCloses
  <2>2. i \in Made
    BY <1>9 DEF ClientGivesLinkUp, ClientSocketCloses
  <2>3. ClientInv'
    BY <2>1, <2>2, SessionTurnKeeps
  <2>4. ResultStays
    <3>1. (\E e : BindFails(i, e)) \/ UNCHANGED call
      BY <2>1 DEF SessionTurn
    <3>2. QED
      BY <3>1, FailuresStay DEF ResultStays
  <2>5. QED
    BY <2>3, <2>4
<1>10. ASSUME NEW i \in Tries, ClientDrainOver(i) PROVE ClientInv' /\ ResultStays
  BY <1>10, ClientDrainOverKeeps DEF ClientDrainOver, ResultStays
<1>11. QED
  BY <1>2, <1>3, <1>4, <1>5, <1>6, <1>7, <1>8, <1>9, <1>10

Wires == [bind : BOOLEAN, resp : {"none", "ok", "fail"}]

\* An answer says what the server has recorded, and so does client()'s.
WireInv ==
    /\ wire \in [Tries -> Wires] /\ faults \in 0..MaxFaults
    /\ \A i \in Tries : wire[i].resp = "ok" => smsc[i].bound
    /\ HandedOverWasAccepted

Inv == ClientInv /\ ServerInv /\ WireInv

\* A client that is not called, a server nobody connects to, and nothing on the wire.
LEMMA InvInit == Init => Inv
<1>1. Init => WireInv
  BY FaultsAssumption DEF Init, ClientInit, WireInv, Wires, HandedOverWasAccepted
<1>2. QED
  BY <1>1, ClientStarts, ServerStarts DEF Init, Inv

\* A fault is counted.
LEMMA FaultCounted ==
    ASSUME faults \in 0..MaxFaults, Fault \/ UNCHANGED faults PROVE faults' \in 0..MaxFaults
  BY FaultsAssumption DEF Fault

\* A step that hands over no session and answers no bind leaves the wire true.
LEMMA WireStays ==
    ASSUME Inv, ResultStays, BoundStays, Fault \/ UNCHANGED faults,
           wire' \in [Tries -> Wires],
           \A i \in Tries : wire'[i].resp = "ok" => wire[i].resp = "ok"
    PROVE  WireInv'
<1>1. faults' \in 0..MaxFaults
  BY FaultCounted DEF Inv, WireInv
<1>2. \A i \in Tries : i \in Conns
  BY ConnsAssumption
<1>3. \A i \in Tries : wire'[i].resp = "ok" => smsc'[i].bound
  BY <1>2 DEF Inv, WireInv, BoundStays
<1>4. HandedOverWasAccepted'
  <2>1. SUFFICES ASSUME call'.result = "session" PROVE smsc'[call'.tries].bound
    BY DEF HandedOverWasAccepted
  <2>2. call.result = "session" /\ call'.tries = call.tries
    BY <2>1 DEF ResultStays
  <2>3. call.tries \in Tries
    BY <2>2, MaxTriesAssumption DEF Inv, ClientInv, ClientTypes, Control, Calls, Tries
  <2>4. smsc[call.tries].bound
    BY <2>2 DEF Inv, WireInv, HandedOverWasAccepted
  <2>5. QED
    BY <1>2, <2>2, <2>3, <2>4 DEF BoundStays
<1>5. QED
  BY <1>1, <1>3, <1>4 DEF WireInv

\* The client is not the server.
LEMMA ClientUntouched == ClientInv /\ UNCHANGED clientVars => ClientInv' /\ ResultStays
  BY DEF clientVars, ClientInv, ClientTypes, Control, InUse, IsBinding, Kept, ResultStays

\* The server is not the client.
LEMMA ServerUntouched == ServerInv /\ UNCHANGED serverVars => ServerInv' /\ BoundStays
  BY DEF serverVars, ServerInv, ServerTypeOK, Connection, Closer, ListedIsLive,
         ClosedServerIsEmpty, BoundStays

\* Turns of the client alone.
LEMMA ClientAloneKeeps ==
    ASSUME Inv,
           \/ Starts \/ Aborts \/ CannotConnect \/ Retries
           \/ \E i \in Tries : \/ BindTimesOut(i) \/ ClientGivesUp(i) \/ ClientHearsClose(i)
                               \/ ClientLinkDies(i) \/ ClientDrained(i)
    PROVE  Inv'
<1>1. UNCHANGED serverVars /\ UNCHANGED wire /\ (Fault \/ UNCHANGED faults)
  BY DEF Starts, Aborts, CannotConnect, Retries, BindTimesOut, ClientGivesUp,
         ClientHearsClose, ClientLinkDies, ClientDrained
<1>2. ClientInv' /\ ResultStays
  BY ClientTurns
     DEF Inv, Starts, Aborts, CannotConnect, Retries, BindTimesOut, ClientGivesUp,
         ClientHearsClose, ClientLinkDies, ClientDrained
<1>3. ServerInv' /\ BoundStays
  BY <1>1, ServerUntouched DEF Inv
<1>4. wire' \in [Tries -> Wires] /\ \A i \in Tries : wire'[i].resp = "ok" => wire[i].resp = "ok"
  BY <1>1 DEF Inv, WireInv
<1>5. WireInv'
  BY <1>1, <1>2, <1>3, <1>4, WireStays
<1>6. QED
  BY <1>2, <1>3, <1>5 DEF Inv

\* Turns of the server alone, and of the strangers it serves.
LEMMA ServerAloneKeeps ==
    ASSUME Inv,
           \/ StrangerStep
           \/ \E c \in Conns : \/ HandshakeDone(c) \/ HandshakeLost(c) \/ AuthenticationThrows(c)
                               \/ ServerGivesUp(c) \/ ServerHearsClose(c) \/ ServerLinkDies(c)
                               \/ ServerDrained(c)
           \/ \E k \in ServerClosers : \/ \E cut \in BOOLEAN : ServerCloses(k, cut)
                                       \/ ServerIsClosed(k)
    PROVE  Inv'
<1>. USE DEF StrangerStep, Strangers, StrangerConnects, StrangerBinds, StrangerUnbinds,
             HandshakeDone, HandshakeLost, AuthenticationThrows, ServerGivesUp,
             ServerHearsClose, ServerLinkDies, ServerDrained, ServerCloses, ServerIsClosed
<1>1. UNCHANGED clientVars /\ UNCHANGED wire /\ (Fault \/ UNCHANGED faults)
  OBVIOUS
<1>2. ClientInv' /\ ResultStays
  BY <1>1, ClientUntouched DEF Inv
<1>3. ServerInv' /\ BoundStays
  <2>1. \/ \E c \in Conns : \/ UnbindRead(c) \/ ServerSocketCloses(c) \/ ServerGivesLinkUp(c)
                            \/ ConnectionArrives(c) \/ Accepted(c) \/ HandshakeFails(c)
                            \/ BindRead(c) \/ AuthenticateThrows(c) \/ ServerDrainOver(c)
        \/ \E k \in ServerClosers : (\E cut \in BOOLEAN : CloseServer(k, cut)) \/ CloseResolves(k)
    OBVIOUS
  <2>2. ServerInv
    BY DEF Inv
  <2>3. ASSUME NEW c \in Conns,
               UnbindRead(c) \/ ServerSocketCloses(c) \/ ServerGivesLinkUp(c)
        PROVE  ServerInv' /\ BoundStays
    BY <2>2, <2>3, TurnsKeep
  <2>4. ASSUME NEW c \in Conns, ConnectionArrives(c) \/ Accepted(c) \/ HandshakeFails(c)
        PROVE  ServerInv' /\ BoundStays
    BY <2>2, <2>4, ConnectionsKeep
  <2>5. ASSUME NEW c \in Conns, BindRead(c) \/ AuthenticateThrows(c)
        PROVE  ServerInv' /\ BoundStays
    <3>1. TRUE \in BOOLEAN
      OBVIOUS
    <3>2. QED
      BY <2>2, <2>5, <3>1, BindsKeep
  <2>6. ASSUME NEW c \in Conns, ServerDrainOver(c) PROVE ServerInv' /\ BoundStays
    BY <2>2, <2>6, ServerDrainOverKeeps
  <2>7. ASSUME NEW k \in ServerClosers, NEW cut \in BOOLEAN, CloseServer(k, cut)
        PROVE  ServerInv' /\ BoundStays
    BY <2>2, <2>7, CloseServerKeeps
  <2>8. ASSUME NEW k \in ServerClosers, CloseResolves(k) PROVE ServerInv' /\ BoundStays
    BY <2>2, <2>8, CloseResolvesKeeps
  <2>9. QED
    BY <2>1, <2>3, <2>4, <2>5, <2>6, <2>7, <2>8
<1>4. wire' \in [Tries -> Wires] /\ \A i \in Tries : wire'[i].resp = "ok" => wire[i].resp = "ok"
  BY <1>1 DEF Inv, WireInv
<1>5. WireInv'
  BY <1>1, <1>2, <1>3, <1>4, WireStays
<1>6. QED
  BY <1>2, <1>3, <1>5 DEF Inv

\* A connect that opens is a connection of the server, with a bind on the way to it.
LEMMA ConnectsKeep == ASSUME Inv, Connects \/ ConnectsAborted PROVE Inv'
<1>1. ClientInv' /\ ResultStays
  BY ClientTurns DEF Inv, Connects, ConnectsAborted
<1>2. (ConnectionArrives(call'.tries) /\ call'.tries \in Conns) \/ UNCHANGED serverVars
  BY ConnectOpensKeeps, ConnectOpensAbortedKeeps, ConnsAssumption
     DEF Inv, Connects, ConnectsAborted
<1>3. ServerInv' /\ BoundStays
  <2>1. ServerInv
    BY DEF Inv
  <2>2. CASE ConnectionArrives(call'.tries) /\ call'.tries \in Conns
    BY <2>1, <2>2, ConnectionsKeep
  <2>3. CASE UNCHANGED serverVars
    BY <2>1, <2>3, ServerUntouched
  <2>4. QED
    BY <1>2, <2>2, <2>3
<1>4. wire' \in [Tries -> Wires] /\ \A i \in Tries : wire'[i].resp = "ok" => wire[i].resp = "ok"
  <2>1. wire \in [Tries -> Wires]
    BY DEF Inv, WireInv
  <2>2. PICK j : wire' = [wire EXCEPT ![j].bind = TRUE] \/ wire' = wire
    BY DEF Connects, ConnectsAborted
  <2>3. QED
    BY <2>1, <2>2 DEF Wires
<1>5. Fault \/ UNCHANGED faults
  BY DEF Connects, ConnectsAborted
<1>6. WireInv'
  BY <1>1, <1>3, <1>4, <1>5, WireStays
<1>7. QED
  BY <1>1, <1>3, <1>6 DEF Inv

\* The bind is read.
LEMMA ReadsBindKeeps == ASSUME Inv, NEW i \in Tries, ReadsBind(i) PROVE Inv'
<1>1. ClientInv' /\ ResultStays
  BY ClientUntouched DEF Inv, ReadsBind
<1>2. ServerInv' /\ BoundStays
  <2>1. ServerInv /\ i \in Conns /\ BindRead(i) /\ TRUE \in BOOLEAN
    BY ConnsAssumption DEF Inv, ReadsBind
  <2>2. QED
    BY <2>1, BindsKeep
<1>3. wire' \in [Tries -> Wires] /\ \A j \in Tries : wire'[j].resp = "ok" => wire[j].resp = "ok"
  BY DEF Inv, WireInv, Wires, ReadsBind
<1>4. WireInv'
  BY <1>1, <1>2, <1>3, WireStays DEF ReadsBind
<1>5. QED
  BY <1>1, <1>2, <1>4 DEF Inv

\* It is answered: an ESME_ROK says what was recorded in the same turn.
LEMMA AnswersBindKeeps ==
    ASSUME Inv, NEW c \in Conns, NEW accepts \in BOOLEAN, AnswersBind(c, accepts) PROVE Inv'
<1>1. ClientInv' /\ ResultStays
  BY ClientUntouched DEF Inv, AnswersBind
<1>2. ServerInv' /\ BoundStays
  BY BindsKeep DEF Inv, AnswersBind
<1>3. faults' = faults /\ call' = call
  BY DEF AnswersBind, clientVars
<1>4. accepts => smsc'[c].bound
  BY DEF AnswersBind, Authenticated, Inv, ServerInv, ServerTypeOK, Connections
<1>5. wire' \in [Tries -> Wires]
  BY DEF Inv, WireInv, Wires, AnswersBind
<1>6. ASSUME NEW i \in Tries, wire'[i].resp = "ok" PROVE smsc'[i].bound
  <2>1. wire[i].resp = "ok" \/ (i = c /\ accepts)
    BY <1>6 DEF Inv, WireInv, Wires, AnswersBind
  <2>2. i \in Conns
    BY ConnsAssumption
  <2>3. CASE wire[i].resp = "ok"
    BY <1>2, <2>2, <2>3 DEF Inv, WireInv, BoundStays
  <2>4. QED
    BY <1>4, <2>1, <2>3
<1>7. HandedOverWasAccepted'
  <2>1. SUFFICES ASSUME call.result = "session" PROVE smsc'[call.tries].bound
    BY <1>3 DEF HandedOverWasAccepted
  <2>2. call.tries \in Tries
    BY <2>1, MaxTriesAssumption DEF Inv, ClientInv, ClientTypes, Control, Calls, Tries
  <2>3. call.tries \in Conns /\ smsc[call.tries].bound
    BY <2>1, <2>2, ConnsAssumption DEF Inv, WireInv, HandedOverWasAccepted
  <2>4. QED
    BY <1>2, <2>3 DEF BoundStays
<1>8. WireInv'
  BY <1>3, <1>5, <1>6, <1>7 DEF Inv, WireInv
<1>9. QED
  BY <1>1, <1>2, <1>8 DEF Inv

\* The answer is heard: client() resolves with a session on an ESME_ROK alone.
LEMMA HearsAnswerKeeps == ASSUME Inv, NEW i \in Tries, HearsAnswer(i) PROVE Inv'
<1>1. ServerInv' /\ BoundStays /\ smsc' = smsc
  BY ServerUntouched DEF Inv, HearsAnswer, serverVars
<1>2. wire' \in [Tries -> Wires] /\ \A j \in Tries : wire'[j].resp = "ok" => wire[j].resp = "ok"
  BY DEF Inv, WireInv, Wires, HearsAnswer
<1>3. Fault \/ UNCHANGED faults
  BY DEF HearsAnswer
<1>4. CASE BindRefused(i)
  <2>1. ClientInv' /\ ResultStays
    BY <1>4, ClientTurns DEF Inv
  <2>2. WireInv'
    BY <1>1, <1>2, <1>3, <2>1, WireStays
  <2>3. QED
    BY <1>1, <2>1, <2>2 DEF Inv
<1>5. CASE wire[i].resp = "ok" /\ (BindAccepted(i) \/ BindAcceptedAborted(i))
  <2>1. ClientInv' /\ i = call'.tries
    BY <1>5, BindAcceptedKeeps, BindAcceptedAbortedKeeps DEF Inv
  <2>2. smsc[i].bound /\ \A j \in Tries : wire[j].resp = "ok" => smsc[j].bound
    BY <1>5 DEF Inv, WireInv
  <2>3. HandedOverWasAccepted'
    BY <1>1, <2>1, <2>2 DEF HandedOverWasAccepted
  <2>4. faults' \in 0..MaxFaults
    BY <1>3, FaultCounted DEF Inv, WireInv
  <2>5. WireInv'
    BY <1>1, <1>2, <2>2, <2>3, <2>4 DEF WireInv
  <2>6. QED
    BY <1>1, <2>1, <2>5 DEF Inv
<1>6. QED
  BY <1>4, <1>5 DEF HearsAnswer

\* Every step keeps the invariant.
LEMMA InvNext == Inv /\ [Next]_vars => Inv'
<1>. SUFFICES ASSUME Inv, [Next]_vars PROVE Inv'
  OBVIOUS
<1>1. CASE UNCHANGED vars
  <2>1. UNCHANGED clientVars /\ UNCHANGED serverVars /\ UNCHANGED wire /\ UNCHANGED faults
    BY <1>1 DEF vars
  <2>2. ClientInv' /\ ResultStays /\ ServerInv' /\ BoundStays
    BY <2>1, ClientUntouched, ServerUntouched DEF Inv
  <2>3. wire' \in [Tries -> Wires] /\ \A i \in Tries : wire'[i].resp = "ok" => wire[i].resp = "ok"
    BY <2>1 DEF Inv, WireInv
  <2>4. WireInv'
    BY <2>1, <2>2, <2>3, WireStays
  <2>5. QED
    BY <2>2, <2>4 DEF Inv
<1>2. CASE ClientStep
  BY <1>2, ClientAloneKeeps, ConnectsKeep, ReadsBindKeeps, HearsAnswerKeeps DEF ClientStep
<1>3. CASE ServerStep
  BY <1>3, ServerAloneKeeps, AnswersBindKeeps DEF ServerStep
<1>4. CASE StrangerStep
  BY <1>4, ServerAloneKeeps
<1>5. QED
  BY <1>1, <1>2, <1>3, <1>4 DEF Next

\* The invariant holds in every reachable state.
LEMMA InvAlways == Spec => []Inv
  BY InvInit, InvNext, PTL DEF Spec

-----------------------------------------------------------------------------
(* The theorems.                                                           *)

\* Every variable stays in its domain, for every number of attempts and connections
\* (client.ts, server.ts).
THEOREM TypeCorrect == Spec => []TypeOK
<1>1. Inv => TypeOK
  BY DEF Inv, ClientInv, ClientTypes, ServerInv, WireInv, Wires, TypeOK, ClientTypeOK, Hidden
<1>2. QED
  BY <1>1, InvAlways, PTL

\* client() leaves no session behind that nobody was given, and no loop that goes on
\* (client.ts bindOn, keepTrying).
THEOREM LeavesNothingBehind == Spec => []NothingLeftBehind
<1>1. Inv => NothingLeftBehind
  <2>. SUFFICES ASSUME Inv PROVE NothingLeftBehind
    OBVIOUS
  <2>1. \A i \in Made : i \in Tries /\ i <= call.tries
    BY MaxTriesAssumption DEF Inv, ClientInv, ClientTypes, Made, Tries, Calls
  <2>2. \A i \in Tries : Sound(esme[i].s) /\ InUse(i)
    BY DEF Inv, ClientInv, ClientTypes, Kept
  <2>3. Control
    BY DEF Inv, ClientInv
  <2>4. QED
    BY <2>1, <2>2, <2>3 DEF NothingLeftBehind, InUse, Sound, Control
<1>2. QED
  BY <1>1, InvAlways, PTL

\* client() resolves with a session only where the server recorded its bind
\* (client.ts bind, server.ts onBind).
THEOREM HandsOverAccepted == Spec => []HandedOverWasAccepted
<1>1. Inv => HandedOverWasAccepted
  BY DEF Inv, WireInv
<1>2. QED
  BY <1>1, InvAlways, PTL

\* The server's set holds exactly the sessions that live and no close() has taken
\* (server.ts onConnection, close).
THEOREM ListsTheLive == Spec => []ListedIsLive
<1>1. Inv => ListedIsLive
  BY DEF Inv, ServerInv
<1>2. QED
  BY <1>1, InvAlways, PTL

\* When the server's close() resolves no connection is left, and none comes (server.ts close).
THEOREM ClosedIsEmpty == Spec => []ClosedServerIsEmpty
<1>1. Inv => ClosedServerIsEmpty
  BY DEF Inv, ServerInv
<1>2. QED
  BY <1>1, InvAlways, PTL
=============================================================================
