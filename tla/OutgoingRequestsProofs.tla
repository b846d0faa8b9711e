------------------------ MODULE OutgoingRequestsProofs ------------------------
(***************************************************************************)
(* Proofs about OutgoingRequests for any requests, calls and window size:  *)
(* its caller is kept the contract of SendContract, and the window's count *)
(* and queue are those of the requests that hold and await a slot.  And of *)
(* Sending: no send keeps silent about a segment the peer has taken.       *)
(***************************************************************************)
EXTENDS Sending, FiniteSetTheorems, TLAPS

-----------------------------------------------------------------------------
(* The link: what the operations of LinkLife do to its fields.             *)

\* attach() binds a link unless the session is over (link-life.ts).
LEMMA AttachLink ==
    ASSUME NEW l \in Links
    PROVE  /\ attach(l) \in Links /\ attach(l).stopped = l.stopped
           /\ attach(l).phase = IF l.phase = "ended" THEN "ended" ELSE "binding"
  BY DEF Links, Phases, attach, isOver

\* open() makes the link up, whatever it was.
LEMMA OpenLink ==
    ASSUME NEW l \in Links
    PROVE  open(l) \in Links /\ open(l).phase = "up" /\ open(l).stopped = l.stopped
  BY DEF Links, Phases, open

\* drop() takes an attached link down and leaves any other alone.
LEMMA DropLink ==
    ASSUME NEW l \in Links
    PROVE  /\ drop(l) \in Links /\ drop(l).stopped = l.stopped
           /\ drop(l).phase = IF l.phase \in {"binding", "up"} THEN "down" ELSE l.phase
<1>1. l.drops + 1 \in Nat
  BY DEF Links
<1>2. QED
  BY <1>1 DEF Links, Phases, drop, isAttached

\* stop() changes nothing but the flag.
LEMMA StopLink ==
    ASSUME NEW l \in Links
    PROVE  stop(l) \in Links /\ stop(l).phase = l.phase /\ stop(l).stopped = TRUE
  BY DEF Links, Phases, stop

\* end() is stopped as well.
LEMMA EndLink ==
    ASSUME NEW l \in Links
    PROVE  end(l) \in Links /\ end(l).phase = "ended" /\ end(l).stopped = TRUE
  BY DEF Links, Phases, end

-----------------------------------------------------------------------------
(* The contract.                                                           *)

Types ==
    /\ link \in Links /\ destroyed \in BOOLEAN
    /\ pc \in [Requests -> Places] /\ result \in [Requests -> Results]
    /\ written \in [Requests -> Nat]
    /\ queue \in Seq(Requests) /\ late \subseteq Requests

\* What the place of a request says of it.  The last conjunct is what keeps the requests
\* of a stopped session off the wire: it admits one only to a socket that is dead, and no
\* other socket follows that one.
Kept(r) ==
    /\ pc[r] = "unissued" => written[r] = 0 /\ r \notin late
    /\ pc[r] \in {"holding", "linked", "queued", "slotted"} => written[r] = 0 /\ result[r] = "none"
    /\ pc[r] = "wire" => written[r] = 1 /\ result[r] = "none"
    /\ pc[r] \in {"finished", "released"} =>
        \/ written[r] = 0 /\ result[r] \in {"unsent", "unwritten"}
        \/ written[r] = 1 /\ result[r] \in {"answered", "unanswered"}
    /\ pc[r] = "done" =>
        \/ written[r] = 0 /\ result[r] = "unsent"
        \/ written[r] = 1 /\ result[r] \in {"answered", "unanswered"}
    /\ r \in late => link.stopped
    /\ r \in late \ Receipts /\ pc[r] # "done" => written[r] = 0 /\ destroyed

\* The head of the queue, and all behind it, wait there.
Waiting == \A i \in 1 .. Len(queue) : pc[queue[i]] = "queued"

EachOnce == \A i, j \in 1 .. Len(queue) : queue[i] = queue[j] => i = j

AllThere == \A r \in Requests : pc[r] = "queued" => \E i \in 1 .. Len(queue) : queue[i] = r

CInv == Types /\ Waiting /\ EachOnce /\ AllThere /\ \A r \in Requests : Kept(r)

\* What a step does to a request, as far as its caller can tell.
Moves(r) ==
    /\ pc[r] # "unissued" => pc'[r] # "unissued" /\ (r \in late' <=> r \in late)
    /\ pc[r] = "unissued" /\ pc'[r] # "unissued" =>
        written'[r] = 0 /\ (r \in late' <=> link.stopped)
    /\ pc[r] = "done" => pc'[r] = "done" /\ written'[r] = written[r] /\ result'[r] = result[r]
    /\ written[r] = 1 => written'[r] = 1
    /\ written[r] = 1 /\ result[r] # "none" => result'[r] = result[r]
    /\ written[r] = 0 /\ written'[r] # 0 => pc'[r] = "wire"

Stays(r) ==
    pc'[r] = pc[r] /\ written'[r] = written[r] /\ result'[r] = result[r] /\ (r \in late' <=> r \in late)

\* A request that stays where it is keeps its part of the invariant.
LEMMA StaysKept ==
    ASSUME NEW r \in Requests, Kept(r), Stays(r),
           link.stopped => link'.stopped,
           destroyed /\ link.stopped => destroyed'
    PROVE  Kept(r)' /\ Moves(r)
  BY DEF Kept, Moves, Stays

\* Nothing has been asked for.
LEMMA ContractInit == Init => CInv
<1>. SUFFICES ASSUME Init PROVE CInv
  OBVIOUS
<1>1. link \in Links /\ destroyed \in BOOLEAN
  BY DEF Init, FirstLink, Links, Phases
<1>2. /\ pc \in [Requests -> Places] /\ result \in [Requests -> Results]
      /\ written \in [Requests -> Nat] /\ late \subseteq Requests
  BY DEF Init, Places, Results
<1>3. queue \in Seq(Requests) /\ Waiting /\ EachOnce /\ AllThere
  BY DEF Init, Waiting, EachOnce, AllThere
<1>4. ASSUME NEW r \in Requests PROVE Kept(r)
  BY DEF Init, Kept
<1>5. QED
  BY <1>1, <1>2, <1>3, <1>4 DEF CInv, Types

\* The queue is left alone, and so are those that wait in it.
LEMMA QueueStays ==
    ASSUME Types, Waiting, EachOnce, AllThere, queue' = queue,
           \A r \in Requests : pc[r] = "queued" <=> pc'[r] = "queued"
    PROVE  Waiting' /\ EachOnce' /\ AllThere' /\ queue' \in Seq(Requests)
<1>1. \A i \in 1 .. Len(queue) : queue[i] \in Requests
  BY DEF Types
<1>2. QED
  BY <1>1 DEF Types, Waiting, EachOnce, AllThere

\* A call begins: its requests are refused, or wait for a link.
LEMMA IssueKeeps ==
    ASSUME CInv, NEW rs \in Calls, Issue(rs)
    PROVE  CInv' /\ \A r \in Requests : Moves(r)
<1>1. rs \subseteq Requests
  BY DEF Requests
<1>2. pc' \in [Requests -> Places] /\ result' \in [Requests -> Results]
  BY DEF CInv, Types, Issue, Refuse, WaitForLink, Places, Results
<1>3. Types'
  BY <1>1, <1>2 DEF CInv, Types, Issue, vars, window
<1>4. ASSUME NEW r \in Requests PROVE Kept(r)' /\ Moves(r)
  <2>1. Kept(r) /\ link \in Links
    BY DEF CInv, Types
  <2>2. CASE r \notin rs
    <3>1. pc'[r] = pc[r] /\ result'[r] = result[r]
      BY <2>2 DEF CInv, Types, Issue, Refuse, WaitForLink
    <3>2. Stays(r)
      BY <3>1, <2>2 DEF Issue, Stays
    <3>3. QED
      BY <2>1, <3>2, StaysKept DEF Issue
  <2>3. CASE r \in rs
    <3>1. /\ pc[r] = "unissued" /\ written[r] = 0 /\ written' = written
          /\ (r \in late' <=> link.stopped) /\ link' = link /\ destroyed' = destroyed
      BY <2>1, <2>3 DEF Issue, Kept
    <3>2. CASE \E q \in rs : (link.stopped /\ canCarry /\ ~pastDrain(q)) \/ aborted[q]
      <4>1. pc'[r] = "done" /\ result'[r] = "unsent"
        BY <2>3, <3>2 DEF Issue, Refuse
      <4>2. QED
        BY <3>1, <4>1 DEF Kept, Moves
    <3>3. CASE ~ \E q \in rs : (link.stopped /\ canCarry /\ ~pastDrain(q)) \/ aborted[q]
      <4>1. WaitForLink(rs)
        BY <3>3 DEF Issue
      <4>2. \/ pc'[r] = "done" /\ result'[r] = "unsent"
            \/ pc'[r] = "holding" /\ result'[r] = "none" /\ ~isUp(link) /\ ~refusal(link)
            \/ pc'[r] = "linked" /\ result'[r] = "none" /\ isUp(link)
        BY <2>3, <4>1 DEF WaitForLink
      <4>3. link.stopped /\ r \notin Receipts /\ pc'[r] # "done" => destroyed
        BY <2>3, <3>3, <4>2 DEF canCarry, pastDrain, refusal, awaitsNextLink, retrying
      <4>4. QED
        BY <3>1, <4>2, <4>3 DEF Kept, Moves
    <3>4. QED
      BY <3>2, <3>3
  <2>4. QED
    BY <2>2, <2>3
<1>5. \A r \in Requests : pc[r] = "queued" <=> pc'[r] = "queued"
  <2>. SUFFICES ASSUME NEW r \in Requests PROVE pc[r] = "queued" <=> pc'[r] = "queued"
    OBVIOUS
  <2>1. CASE r \in rs
    <3>1. pc[r] = "unissued"
      BY <2>1 DEF Issue
    <3>2. pc'[r] \in {"done", "holding", "linked"}
      BY <2>1 DEF Issue, Refuse, WaitForLink
    <3>3. QED
      BY <3>1, <3>2
  <2>2. CASE r \notin rs
    BY <2>2 DEF CInv, Types, Issue, Refuse, WaitForLink
  <2>3. QED
    BY <2>1, <2>2
<1>6. queue' = queue
  BY DEF Issue, window
<1>7. Waiting' /\ EachOnce' /\ AllThere'
  BY <1>5, <1>6, QueueStays DEF CInv
<1>8. QED
  BY <1>3, <1>4, <1>7 DEF CInv

\* A step that moves one request and leaves the queue to those who wait in it.
LEMMA OneMoves ==
    ASSUME CInv, NEW r \in Requests,
           link' \in Links, destroyed' \in BOOLEAN, late' = late, queue' = queue,
           link.stopped => link'.stopped,
           destroyed /\ link.stopped => destroyed',
           NEW place \in Places, NEW came \in Results, NEW times \in Nat,
           pc' = [pc EXCEPT ![r] = place],
           result' = [result EXCEPT ![r] = came],
           written' = [written EXCEPT ![r] = times],
           pc[r] # "queued", place # "queued",
           Kept(r)', Moves(r)
    PROVE  CInv' /\ \A q \in Requests : Moves(q)
<1>1. Types'
  BY DEF CInv, Types
<1>2. ASSUME NEW q \in Requests, q # r PROVE Kept(q)' /\ Moves(q)
  <2>1. Kept(q) /\ Stays(q)
    BY <1>2 DEF CInv, Types, Stays
  <2>2. QED
    BY <2>1, StaysKept
<1>3. \A q \in Requests : pc[q] = "queued" <=> pc'[q] = "queued"
  BY DEF CInv, Types
<1>4. Waiting' /\ EachOnce' /\ AllThere'
  BY <1>3, QueueStays DEF CInv
<1>5. QED
  BY <1>1, <1>2, <1>4 DEF CInv

\* A step that moves no request.
LEMMA NoneMoves ==
    ASSUME CInv, link' \in Links, destroyed' \in BOOLEAN,
           UNCHANGED <<pc, result, written, queue, late>>,
           link.stopped => link'.stopped,
           destroyed /\ link.stopped => destroyed'
    PROVE  CInv' /\ \A r \in Requests : Moves(r)
<1>1. Types'
  BY DEF CInv, Types
<1>2. ASSUME NEW q \in Requests PROVE Kept(q)' /\ Moves(q)
  <2>1. Kept(q) /\ Stays(q)
    BY DEF CInv, Types, Stays
  <2>2. QED
    BY <2>1, StaysKept
<1>3. Waiting' /\ EachOnce' /\ AllThere'
  BY QueueStays DEF CInv
<1>4. QED
  BY <1>1, <1>2, <1>3 DEF CInv

\* A request that is not in the queue joins it.
LEMMA JoinsQueue ==
    ASSUME CInv, NEW r \in Requests, pc[r] # "queued",
           queue' = Append(queue, r), pc' = [pc EXCEPT ![r] = "queued"]
    PROVE  queue' \in Seq(Requests) /\ Waiting' /\ EachOnce' /\ AllThere'
<1>1. queue \in Seq(Requests) /\ pc \in [Requests -> Places] /\ Len(queue) \in Nat
  BY DEF CInv, Types
<1>2. /\ queue' \in Seq(Requests) /\ Len(queue') = Len(queue) + 1
      /\ queue'[Len(queue) + 1] = r
      /\ \A i \in 1 .. Len(queue) : queue'[i] = queue[i] /\ queue[i] \in Requests
  BY <1>1
<1>3. \A i \in 1 .. Len(queue) : pc[queue[i]] = "queued" /\ queue[i] # r
  BY DEF CInv, Waiting
<1>4. \A i \in 1 .. Len(queue') : i \in 1 .. Len(queue) \/ i = Len(queue) + 1
  BY <1>1, <1>2
<1>5. Waiting'
  BY <1>1, <1>2, <1>3, <1>4 DEF Waiting
<1>6. EachOnce'
  BY <1>2, <1>3, <1>4 DEF CInv, EachOnce
<1>7. AllThere'
  <2>. SUFFICES ASSUME NEW q \in Requests, pc'[q] = "queued"
                PROVE  \E i \in 1 .. Len(queue') : queue'[i] = q
    BY DEF AllThere
  <2>1. CASE q = r
    BY <1>1, <1>2, <2>1
  <2>2. CASE q # r
    <3>1. PICK i \in 1 .. Len(queue) : queue[i] = q
      BY <1>1, <2>2 DEF CInv, AllThere
    <3>2. i \in 1 .. Len(queue')
      BY <1>1, <1>2
    <3>3. QED
      BY <1>2, <3>1, <3>2
  <2>3. QED
    BY <2>1, <2>2
<1>8. QED
  BY <1>2, <1>5, <1>6, <1>7

\* The first in the queue is given a slot.
LEMMA HeadLeaves ==
    ASSUME CInv, queue # <<>>, queue' = Tail(queue),
           pc'[Head(queue)] # "queued",
           \A q \in Requests : q # Head(queue) => (pc[q] = "queued" <=> pc'[q] = "queued")
    PROVE  queue' \in Seq(Requests) /\ Waiting' /\ EachOnce' /\ AllThere'
<1>1. queue \in Seq(Requests) /\ Len(queue) \in Nat /\ Len(queue) >= 1
  BY DEF CInv, Types
<1>2. /\ queue' \in Seq(Requests) /\ Len(queue') = Len(queue) - 1 /\ Head(queue) = queue[1]
      /\ \A i \in 1 .. Len(queue') : queue'[i] = queue[i + 1]
  BY <1>1
<1>3. \A i \in 1 .. Len(queue) : queue[i] \in Requests /\ pc[queue[i]] = "queued"
  BY <1>1 DEF CInv, Waiting
<1>4. \A i \in 1 .. Len(queue') : i + 1 \in 1 .. Len(queue) /\ queue[i + 1] # queue[1]
  BY <1>1, <1>2 DEF CInv, EachOnce
<1>5. Waiting'
  BY <1>2, <1>3, <1>4 DEF Waiting
<1>6. EachOnce'
  BY <1>1, <1>2, <1>4 DEF CInv, EachOnce
<1>7. AllThere'
  <2>. SUFFICES ASSUME NEW q \in Requests, pc'[q] = "queued"
                PROVE  \E i \in 1 .. Len(queue') : queue'[i] = q
    BY DEF AllThere
  <2>1. q # queue[1] /\ pc[q] = "queued"
    BY <1>2
  <2>2. PICK i \in 1 .. Len(queue) : queue[i] = q
    BY <2>1 DEF CInv, AllThere
  <2>3. i - 1 \in 1 .. Len(queue') /\ (i - 1) + 1 = i
    BY <1>1, <1>2, <2>1, <2>2
  <2>4. QED
    BY <1>2, <2>2, <2>3
<1>8. QED
  BY <1>2, <1>5, <1>6, <1>7

\* The first in the queue waits there.
LEMMA HeadWaits ==
    ASSUME CInv, queue # <<>>
    PROVE  Head(queue) \in Requests /\ pc[Head(queue)] = "queued"
<1>1. queue \in Seq(Requests) /\ 1 \in 1 .. Len(queue) /\ Head(queue) = queue[1]
  BY DEF CInv, Types
<1>2. QED
  BY <1>1 DEF CInv, Waiting

\* An aborted waiter leaves from wherever it stands.
LEMMA WaiterLeaves ==
    ASSUME CInv, NEW r \in Requests, pc[r] = "queued",
           queue' = Leave(queue, r),
           pc'[r] # "queued",
           \A q \in Requests : q # r => (pc[q] = "queued" <=> pc'[q] = "queued")
    PROVE  queue' \in Seq(Requests) /\ Waiting' /\ EachOnce' /\ AllThere'
<1>1. queue \in Seq(Requests) /\ Len(queue) \in Nat /\ DOMAIN queue = 1 .. Len(queue)
  BY DEF CInv, Types
<1> DEFINE at == CHOOSE i \in DOMAIN queue : queue[i] = r
<1>2. at \in 1 .. Len(queue) /\ queue[at] = r
  BY <1>1 DEF CInv, AllThere
<1>3. queue' = [i \in 1 .. Len(queue) - 1 |-> IF i < at THEN queue[i] ELSE queue[i + 1]]
  BY DEF Leave
<1> HIDE DEF at
<1>4. \A i \in 1 .. Len(queue) : queue[i] \in Requests /\ pc[queue[i]] = "queued"
  BY <1>1 DEF CInv, Waiting
<1>5. Len(queue) - 1 \in Nat
  BY <1>1, <1>2
<1>6. \A i \in 1 .. Len(queue) - 1 : i \in 1 .. Len(queue) /\ i + 1 \in 1 .. Len(queue)
  BY <1>1
<1>7. queue' \in [1 .. Len(queue) - 1 -> Requests]
  BY <1>3, <1>4, <1>6
<1>8. queue' \in Seq(Requests) /\ Len(queue') = Len(queue) - 1
  BY <1>5, <1>7
<1>9. \A i \in 1 .. Len(queue) - 1 :
        \E j \in 1 .. Len(queue) : j # at /\ queue'[i] = queue[j] /\ (i < at => j = i) /\ (i >= at => j = i + 1)
  <2>. SUFFICES ASSUME NEW i \in 1 .. Len(queue) - 1
                PROVE  \E j \in 1 .. Len(queue) :
                            /\ j # at /\ queue'[i] = queue[j]
                            /\ (i < at => j = i) /\ (i >= at => j = i + 1)
    OBVIOUS
  <2>1. i \in Int /\ at \in Int
    BY <1>1, <1>2
  <2>2. CASE i < at
    BY <1>3, <1>6, <2>1, <2>2
  <2>3. CASE ~(i < at)
    <3>1. queue'[i] = queue[i + 1] /\ i + 1 # at /\ i >= at
      BY <1>3, <2>1, <2>3
    <3>2. QED
      BY <1>6, <2>1, <2>3, <3>1
  <2>4. QED
    BY <2>2, <2>3
<1>10. \A i \in 1 .. Len(queue) : i # at => queue[i] # r
  BY <1>2 DEF CInv, EachOnce
<1>11. Waiting'
  BY <1>4, <1>8, <1>9, <1>10 DEF Waiting
<1>12. EachOnce'
  <2>. SUFFICES ASSUME NEW i \in 1 .. Len(queue) - 1, NEW j \in 1 .. Len(queue) - 1, queue'[i] = queue'[j]
                PROVE  i = j
    BY <1>8 DEF EachOnce
  <2>1. PICK k \in 1 .. Len(queue) : k # at /\ queue'[i] = queue[k] /\ (i < at => k = i) /\ (i >= at => k = i + 1)
    BY <1>9
  <2>2. PICK l \in 1 .. Len(queue) : l # at /\ queue'[j] = queue[l] /\ (j < at => l = j) /\ (j >= at => l = j + 1)
    BY <1>9
  <2>3. k = l
    BY <2>1, <2>2 DEF CInv, EachOnce
  <2>4. QED
    BY <1>1, <1>2, <2>1, <2>2, <2>3
<1>13. AllThere'
  <2>. SUFFICES ASSUME NEW q \in Requests, pc'[q] = "queued"
                PROVE  \E i \in 1 .. Len(queue) - 1 : queue'[i] = q
    BY <1>8 DEF AllThere
  <2>1. q # r /\ pc[q] = "queued"
    OBVIOUS
  <2>2. PICK k \in 1 .. Len(queue) : queue[k] = q
    BY <2>1 DEF CInv, AllThere
  <2>3. k # at /\ k \in Int /\ at \in Int /\ Len(queue) \in Int
    BY <1>1, <1>2, <2>1, <2>2
  <2>4. CASE k < at
    <3>1. k \in 1 .. Len(queue) - 1
      BY <1>2, <2>2, <2>3, <2>4
    <3>2. QED
      BY <1>3, <2>2, <2>4, <3>1
  <2>5. CASE k > at
    <3>1. k - 1 \in 1 .. Len(queue) - 1 /\ ~(k - 1 < at) /\ (k - 1) + 1 = k
      BY <1>2, <2>2, <2>3, <2>5
    <3>2. QED
      BY <1>3, <2>2, <3>1
  <2>6. QED
    BY <2>3, <2>4, <2>5
<1>14. QED
  BY <1>8, <1>11, <1>12, <1>13

-----------------------------------------------------------------------------
(* A request, await by await.                                              *)

\* A request with a link asks for a slot.
LEMMA AcquireKeeps ==
    ASSUME CInv, NEW r \in Requests, Acquire(r)
    PROVE  CInv' /\ \A q \in Requests : Moves(q)
<1>1. /\ Kept(r) /\ pc[r] = "linked" /\ written[r] = 0 /\ result[r] = "none"
      /\ UNCHANGED <<link, destroyed, written, late>>
  BY DEF CInv, Acquire, Kept
<1>2. /\ link' \in Links /\ destroyed' \in BOOLEAN /\ late' = late
      /\ (link.stopped => link'.stopped) /\ (destroyed /\ link.stopped => destroyed')
      /\ written' = [written EXCEPT ![r] = 0] /\ pc[r] # "queued"
  BY <1>1 DEF CInv, Types
<1>3. CASE pc' = [pc EXCEPT ![r] = "slotted"] /\ result' = result /\ queue' = queue
  <2>1. Kept(r)' /\ Moves(r)
    BY <1>1, <1>3 DEF CInv, Types, Kept, Moves
  <2>2. "slotted" \in Places /\ "none" \in Results
    BY DEF Places, Results
  <2>3. result' = [result EXCEPT ![r] = "none"]
    BY <1>1, <1>3 DEF CInv, Types
  <2>4. QED
    BY <1>2, <1>3, <2>1, <2>2, <2>3, OneMoves
<1>4. CASE Refuse({r}) /\ queue' = queue
  <2>1. pc' = [pc EXCEPT ![r] = "done"] /\ result' = [result EXCEPT ![r] = "unsent"]
    BY <1>4 DEF CInv, Types, Refuse
  <2>2. Kept(r)' /\ Moves(r)
    BY <1>1, <2>1 DEF CInv, Types, Kept, Moves
  <2>3. "done" \in Places /\ "unsent" \in Results
    BY DEF Places, Results
  <2>4. QED
    BY <1>2, <1>4, <2>1, <2>2, <2>3, OneMoves
<1>5. CASE pc' = [pc EXCEPT ![r] = "queued"] /\ result' = result /\ queue' = Append(queue, r)
  <2>1. queue' \in Seq(Requests) /\ Waiting' /\ EachOnce' /\ AllThere'
    BY <1>1, <1>5, JoinsQueue
  <2>2. Types'
    BY <1>1, <1>5, <2>1 DEF CInv, Types, Places
  <2>3. ASSUME NEW q \in Requests PROVE Kept(q)' /\ Moves(q)
    BY <1>1, <1>5, <2>3 DEF CInv, Types, Kept, Moves
  <2>4. QED
    BY <2>1, <2>2, <2>3 DEF CInv
<1>6. QED
  BY <1>3, <1>4, <1>5 DEF Acquire, window

\* A request with a slot is written, or finds itself aborted, malformed or its socket dead.
LEMMA AttemptKeeps ==
    ASSUME CInv, NEW r \in Requests, Attempt(r)
    PROVE  CInv' /\ \A q \in Requests : Moves(q)
<1>1. /\ Kept(r) /\ pc[r] = "slotted" /\ written[r] = 0 /\ result[r] = "none"
      /\ UNCHANGED <<link, destroyed, queue, late>>
      /\ link' \in Links /\ destroyed' \in BOOLEAN
  BY DEF CInv, Types, Attempt, Kept, window
<1>2. "finished" \in Places /\ "wire" \in Places /\ {"none", "unsent", "unwritten"} \subseteq Results
  BY DEF Places, Results
<1>3. ASSUME NEW came \in {"unsent", "unwritten"}, pc' = [pc EXCEPT ![r] = "finished"],
             result' = [result EXCEPT ![r] = came], written' = written
      PROVE  CInv' /\ \A q \in Requests : Moves(q)
  <2>1. Kept(r)' /\ Moves(r)
    BY <1>1, <1>3 DEF CInv, Types, Kept, Moves
  <2>2. written' = [written EXCEPT ![r] = 0] /\ came \in Results
    BY <1>1, <1>2, <1>3 DEF CInv, Types
  <2>3. QED
    BY <1>1, <1>2, <1>3, <2>1, <2>2, OneMoves
<1>4. CASE /\ ~destroyed /\ pc' = [pc EXCEPT ![r] = "wire"]
           /\ written' = [written EXCEPT ![r] = @ + 1] /\ result' = result
  <2>1. written' = [written EXCEPT ![r] = 1]
    BY <1>1, <1>4 DEF CInv, Types
  <2>2. Kept(r)' /\ Moves(r)
    BY <1>1, <1>4, <2>1 DEF CInv, Types, Kept, Moves
  <2>3. result' = [result EXCEPT ![r] = "none"]
    BY <1>1, <1>4 DEF CInv, Types
  <2>4. QED
    BY <1>1, <1>2, <1>4, <2>1, <2>2, <2>3, OneMoves
<1>5. QED
  BY <1>3, <1>4 DEF Attempt

\* A settled request gives its slot to the first in the queue.
LEMMA ReleaseKeeps ==
    ASSUME CInv, NEW r \in Requests, Release(r)
    PROVE  CInv' /\ \A q \in Requests : Moves(q)
<1>1. /\ Kept(r) /\ pc[r] = "finished"
      /\ UNCHANGED <<link, destroyed, result, written, late>>
      /\ link \in Links /\ destroyed \in BOOLEAN
      /\ written = [written EXCEPT ![r] = written[r]] /\ result = [result EXCEPT ![r] = result[r]]
      /\ written[r] \in Nat /\ result[r] \in Results
  BY DEF CInv, Types, Release
<1>2. CASE pc' = [pc EXCEPT ![r] = "released"] /\ queue' = queue
  <2>1. Kept(r)' /\ Moves(r)
    BY <1>1, <1>2 DEF CInv, Types, Kept, Moves
  <2>2. "released" \in Places
    BY DEF Places
  <2>3. QED
    BY <1>1, <1>2, <2>1, <2>2, OneMoves
<1>3. CASE /\ queue # <<>> /\ queue' = Tail(queue)
           /\ pc' = [pc EXCEPT ![r] = "released", ![Head(queue)] = "slotted"]
  <2> DEFINE h == Head(queue)
  <2>1. h \in Requests /\ pc[h] = "queued"
    BY <1>3, HeadWaits
  <2>2. queue' \in Seq(Requests) /\ Waiting' /\ EachOnce' /\ AllThere'
    <3>1. pc'[h] = "slotted" /\ \A q \in Requests : q # h => (pc[q] = "queued" <=> pc'[q] = "queued")
      BY <1>1, <1>3, <2>1 DEF CInv, Types
    <3>2. QED
      BY <1>3, <3>1, HeadLeaves
  <2> HIDE DEF h
  <2>3. pc' = [pc EXCEPT ![r] = "released", ![h] = "slotted"]
    BY <1>3 DEF h
  <2>4. Types'
    BY <1>1, <2>2, <2>3 DEF CInv, Types, Places
  <2>5. ASSUME NEW q \in Requests PROVE Kept(q)' /\ Moves(q)
    <3>1. pc \in [Requests -> Places] /\ Kept(q) /\ h # r
      BY <1>1, <2>1 DEF CInv, Types
    <3>2. CASE q = h
      <4>1. pc'[q] = "slotted" /\ pc[q] = "queued"
        BY <2>1, <2>3, <3>1, <3>2
      <4>2. QED
        BY <1>1, <3>1, <4>1 DEF Kept, Moves
    <3>3. CASE q = r
      <4>1. pc'[q] = "released" /\ pc[q] = "finished"
        BY <1>1, <2>3, <3>1, <3>3
      <4>2. QED
        BY <1>1, <3>1, <4>1 DEF Kept, Moves
    <3>4. CASE q # h /\ q # r
      <4>1. Stays(q)
        BY <1>1, <2>3, <3>1, <3>4 DEF Stays
      <4>2. QED
        BY <1>1, <3>1, <4>1, StaysKept
    <3>5. QED
      BY <3>2, <3>3, <3>4
  <2>6. QED
    BY <2>2, <2>4, <2>5 DEF CInv
<1>4. QED
  BY <1>2, <1>3 DEF Release

\* A request that returned its slot tells its caller, or waits for the next link.
LEMMA ConcludeKeeps ==
    ASSUME CInv, NEW r \in Requests, Conclude(r)
    PROVE  CInv' /\ \A q \in Requests : Moves(q)
<1>1. /\ Kept(r) /\ pc[r] = "released"
      /\ UNCHANGED <<link, destroyed, written, queue, late>>
      /\ link \in Links /\ destroyed \in BOOLEAN
      /\ written = [written EXCEPT ![r] = written[r]]
      /\ written[r] \in Nat /\ result[r] \in Results
  BY DEF CInv, Types, Conclude, window
<1>2. {"done", "holding"} \subseteq Places /\ {"none", "unsent"} \subseteq Results
  BY DEF Places, Results
<1>3. CASE retriesOnNextLink(r) /\ WaitForLink({r})
  <2>1. ~isUp(link) /\ ~link.stopped /\ written[r] = 0
    BY <1>1, <1>3 DEF retriesOnNextLink, awaitsNextLink, retrying, Kept
  <2>2. \/ pc' = [pc EXCEPT ![r] = "done"] /\ result' = [result EXCEPT ![r] = "unsent"]
        \/ pc' = [pc EXCEPT ![r] = "holding"] /\ result' = [result EXCEPT ![r] = "none"]
    BY <1>3, <2>1 DEF WaitForLink, CInv, Types
  <2>3. Kept(r)' /\ Moves(r)
    BY <1>1, <2>1, <2>2 DEF CInv, Types, Kept, Moves
  <2>4. QED
    BY <1>1, <1>2, <2>2, <2>3, OneMoves
<1>4. CASE result[r] = "unwritten" /\ Refuse({r})
  <2>1. pc' = [pc EXCEPT ![r] = "done"] /\ result' = [result EXCEPT ![r] = "unsent"]
    BY <1>4 DEF CInv, Types, Refuse
  <2>2. Kept(r)' /\ Moves(r)
    BY <1>1, <1>4, <2>1 DEF CInv, Types, Kept, Moves
  <2>3. QED
    BY <1>1, <1>2, <2>1, <2>2, OneMoves
<1>5. CASE result[r] # "unwritten" /\ pc' = [pc EXCEPT ![r] = "done"] /\ result' = result
  <2>1. result' = [result EXCEPT ![r] = result[r]]
    BY <1>5 DEF CInv, Types
  <2>2. Kept(r)' /\ Moves(r)
    BY <1>1, <1>5 DEF CInv, Types, Kept, Moves
  <2>3. QED
    BY <1>1, <1>2, <1>5, <2>1, <2>2, OneMoves
<1>6. QED
  BY <1>3, <1>4, <1>5 DEF Conclude

-----------------------------------------------------------------------------
(* What settles a request that waits.                                      *)

\* An answer, a timeout or an abort of a request on the wire.
LEMMA SettleKeeps ==
    ASSUME CInv, NEW r \in Requests, pc[r] = "wire",
           NEW how \in {"answered", "unanswered"}, Settle(r, how),
           UNCHANGED <<link, destroyed, written, queue, late>>
    PROVE  CInv' /\ \A q \in Requests : Moves(q)
<1>1. /\ Kept(r) /\ written[r] = 1 /\ link \in Links /\ destroyed \in BOOLEAN
      /\ pc' = [pc EXCEPT ![r] = "finished"] /\ result' = [result EXCEPT ![r] = how]
  BY DEF CInv, Types, Settle, Kept
<1>2. written' = [written EXCEPT ![r] = 1] /\ "finished" \in Places /\ how \in Results
  BY <1>1 DEF CInv, Types, Places, Results
<1>3. Kept(r)' /\ Moves(r)
  BY <1>1 DEF CInv, Types, Kept, Moves
<1>4. QED
  BY <1>1, <1>2, <1>3, OneMoves

\* The end of the wait for a link.
LEMMA GivesUpKeeps ==
    ASSUME CInv, NEW r \in Requests, pc[r] = "holding", Refuse({r}),
           UNCHANGED <<link, destroyed, written, queue, late>>
    PROVE  CInv' /\ \A q \in Requests : Moves(q)
<1>1. /\ Kept(r) /\ written[r] = 0 /\ link \in Links /\ destroyed \in BOOLEAN
      /\ pc' = [pc EXCEPT ![r] = "done"] /\ result' = [result EXCEPT ![r] = "unsent"]
  BY DEF CInv, Types, Refuse, Kept
<1>2. written' = [written EXCEPT ![r] = 0] /\ "done" \in Places /\ "unsent" \in Results
  BY <1>1 DEF CInv, Types, Places, Results
<1>3. Kept(r)' /\ Moves(r)
  BY <1>1 DEF CInv, Types, Kept, Moves
<1>4. link' \in Links /\ destroyed' \in BOOLEAN /\ "unsent" \in Results /\ pc[r] # "queued"
  BY <1>1 DEF Results
<1>5. QED
  BY <1>1, <1>2, <1>3, <1>4, OneMoves

\* The application aborts a call.
LEMMA AbortKeeps ==
    ASSUME CInv, NEW r \in Requests, Abort(r)
    PROVE  CInv' /\ \A q \in Requests : Moves(q)
<1>1. UNCHANGED <<link, destroyed, written, late>> /\ link \in Links /\ destroyed \in BOOLEAN
  BY DEF CInv, Types, Abort
<1>2. CASE pc[r] = "holding" /\ Refuse({r}) /\ UNCHANGED window
  BY <1>1, <1>2, GivesUpKeeps DEF window
<1>3. CASE pc[r] = "queued" /\ Refuse({r}) /\ queue' = Leave(queue, r)
  <2>1. pc' = [pc EXCEPT ![r] = "done"] /\ result' = [result EXCEPT ![r] = "unsent"]
    BY <1>3 DEF CInv, Types, Refuse
  <2>2. pc'[r] # "queued" /\ \A q \in Requests : q # r => (pc[q] = "queued" <=> pc'[q] = "queued")
    BY <2>1 DEF CInv, Types
  <2>3. queue' \in Seq(Requests) /\ Waiting' /\ EachOnce' /\ AllThere'
    BY <1>3, <2>2, WaiterLeaves
  <2>4. Types'
    BY <1>1, <2>1, <2>3 DEF CInv, Types, Places, Results
  <2>5. ASSUME NEW q \in Requests PROVE Kept(q)' /\ Moves(q)
    BY <1>1, <1>3, <2>1 DEF CInv, Types, Kept, Moves
  <2>6. QED
    BY <2>3, <2>4, <2>5 DEF CInv
<1>4. CASE pc[r] = "wire" /\ Settle(r, "unanswered") /\ UNCHANGED window
  BY <1>1, <1>4, SettleKeeps DEF window
<1>5. CASE UNCHANGED <<pc, result, window>>
  BY <1>1, <1>5, NoneMoves DEF window
<1>6. QED
  BY <1>2, <1>3, <1>4, <1>5 DEF Abort

-----------------------------------------------------------------------------
(* The link under the requests.                                            *)

\* A lost link settles what was on it, and with the last one what waits for another.
LEMMA LinkLostKeeps ==
    ASSUME CInv, NEW over \in BOOLEAN, LinkLost(over), link' \in Links, destroyed' = TRUE,
           UNCHANGED <<written, queue, late>>, link.stopped => link'.stopped
    PROVE  CInv' /\ \A q \in Requests : Moves(q)
<1>1. /\ pc' = [r \in Requests |-> CASE pc[r] = "wire" -> "finished"
                                     [] pc[r] = "holding" /\ over -> "done"
                                     [] OTHER -> pc[r]]
      /\ result' = [r \in Requests |-> CASE pc[r] = "wire" -> "unanswered"
                                         [] pc[r] = "holding" /\ over -> "unsent"
                                         [] OTHER -> result[r]]
  BY DEF LinkLost
<1>2. Types'
  BY <1>1 DEF CInv, Types, Places, Results
<1>3. ASSUME NEW q \in Requests PROVE Kept(q)' /\ Moves(q)
  <2>1. Kept(q)
    BY DEF CInv
  <2>2. CASE pc[q] = "wire"
    <3>1. pc'[q] = "finished" /\ result'[q] = "unanswered"
      BY <1>1, <2>2
    <3>2. QED
      BY <2>1, <2>2, <3>1 DEF Kept, Moves
  <2>3. CASE pc[q] = "holding" /\ over
    <3>1. pc'[q] = "done" /\ result'[q] = "unsent"
      BY <1>1, <2>3
    <3>2. QED
      BY <2>1, <2>3, <3>1 DEF Kept, Moves
  <2>4. CASE pc[q] # "wire" /\ ~(pc[q] = "holding" /\ over)
    <3>1. Stays(q)
      BY <1>1, <2>4 DEF Stays
    <3>2. QED
      BY <2>1, <3>1, StaysKept
  <2>5. QED
    BY <2>2, <2>3, <2>4
<1>4. \A r \in Requests : pc[r] = "queued" <=> pc'[r] = "queued"
  BY <1>1
<1>5. Waiting' /\ EachOnce' /\ AllThere'
  BY <1>4, QueueStays DEF CInv
<1>6. QED
  BY <1>2, <1>3, <1>5 DEF CInv

\* The session ends, and every request that waits is settled.
LEMMA EndsKeeps ==
    ASSUME CInv, Ends
    PROVE  CInv' /\ link'.stopped /\ \A q \in Requests : Moves(q)
<1>1. link \in Links
  BY DEF CInv, Types
<1>2. drop(link) \in Links
  BY <1>1, DropLink
<1>3. end(drop(link)) \in Links /\ end(drop(link)).stopped = TRUE
  BY <1>2, EndLink
<1>4. /\ link' = end(drop(link)) /\ destroyed' = TRUE /\ LinkLost(TRUE)
      /\ UNCHANGED <<written, queue, late>>
  BY DEF Ends, window
<1>5. CInv' /\ \A q \in Requests : Moves(q)
  BY <1>3, <1>4, LinkLostKeeps
<1>6. QED
  BY <1>3, <1>4, <1>5

\* The link is lost, and another is to come or none.
LEMMA LinkDropsKeeps ==
    ASSUME CInv, LinkDrops
    PROVE  CInv' /\ (link.stopped => link'.stopped) /\ \A q \in Requests : Moves(q)
<1>1. CASE retrying(link)
  <2>1. link \in Links
    BY DEF CInv, Types
  <2>2. drop(link) \in Links /\ drop(link).stopped = link.stopped
    BY <2>1, DropLink
  <2>3. /\ link' = drop(link) /\ destroyed' = TRUE /\ LinkLost(FALSE)
        /\ UNCHANGED <<written, queue, late>>
    BY <1>1 DEF LinkDrops, window
  <2>4. CInv' /\ \A q \in Requests : Moves(q)
    BY <2>2, <2>3, LinkLostKeeps
  <2>5. QED
    BY <2>2, <2>3, <2>4
<1>2. CASE Ends
  BY <1>2, EndsKeeps
<1>3. QED
  BY <1>1, <1>2 DEF LinkDrops

\* A new socket is attached, which carries no request yet.
LEMMA LinkAttachesKeeps ==
    ASSUME CInv, LinkAttaches
    PROVE  CInv' /\ (link.stopped => link'.stopped) /\ \A q \in Requests : Moves(q)
<1>1. link \in Links
  BY DEF CInv, Types
<1>2. attach(link) \in Links /\ attach(link).stopped = link.stopped
  BY <1>1, AttachLink
<1>3. /\ link' = attach(link) /\ destroyed' = FALSE /\ ~link.stopped
      /\ UNCHANGED <<pc, result, written, queue, late>>
  BY DEF LinkAttaches, retrying, window
<1>4. CInv' /\ \A q \in Requests : Moves(q)
  BY <1>2, <1>3, NoneMoves
<1>5. QED
  BY <1>2, <1>3, <1>4

\* The link is up again, and those that wait for it go on.
LEMMA LinkOpensKeeps ==
    ASSUME CInv, LinkOpens
    PROVE  CInv' /\ (link.stopped => link'.stopped) /\ \A q \in Requests : Moves(q)
<1>1. link \in Links
  BY DEF CInv, Types
<1>2. open(link) \in Links /\ open(link).stopped = link.stopped
  BY <1>1, OpenLink
<1>3. /\ link' = open(link) /\ UNCHANGED <<destroyed, result, written, queue, late>>
      /\ pc' = [r \in Requests |-> IF pc[r] = "holding" THEN "linked" ELSE pc[r]]
  BY DEF LinkOpens, window
<1>4. Types'
  BY <1>2, <1>3 DEF CInv, Types, Places
<1>5. ASSUME NEW q \in Requests PROVE Kept(q)' /\ Moves(q)
  BY <1>2, <1>3 DEF CInv, Types, Kept, Moves
<1>6. \A r \in Requests : pc[r] = "queued" <=> pc'[r] = "queued"
  BY <1>3
<1>7. Waiting' /\ EachOnce' /\ AllThere'
  BY <1>3, <1>6, QueueStays DEF CInv
<1>8. QED
  BY <1>2, <1>3, <1>4, <1>5, <1>7 DEF CInv

\* The socket alone, the drain alone, or nothing.
LEMMA RestKeeps ==
    ASSUME CInv, SocketDies \/ DrainMessages \/ DrainCut \/ UNCHANGED vars
    PROVE  CInv' /\ (link.stopped => link'.stopped) /\ \A q \in Requests : Moves(q)
<1>1. link \in Links /\ destroyed \in BOOLEAN
  BY DEF CInv, Types
<1>2. /\ link' = link /\ (destroyed' = TRUE \/ destroyed' = destroyed)
      /\ UNCHANGED <<pc, result, written, queue, late>>
  BY DEF SocketDies, DrainMessages, DrainCut, vars, window
<1>3. link' \in Links /\ destroyed' \in BOOLEAN /\ (destroyed => destroyed')
  BY <1>1, <1>2
<1>4. CInv' /\ \A q \in Requests : Moves(q)
  BY <1>2, <1>3, NoneMoves
<1>5. QED
  BY <1>2, <1>4

\* close() stops the session and begins to drain.
LEMMA CloseKeeps ==
    ASSUME CInv, Close
    PROVE  CInv' /\ (link.stopped => link'.stopped) /\ \A q \in Requests : Moves(q)
<1>1. CASE Ends
  BY <1>1, EndsKeeps
<1>2. CASE link' = stop(link) /\ UNCHANGED <<destroyed, pc, result, written, queue, late>>
  <2>1. link \in Links /\ destroyed \in BOOLEAN
    BY DEF CInv, Types
  <2>2. link' \in Links /\ link'.stopped /\ destroyed' \in BOOLEAN
    BY <1>2, <2>1, StopLink
  <2>3. CInv' /\ \A q \in Requests : Moves(q)
    BY <1>2, <2>2, NoneMoves
  <2>4. QED
    BY <2>2, <2>3
<1>3. QED
  BY <1>1, <1>2 DEF Close, window

\* The answer, the timeout and the budget of one request.
LEMMA TimersKeep ==
    ASSUME CInv, NEW r \in Requests, Answered(r) \/ ResponseTimeout(r) \/ BudgetRunsOut(r)
    PROVE  CInv' /\ \A q \in Requests : Moves(q)
<1>1. UNCHANGED <<link, destroyed, written, queue, late>> /\ link \in Links /\ destroyed \in BOOLEAN
  BY DEF CInv, Types, Answered, ResponseTimeout, BudgetRunsOut, window
<1>2. CASE Answered(r) \/ ResponseTimeout(r)
  <2>1. pc[r] = "wire"
    BY <1>2 DEF Answered, ResponseTimeout
  <2>2. PICK how \in {"answered", "unanswered"} : Settle(r, how)
    BY <1>2 DEF Answered, ResponseTimeout
  <2>3. QED
    BY <1>1, <2>1, <2>2, SettleKeeps
<1>3. CASE pc[r] = "holding" /\ Refuse({r})
  BY <1>1, <1>3, GivesUpKeeps
<1>4. CASE UNCHANGED <<pc, result>>
  BY <1>1, <1>4, NoneMoves
<1>5. QED
  BY <1>2, <1>3, <1>4 DEF BudgetRunsOut

\* Every step keeps the invariant and moves each request as its caller may see it move,
\* and none lets a stopped session start again.
LEMMA NextKeeps ==
    ASSUME CInv, [Next]_vars
    PROVE  CInv' /\ (link.stopped => link'.stopped) /\ \A q \in Requests : Moves(q)
<1>1. ASSUME NEW rs \in Calls, Issue(rs)
      PROVE  CInv' /\ (link.stopped => link'.stopped) /\ \A q \in Requests : Moves(q)
  BY <1>1, IssueKeeps DEF Issue
<1>2. ASSUME NEW r \in Requests, Continue(r)
      PROVE  CInv' /\ (link.stopped => link'.stopped) /\ \A q \in Requests : Moves(q)
  <2>1. link' = link
    BY <1>2 DEF Continue, Acquire, Attempt, Release, Conclude
  <2>2. CInv' /\ \A q \in Requests : Moves(q)
    BY <1>2, AcquireKeeps, AttemptKeeps, ReleaseKeeps, ConcludeKeeps DEF Continue
  <2>3. QED
    BY <2>1, <2>2
<1>3. ASSUME NEW r \in Requests, Answered(r) \/ ResponseTimeout(r) \/ BudgetRunsOut(r) \/ Abort(r)
      PROVE  CInv' /\ (link.stopped => link'.stopped) /\ \A q \in Requests : Moves(q)
  <2>1. link' = link
    BY <1>3 DEF Answered, ResponseTimeout, BudgetRunsOut, Abort
  <2>2. CInv' /\ \A q \in Requests : Moves(q)
    BY <1>3, TimersKeep, AbortKeeps
  <2>3. QED
    BY <2>1, <2>2
<1>4. CASE LinkDrops \/ LinkAttaches \/ LinkOpens
  BY <1>4, LinkDropsKeeps, LinkAttachesKeeps, LinkOpensKeeps
<1>5. CASE LinkEnds \/ DrainChecks
  BY <1>5, EndsKeeps DEF LinkEnds, DrainChecks
<1>6. CASE Close
  BY <1>6, CloseKeeps
<1>7. CASE SocketDies \/ DrainMessages \/ DrainCut \/ UNCHANGED vars
  BY <1>7, RestKeeps
<1>8. QED
  BY <1>1, <1>2, <1>3, <1>4, <1>5, <1>6, <1>7 DEF Next, Continue

\* Before and after a step that keeps the invariant, a request is as far for its caller as
\* one turn of the contract may take it.
LEMMA ProgressTurns ==
    ASSUME NEW r \in Requests, CInv, CInv', Moves(r)
    PROVE  \/ progressOf(r)' = progressOf(r)
           \/ /\ progressOf(r) = "unasked"
              /\ progressOf(r)' = IF link.stopped /\ r \notin Receipts THEN "barred" ELSE "asked"
           \/ progressOf(r) = "asked" /\ progressOf(r)' = "sent"
           \/ progressOf(r) \in {"unasked", "asked", "barred"} /\ progressOf(r)' = "unsent"
           \/ progressOf(r) = "sent" /\ progressOf(r)' \in {"answered", "unanswered"}
<1>1. Kept(r) /\ Kept(r)' /\ pc[r] \in Places /\ pc'[r] \in Places
  BY DEF CInv, Types
<1>2. CASE pc[r] = "unissued" /\ pc'[r] = "unissued"
  BY <1>2 DEF progressOf
<1>3. CASE pc[r] = "unissued" /\ pc'[r] # "unissued"
  <2>1. progressOf(r) = "unasked" /\ written'[r] = 0 /\ (r \in late' <=> link.stopped)
    BY <1>3 DEF progressOf, Moves
  <2>2. CASE pc'[r] = "done"
    <3>1. progressOf(r)' = "unsent"
      BY <1>1, <2>1, <2>2 DEF progressOf, Kept
    <3>2. QED
      BY <2>1, <3>1
  <2>3. CASE pc'[r] # "done"
    <3>1. progressOf(r)' = IF link.stopped /\ r \notin Receipts THEN "barred" ELSE "asked"
      BY <1>3, <2>1, <2>3 DEF progressOf
    <3>2. QED
      BY <2>1, <3>1
  <2>4. QED
    BY <2>2, <2>3
<1>4. CASE pc[r] = "done"
  <2>1. progressOf(r)' = progressOf(r)
    BY <1>4 DEF progressOf, Moves
  <2>2. QED
    BY <2>1
<1>5. CASE pc[r] \notin {"unissued", "done"} /\ written[r] = 0
  <2>1. /\ progressOf(r) = IF r \in late \ Receipts THEN "barred" ELSE "asked"
        /\ pc'[r] # "unissued" /\ (r \in late' <=> r \in late)
    BY <1>5 DEF progressOf, Moves
  <2>2. CASE written'[r] = 0 /\ pc'[r] # "done"
    <3>1. progressOf(r)' = progressOf(r)
      BY <2>1, <2>2 DEF progressOf
    <3>2. QED
      BY <3>1
  <2>3. CASE written'[r] = 0 /\ pc'[r] = "done"
    <3>1. progressOf(r)' = "unsent"
      BY <1>1, <2>3 DEF progressOf, Kept
    <3>2. QED
      BY <2>1, <3>1
  <2>4. CASE written'[r] # 0
    <3>1. pc'[r] = "wire" /\ written'[r] = 1 /\ result'[r] = "none" /\ r \notin late' \ Receipts
      BY <1>1, <1>5, <2>4 DEF Moves, Kept
    <3>2. progressOf(r)' = "sent" /\ progressOf(r) = "asked"
      BY <2>1, <3>1 DEF progressOf
    <3>3. QED
      BY <3>2
  <2>5. QED
    BY <2>2, <2>3, <2>4
<1>6. CASE pc[r] \notin {"unissued", "done"} /\ written[r] # 0
  <2>1. /\ written[r] = 1 /\ written'[r] = 1
        /\ \/ result[r] = "none" /\ progressOf(r) = "sent"
           \/ result[r] \in {"answered", "unanswered"} /\ progressOf(r) = result[r]
    BY <1>1, <1>6 DEF progressOf, Kept, Moves, Places
  <2>2. \/ result'[r] = "none" /\ progressOf(r)' = "sent"
        \/ result'[r] \in {"answered", "unanswered"} /\ progressOf(r)' = result'[r]
    BY <1>1, <2>1 DEF progressOf, Kept, Places
  <2>3. result[r] # "none" => result'[r] = result[r]
    BY <2>1 DEF Moves
  <2>4. QED
    BY <2>1, <2>2, <2>3
<1>7. QED
  BY <1>2, <1>3, <1>4, <1>5, <1>6

\* Every step is one turn of the contract, or none.
LEMMA ContractTurns ==
    ASSUME CInv, CInv', [Next]_vars
    PROVE  Contract!Turn
<1>1. link' \in Links /\ (link.stopped => link'.stopped) /\ \A r \in Requests : Moves(r)
  BY NextKeeps DEF CInv, Types
<1>2. link'.stopped \in BOOLEAN
  BY <1>1 DEF Links
<1>3. ASSUME NEW r \in Requests
      PROVE  \/ progressOf(r)' = progressOf(r)
             \/ Contract!Ask(r) \/ Contract!GoesOut(r) \/ Contract!GivesUp(r) \/ Contract!Settles(r)
  <2>1. Moves(r)
    BY <1>1
  <2>2. QED
    BY <2>1, ProgressTurns DEF Contract!Ask, Contract!GoesOut, Contract!GivesUp, Contract!Settles
<1>4. QED
  BY <1>1, <1>2, <1>3 DEF Contract!Turn

\* The first state is one of the contract's.
LEMMA ContractStarts == Init => Contract!Init
  BY DEF Init, Contract!Init, progressOf, FirstLink

\* The detailed requests implement what the README promises the caller of send(), for any
\* number of requests, any grouping into calls, any window and any number of links.
THEOREM CallersAreKeptTheirPromise == Spec => KeepsContract
<1>1. Init => CInv /\ Contract!Init
  BY ContractInit, ContractStarts
<1>2. CInv /\ [Next]_vars => CInv'
  BY NextKeeps
<1>3. CInv /\ CInv' /\ [Next]_vars => Contract!Turn
  BY ContractTurns
<1>4. QED
  BY <1>1, <1>2, <1>3, PTL DEF Spec, KeepsContract, Contract!Spec

\* The queue of the window holds exactly the requests that wait in it, each once, and so
\* no slot is ever handed to a caller that has gone (send-window.ts acquire, release).
THEOREM QueueIsExact == Spec => []QueueIsTheQueued
<1>1. CInv => QueueIsTheQueued
  <2>. SUFFICES ASSUME CInv PROVE QueueIsTheQueued
    OBVIOUS
  <2>1. \A i \in 1 .. Len(queue) : queue[i] \in Requests
    BY DEF CInv, Types
  <2>2. QED
    BY <2>1 DEF CInv, EachOnce, Waiting, AllThere, QueueIsTheQueued, In
<1>2. Init => CInv
  BY ContractInit
<1>3. CInv /\ [Next]_vars => CInv'
  BY NextKeeps
<1>4. QED
  BY <1>1, <1>2, <1>3, PTL DEF Spec

-----------------------------------------------------------------------------
(* The window.                                                             *)

Slots == {"slotted", "wire", "finished"}

Counted ==
    /\ inFlight = Cardinality(Holders)
    /\ inFlight <= Limit
    /\ queue # <<>> => inFlight = Limit

WInv == CInv /\ Counted

\* Those that hold a slot can be counted.
LEMMA HoldersFinite ==
    IsFiniteSet(Holders) /\ Cardinality(Holders) \in Nat
<1>1. IsFiniteSet(Holders)
  BY RequestsAssumption, FS_Subset DEF Holders, In
<1>2. QED
  BY <1>1, FS_CardinalityType

\* Nobody takes a slot or gives one back.
LEMMA SameHolders ==
    ASSUME Counted, inFlight' = inFlight, queue' # <<>> => queue # <<>>,
           \A r \in Requests : pc'[r] \in Slots <=> pc[r] \in Slots
    PROVE  Counted'
<1>1. Holders' = Holders
  BY DEF Holders, In, Slots
<1>2. QED
  BY <1>1 DEF Counted

\* A slot is taken, or a place in the queue behind a full window.
LEMMA AcquireCounts ==
    ASSUME WInv, NEW r \in Requests, Acquire(r)
    PROVE  Counted'
<1>1. /\ pc[r] = "linked" /\ pc \in [Requests -> Places]
      /\ inFlight \in Nat /\ Limit \in Nat /\ inFlight <= Limit
  BY HoldersFinite, LimitAssumption DEF WInv, CInv, Types, Counted, Acquire
<1>2. CASE /\ inFlight < Limit /\ inFlight' = inFlight + 1
           /\ pc' = [pc EXCEPT ![r] = "slotted"] /\ queue' = queue
  <2>1. Holders' = Holders \cup {r} /\ r \notin Holders
    BY <1>1, <1>2 DEF Holders, In
  <2>2. Cardinality(Holders') = Cardinality(Holders) + 1
    BY <2>1, HoldersFinite, FS_AddElement
  <2>3. queue' = <<>>
    BY <1>1, <1>2 DEF WInv, Counted
  <2>4. QED
    BY <1>1, <1>2, <2>2, <2>3 DEF WInv, Counted
<1>3. CASE Refuse({r}) /\ UNCHANGED window
  BY <1>1, <1>3, SameHolders DEF WInv, Refuse, Slots, window
<1>4. CASE inFlight >= Limit /\ inFlight' = inFlight /\ pc' = [pc EXCEPT ![r] = "queued"]
  <2>1. Holders' = Holders
    BY <1>1, <1>4 DEF Holders, In
  <2>2. QED
    BY <1>1, <1>4, <2>1 DEF WInv, Counted
<1>5. QED
  BY <1>2, <1>3, <1>4 DEF Acquire

\* A slot is given back, or handed to the first in the queue.
LEMMA ReleaseCounts ==
    ASSUME WInv, NEW r \in Requests, Release(r)
    PROVE  Counted'
<1>1. /\ pc[r] = "finished" /\ pc \in [Requests -> Places] /\ r \in Holders
      /\ inFlight \in Nat /\ Limit \in Nat /\ inFlight <= Limit
  BY HoldersFinite, LimitAssumption DEF WInv, CInv, Types, Counted, Release, Holders, In
<1>2. CASE /\ queue # <<>> /\ inFlight' = inFlight
           /\ pc' = [pc EXCEPT ![r] = "released", ![Head(queue)] = "slotted"]
  <2> DEFINE h == Head(queue)
  <2>1. h \in Requests /\ pc[h] = "queued"
    BY <1>2, HeadWaits DEF WInv
  <2>2. pc' = [pc EXCEPT ![r] = "released", ![h] = "slotted"]
    BY <1>2
  <2> HIDE DEF h
  <2>3. Holders' = (Holders \ {r}) \cup {h} /\ h \notin Holders \ {r}
    BY <1>1, <2>1, <2>2 DEF Holders, In
  <2>4. IsFiniteSet(Holders \ {r}) /\ Cardinality(Holders \ {r}) = Cardinality(Holders) - 1
    BY <1>1, HoldersFinite, FS_RemoveElement
  <2>5. Cardinality(Holders') = Cardinality(Holders \ {r}) + 1
    <3> DEFINE others == Holders \ {r}
    <3>1. IsFiniteSet(others) /\ h \notin others /\ Holders' = others \cup {h}
      BY <2>3, <2>4
    <3> HIDE DEF others
    <3>2. Cardinality(Holders') = Cardinality(others) + 1
      BY <3>1, FS_AddElement
    <3>3. QED
      BY <3>2 DEF others
  <2>6. QED
    BY <1>2, <2>4, <2>5, HoldersFinite DEF WInv, Counted
<1>3. CASE queue = <<>> /\ queue' = queue /\ inFlight' = inFlight - 1 /\ pc' = [pc EXCEPT ![r] = "released"]
  <2>1. Holders' = Holders \ {r}
    BY <1>1, <1>3 DEF Holders, In
  <2>2. Cardinality(Holders') = Cardinality(Holders) - 1
    BY <1>1, <2>1, HoldersFinite, FS_RemoveElement
  <2>3. QED
    BY <1>1, <1>3, <2>2 DEF WInv, Counted
<1>4. QED
  BY <1>2, <1>3 DEF Release

\* The turns that leave the window as it is, and move a request between places on the
\* same side of it.
LEMMA OthersCount ==
    ASSUME WInv, NEW r \in Requests,
           Attempt(r) \/ Conclude(r) \/ Answered(r) \/ ResponseTimeout(r) \/ BudgetRunsOut(r)
    PROVE  Counted'
<1>1. pc \in [Requests -> Places] /\ UNCHANGED window
  BY DEF WInv, CInv, Types, Attempt, Conclude, Answered, ResponseTimeout, BudgetRunsOut
<1>2. CASE Attempt(r)
  BY <1>1, <1>2, SameHolders DEF WInv, Attempt, Slots, window
<1>3. CASE Conclude(r)
  BY <1>1, <1>3, SameHolders DEF WInv, Conclude, WaitForLink, Refuse, Slots, window
<1>4. CASE Answered(r) \/ ResponseTimeout(r)
  BY <1>1, <1>4, SameHolders DEF WInv, Answered, ResponseTimeout, Settle, Slots, window
<1>5. CASE BudgetRunsOut(r)
  BY <1>1, <1>5, SameHolders DEF WInv, BudgetRunsOut, Refuse, Slots, window
<1>6. QED
  BY <1>2, <1>3, <1>4, <1>5

\* An aborted waiter held no slot, and one on the wire keeps its own for now.
LEMMA AbortCounts ==
    ASSUME WInv, NEW r \in Requests, Abort(r)
    PROVE  Counted'
<1>1. pc \in [Requests -> Places]
  BY DEF WInv, CInv, Types
<1>2. CASE pc[r] = "queued" /\ Refuse({r}) /\ inFlight' = inFlight
  <2>1. queue # <<>>
    BY <1>2 DEF WInv, CInv, AllThere
  <2>2. QED
    BY <1>1, <1>2, <2>1, SameHolders DEF WInv, Refuse, Slots
<1>3. CASE pc[r] = "holding" /\ Refuse({r}) /\ UNCHANGED window
  BY <1>1, <1>3, SameHolders DEF WInv, Refuse, Slots, window
<1>4. CASE pc[r] = "wire" /\ Settle(r, "unanswered") /\ UNCHANGED window
  BY <1>1, <1>4, SameHolders DEF WInv, Settle, Slots, window
<1>5. CASE UNCHANGED <<pc, window>>
  BY <1>5, SameHolders DEF WInv, window
<1>6. QED
  BY <1>2, <1>3, <1>4, <1>5 DEF Abort

\* Every step keeps the count.
LEMMA NextCounts ==
    ASSUME WInv, [Next]_vars
    PROVE  Counted'
<1>. pc \in [Requests -> Places]
  BY DEF WInv, CInv, Types
<1>1. ASSUME NEW rs \in Calls, Issue(rs) PROVE Counted'
  <2>1. \A r \in Requests : pc'[r] \in Slots <=> pc[r] \in Slots
    <3>. SUFFICES ASSUME NEW r \in Requests PROVE pc'[r] \in Slots <=> pc[r] \in Slots
      OBVIOUS
    <3>1. CASE r \in rs
      BY <1>1, <3>1 DEF Issue, Refuse, WaitForLink, Slots
    <3>2. CASE r \notin rs
      BY <1>1, <3>2 DEF Issue, Refuse, WaitForLink
    <3>3. QED
      BY <3>1, <3>2
  <2>2. QED
    BY <1>1, <2>1, SameHolders DEF WInv, Issue, window
<1>2. ASSUME NEW over \in BOOLEAN, LinkLost(over), UNCHANGED window PROVE Counted'
  BY <1>2, SameHolders DEF WInv, LinkLost, Slots, window
<1>3. CASE Ends
  BY <1>2, <1>3 DEF Ends
<1>4. CASE UNCHANGED <<pc, window>>
  BY <1>4, SameHolders DEF WInv, window
<1>5. CASE LinkDrops
  BY <1>2, <1>3, <1>5 DEF LinkDrops
<1>6. CASE LinkOpens
  BY <1>6, SameHolders DEF WInv, LinkOpens, Slots, window
<1>7. CASE \/ SocketDies \/ LinkAttaches \/ LinkEnds \/ Close
           \/ DrainMessages \/ DrainCut \/ DrainChecks \/ UNCHANGED vars
  BY <1>3, <1>4, <1>7
     DEF SocketDies, LinkAttaches, LinkEnds, Close, DrainMessages, DrainCut, DrainChecks, vars, window
<1>8. QED
  BY <1>1, <1>5, <1>6, <1>7, AcquireCounts, ReleaseCounts, OthersCount, AbortCounts DEF Next

\* The count holds in every state.
LEMMA WindowInvariant == Spec => []WInv
<1>1. Init => WInv
  <2>. SUFFICES ASSUME Init PROVE WInv
    OBVIOUS
  <2>1. Holders = {} /\ inFlight = 0 /\ queue = <<>>
    BY DEF Init, Holders, In
  <2>2. Counted
    BY <2>1, FS_EmptySet, LimitAssumption DEF Counted
  <2>3. QED
    BY <2>2, ContractInit DEF WInv
<1>2. WInv /\ [Next]_vars => WInv'
  BY NextKeeps, NextCounts DEF WInv
<1>3. QED
  BY <1>1, <1>2, PTL DEF Spec

\* The window counts exactly the requests that hold a slot, whatever aborts, failed writes
\* and lost links do to them, and is never more than full: a slot that leaked would in
\* time stop the session, and one returned twice flood the peer (send-window.ts).
THEOREM WindowIsExact == Spec => []SlotsAccounted
<1>1. WInv => SlotsAccounted
  BY DEF WInv, Counted, SlotsAccounted
<1>2. QED
  BY <1>1, WindowInvariant, PTL

\* Nobody is left waiting for a slot while one is free (send-window.ts acquire, release).
THEOREM NobodyWaitsBesideAFreeSlot == Spec => []QueuedOnlyBehindAFullWindow
<1>1. WInv => QueuedOnlyBehindAFullWindow
  <2>. SUFFICES ASSUME WInv, NEW r \in Requests, pc[r] = "queued" PROVE inFlight = Limit
    BY DEF QueuedOnlyBehindAFullWindow, In
  <2>1. queue # <<>>
    BY DEF WInv, CInv, AllThere
  <2>2. QED
    BY <2>1 DEF WInv, Counted
<1>2. QED
  BY <1>1, WindowInvariant, PTL

-----------------------------------------------------------------------------
(* The drain.                                                              *)

\* The wait for the messages is over, none of them is left, and the link is still there.
Settling == drain.at \in {"requests", "checking"} /\ canCarry /\ ~drain.held

\* From then on nobody is admitted, so what the window was once seen to owe it still owes.
Drained ==
    /\ drain \in Drains
    /\ drain.at # "idle" => link.stopped
    /\ isUp(link) => \A r \in Requests : pc[r] # "holding"
    /\ Settling => \A r \in Requests : pc[r] # "linked"
    /\ Settling /\ drain.at = "checking" /\ drain.left = 0 => inFlight = 0 /\ queue = <<>>

DInv == WInv /\ Drained

\* A step that changes neither the link nor the drain.
LEMMA DrainStays ==
    ASSUME DInv, UNCHANGED <<link, destroyed, drain>>,
           \A r \in Requests : pc'[r] = "holding" => pc[r] = "holding" \/ ~isUp(link),
           \A r \in Requests : pc'[r] = "linked" => pc[r] = "linked" \/ ~Settling,
           Settling /\ inFlight = 0 /\ queue = <<>> => inFlight' = 0 /\ queue' = <<>>
    PROVE  Drained'
<1>1. isUp(link)' = isUp(link) /\ Settling' = Settling
  BY DEF isUp, Settling, canCarry
<1>2. QED
  BY <1>1 DEF DInv, Drained

\* A step after which the link is not up.
LEMMA LinkGone ==
    ASSUME ~isUp(link'), drain' \in Drains, drain'.at # "idle" => link'.stopped
    PROVE  Drained'
  BY DEF Drained, Settling, canCarry

\* A session that ended carries nothing, and admits nothing.
LEMMA EndsDrained ==
    ASSUME DInv, Ends, drain' \in Drains
    PROVE  Drained'
<1>1. link \in Links
  BY DEF DInv, WInv, CInv, Types
<1>2. drop(link) \in Links
  BY <1>1, DropLink
<1>3. link'.phase = "ended" /\ link'.stopped = TRUE
  BY <1>2, EndLink DEF Ends
<1>4. ~isUp(link')
  BY <1>3 DEF isUp
<1>5. QED
  BY <1>3, <1>4, LinkGone

\* A call that begins once the drain has let the session stop is refused.
LEMMA IssueDrained ==
    ASSUME DInv, NEW rs \in Calls, Issue(rs)
    PROVE  Drained'
<1>1. pc \in [Requests -> Places] /\ UNCHANGED <<link, destroyed, drain, window>> /\ rs \subseteq Requests
  BY DEF DInv, WInv, CInv, Types, Issue, Requests
<1>2. ASSUME NEW r \in Requests, pc'[r] = "holding"
      PROVE  pc[r] = "holding" \/ ~isUp(link)
  BY <1>1, <1>2 DEF Issue, Refuse, WaitForLink
<1>3. ASSUME NEW r \in Requests, pc'[r] = "linked", Settling
      PROVE  pc[r] = "linked"
  <2>1. link.stopped /\ canCarry /\ \A q \in rs : ~pastDrain(q)
    BY <1>3 DEF DInv, Drained, Settling, pastDrain
  <2>2. CASE r \in rs
    BY <1>3, <2>1, <2>2 DEF Issue, Refuse
  <2>3. CASE r \notin rs
    BY <1>1, <1>3, <2>3 DEF Issue, Refuse, WaitForLink
  <2>4. QED
    BY <2>2, <2>3
<1>4. QED
  BY <1>1, <1>2, <1>3, DrainStays DEF window

\* A request that goes on stays one the drain knew of.
LEMMA ContinueDrained ==
    ASSUME DInv, NEW r \in Requests, Continue(r)
    PROVE  Drained'
<1>1. /\ pc \in [Requests -> Places] /\ UNCHANGED <<link, destroyed>>
      /\ inFlight \in Nat /\ drain \in Drains
  BY HoldersFinite
     DEF DInv, WInv, CInv, Types, Counted, Drained, Continue, Acquire, Attempt, Release, Conclude
<1>2. CASE Acquire(r)
  <2>1. ~Settling
    BY <1>2 DEF DInv, Drained, Acquire
  <2>2. QED
    BY <1>1, <1>2, <2>1, DrainStays DEF Acquire, Refuse
<1>3. CASE Attempt(r)
  BY <1>1, <1>3, DrainStays DEF Attempt, window
<1>4. CASE Release(r)
  <2>1. inFlight # 0
    <3>1. r \in Holders /\ IsFiniteSet(Holders)
      BY <1>4, HoldersFinite DEF Release, Holders, In
    <3>2. QED
      BY <3>1, FS_EmptySet DEF DInv, WInv, Counted
  <2>2. /\ \A q \in Requests : pc'[q] = "holding" => pc[q] = "holding"
        /\ \A q \in Requests : pc'[q] = "linked" => pc[q] = "linked"
    BY <1>1, <1>4 DEF Release
  <2>3. CASE drain' = drain
    BY <1>1, <2>1, <2>2, <2>3, DrainStays
  <2>4. CASE /\ queue' = <<>> /\ inFlight' = inFlight - 1 /\ inFlight = 1 /\ drain.at = "requests"
             /\ drain' = [drain EXCEPT !.at = "checking", !.left = 0]
    <3>1. drain' \in Drains /\ drain'.at = "checking" /\ drain'.held = drain.held /\ drain'.left = 0
      BY <1>1, <2>4 DEF Drains
    <3>2. isUp(link)' = isUp(link) /\ (Settling' => Settling)
      BY <1>1, <2>4, <3>1 DEF isUp, Settling, canCarry
    <3>3. QED
      BY <1>1, <2>2, <2>4, <3>1, <3>2 DEF DInv, Drained
  <2>5. QED
    BY <1>4, <2>3, <2>4 DEF Release
<1>5. CASE Conclude(r)
  <2>1. \A q \in Requests : pc'[q] \in {"holding", "linked"} => pc[q] = pc'[q] \/ ~isUp(link)
    BY <1>1, <1>5 DEF Conclude, WaitForLink, Refuse, retriesOnNextLink, awaitsNextLink
  <2>2. Settling => isUp(link)
    BY DEF Settling, canCarry
  <2>3. QED
    BY <1>1, <1>5, <2>1, <2>2, DrainStays DEF Conclude, window
<1>6. QED
  BY <1>2, <1>3, <1>4, <1>5 DEF Continue

\* An answer, a timeout or an abort admits nobody.
LEMMA SettlesDrained ==
    ASSUME DInv, NEW r \in Requests,
           Answered(r) \/ ResponseTimeout(r) \/ BudgetRunsOut(r) \/ Abort(r)
    PROVE  Drained'
<1>1. pc \in [Requests -> Places] /\ UNCHANGED <<link, destroyed, drain>>
  BY DEF DInv, WInv, CInv, Types, Answered, ResponseTimeout, BudgetRunsOut, Abort
<1>2. \A q \in Requests : pc'[q] \in {"holding", "linked"} => pc[q] = pc'[q]
  BY <1>1 DEF Answered, ResponseTimeout, BudgetRunsOut, Abort, Settle, Refuse
<1>3. queue = <<>> => pc[r] # "queued"
  BY DEF DInv, WInv, CInv, AllThere
<1>4. queue = <<>> => UNCHANGED <<inFlight, queue>>
  BY <1>3 DEF Answered, ResponseTimeout, BudgetRunsOut, Abort, window
<1>5. QED
  BY <1>1, <1>2, <1>4, DrainStays

\* A link that changes under a drain.
LEMMA LinkDrained ==
    ASSUME DInv, LinkDrops \/ LinkAttaches \/ LinkOpens \/ LinkEnds \/ SocketDies
    PROVE  Drained'
<1>1. link \in Links /\ drain \in Drains /\ drain' = drain /\ (drain.at # "idle" => link.stopped)
  BY DEF DInv, WInv, CInv, Types, Drained, LinkDrops, LinkAttaches, LinkOpens, LinkEnds, SocketDies
<1>2. CASE Ends
  BY <1>1, <1>2, EndsDrained
<1>3. CASE link' = drop(link)
  <2>1. ~isUp(link') /\ link'.stopped = link.stopped
    BY <1>1, <1>3, DropLink DEF isUp
  <2>2. QED
    BY <1>1, <2>1, LinkGone
<1>4. CASE LinkAttaches
  <2>1. ~isUp(link') /\ link'.stopped = link.stopped
    BY <1>1, <1>4, AttachLink DEF isUp, LinkAttaches
  <2>2. QED
    BY <1>1, <2>1, LinkGone
<1>5. CASE LinkOpens
  <2>1. drain'.at = "idle"
    BY <1>1, <1>5 DEF LinkOpens, retrying
  <2>2. \A r \in Requests : pc'[r] # "holding"
    BY <1>5 DEF LinkOpens
  <2>3. QED
    BY <1>1, <2>1, <2>2 DEF Drained, Settling
<1>6. CASE SocketDies
  <2>1. destroyed' = TRUE /\ link' = link /\ pc' = pc
    BY <1>6 DEF SocketDies
  <2>2. QED
    BY <1>1, <2>1 DEF DInv, Drained, Settling, canCarry
<1>7. QED
  BY <1>2, <1>3, <1>4, <1>5, <1>6 DEF LinkDrops, LinkEnds

\* close() stops the session before it looks at what is left.
LEMMA CloseDrained ==
    ASSUME DInv, Close \/ DrainMessages \/ DrainCut \/ DrainChecks \/ UNCHANGED vars
    PROVE  Drained'
<1>1. /\ link \in Links /\ drain \in Drains
      /\ inFlight \in Nat /\ Len(queue) \in Nat /\ queue \in Seq(Requests)
  BY HoldersFinite DEF DInv, WInv, CInv, Types, Counted, Drained
<1>2. CASE canCarry /\ link' = stop(link) /\ drain' = [drain EXCEPT !.at = "messages"] /\ pc' = pc
  <2>1. link'.phase = link.phase /\ link'.stopped
    BY <1>1, <1>2, StopLink
  <2>2. drain' \in Drains /\ drain'.at = "messages"
    BY <1>1, <1>2 DEF Drains
  <2>3. QED
    BY <1>2, <2>1, <2>2 DEF DInv, Drained, Settling, isUp
<1>3. CASE Ends /\ drain' = [drain EXCEPT !.at = "over", !.found = "clean"]
  <2>1. drain' \in Drains
    BY <1>1, <1>3 DEF Drains
  <2>2. QED
    BY <1>3, <2>1, EndsDrained
<1>4. CASE DrainChecks
  <2>1. drain' \in Drains
    BY <1>1, <1>4 DEF Drains, DrainChecks
  <2>2. QED
    BY <1>4, <2>1, EndsDrained DEF DrainChecks
<1>5. CASE DrainMessages
  <2>1. PICK held \in BOOLEAN :
            drain' = [drain EXCEPT !.at = IF unfinished = 0 THEN "checking" ELSE "requests",
                                   !.held = held]
    BY <1>5 DEF DrainMessages
  <2>2. drain' \in Drains /\ drain'.at = IF unfinished = 0 THEN "checking" ELSE "requests"
    BY <1>1, <2>1 DEF Drains
  <2>3. unfinished = 0 => inFlight = 0 /\ queue = <<>>
    BY <1>1 DEF unfinished
  <2>4. link.stopped /\ UNCHANGED <<link, destroyed, pc, window>> /\ \A r \in Requests : pc[r] # "linked"
    BY <1>5 DEF DInv, Drained, DrainMessages, In
  <2>5. QED
    BY <2>2, <2>3, <2>4 DEF DInv, Drained, Settling, isUp, window
<1>6. CASE DrainCut
  <2>1. unfinished \in Nat /\ (unfinished = 0 => inFlight = 0 /\ queue = <<>>)
    BY <1>1 DEF unfinished
  <2>2. /\ drain' \in Drains /\ drain'.at = "checking" /\ drain'.held = drain.held
        /\ drain'.left = unfinished /\ drain.at = "requests"
    BY <1>1, <1>6, <2>1 DEF Drains, DrainCut
  <2>3. UNCHANGED <<link, destroyed, pc, window>>
    BY <1>6 DEF DrainCut
  <2>4. isUp(link)' = isUp(link) /\ (Settling' => Settling)
    BY <2>2, <2>3 DEF isUp, Settling, canCarry
  <2>5. QED
    BY <2>1, <2>2, <2>3, <2>4 DEF DInv, Drained, window
<1>7. CASE UNCHANGED vars
  BY <1>7, DrainStays DEF vars, window
<1>8. QED
  BY <1>2, <1>3, <1>4, <1>5, <1>6, <1>7 DEF Close

\* The drain's invariant holds in every state.
LEMMA DrainInvariant == Spec => []DInv
<1>1. Init => DInv
  <2>. SUFFICES ASSUME Init PROVE DInv
    OBVIOUS
  <2>1. Holders = {} /\ inFlight = 0 /\ queue = <<>>
    BY DEF Init, Holders, In
  <2>2. WInv
    BY <2>1, FS_EmptySet, LimitAssumption, ContractInit DEF WInv, Counted
  <2>3. Drained
    BY DEF Init, Drained, Drains, Settling
  <2>4. QED
    BY <2>2, <2>3 DEF DInv
<1>2. DInv /\ [Next]_vars => DInv'
  <2>. SUFFICES ASSUME DInv, [Next]_vars PROVE DInv'
    OBVIOUS
  <2>1. WInv'
    BY NextKeeps, NextCounts DEF DInv, WInv
  <2>2. Drained'
    BY IssueDrained, ContinueDrained, SettlesDrained, LinkDrained, CloseDrained DEF Next, Continue
  <2>3. QED
    BY <2>1, <2>2 DEF DInv
<1>3. QED
  BY <1>1, <1>2, PTL DEF Spec

\* A drain that is about to report a clean shutdown leaves no request behind in the window
\* or on the wire, whatever the application, the peer and the link did meanwhile (session.ts
\* drain, outgoing-requests.ts requestPastDrain).
THEOREM CleanMeansNothingOwed == Spec => []CleanDrainOwesNothing
<1>1. DInv => CleanDrainOwesNothing
  <2>. SUFFICES ASSUME DInv, drain.at = "checking", canCarry, ~drain.held, drain.left = 0,
                       NEW r \in Requests, pc[r] \in {"linked", "queued", "slotted", "wire", "finished"}
                PROVE  FALSE
    BY DEF CleanDrainOwesNothing, In
  <2>1. Settling /\ inFlight = 0 /\ queue = <<>> /\ pc[r] # "linked"
    BY DEF DInv, Drained, Settling
  <2>2. pc[r] # "queued"
    BY <2>1 DEF DInv, WInv, CInv, AllThere
  <2>3. Holders = {}
    BY <2>1, HoldersFinite, FS_EmptySet DEF DInv, WInv, Counted
  <2>4. pc[r] \notin {"slotted", "wire", "finished"}
    BY <2>3 DEF Holders, In
  <2>5. QED
    BY <2>1, <2>2, <2>4
<1>2. QED
  BY <1>1, DrainInvariant, PTL

\* Every variable keeps its type (outgoing-requests.ts, send-window.ts, session.ts).
THEOREM TypesHold == Spec => []TypeOK
<1> DEFINE Signals == aborted \in [Requests -> BOOLEAN] /\ spent \in [Requests -> BOOLEAN]
<1>1. Init => Signals
  BY DEF Init
<1>2. Signals /\ [Next]_vars => Signals'
  <2>. SUFFICES ASSUME Signals, [Next]_vars PROVE Signals'
    OBVIOUS
  <2>1. ASSUME NEW r \in Requests, Abort(r) PROVE Signals'
    BY <2>1 DEF Abort
  <2>2. ASSUME NEW r \in Requests, BudgetRunsOut(r) PROVE Signals'
    BY <2>2 DEF BudgetRunsOut
  <2>3. CASE UNCHANGED signals
    BY <2>3 DEF signals
  <2>4. QED
    BY <2>1, <2>2, <2>3
       DEF Next, Issue, Acquire, Attempt, Release, Conclude, Answered, ResponseTimeout,
           SocketDies, LinkDrops, LinkAttaches, LinkOpens, LinkEnds, Close,
           DrainMessages, DrainCut, DrainChecks, Ends, vars, signals
<1>3. DInv /\ Signals => TypeOK
  <2>. SUFFICES ASSUME DInv, Signals PROVE TypeOK
    OBVIOUS
  <2>1. inFlight \in Nat /\ Limit \in Nat /\ inFlight <= Limit
    BY HoldersFinite, LimitAssumption DEF DInv, WInv, Counted
  <2>2. inFlight \in 0 .. Limit
    BY <2>1
  <2>3. QED
    BY <2>2 DEF DInv, WInv, CInv, Types, Drained, TypeOK
<1>4. QED
  BY <1>1, <1>2, <1>3, DrainInvariant, PTL DEF Spec

-----------------------------------------------------------------------------
(* Sending: what the place of a request says of it, and what the peer can  *)
(* only know of it once it was written.                                    *)

\* The peer has read what was written, and an answer comes of what it has read.
Told(r) ==
    /\ peer[r] # "none" => written[r] > 0
    /\ result[r] = "answered" => peer[r] # "none"

TInv ==
    /\ CInv
    /\ peer \in [Requests -> {"none", "took", "refused"}]
    /\ \A r \in Requests : Told(r)

\* Nothing was asked for, so the peer has read nothing.
LEMMA ToldInit == SendingInit => TInv
<1>. SUFFICES ASSUME SendingInit PROVE TInv
  OBVIOUS
<1>1. CInv
  BY ContractInit DEF SendingInit
<1>2. \A r \in Requests : Told(r)
  BY DEF SendingInit, Init, Told
<1>3. QED
  BY <1>1, <1>2 DEF SendingInit, TInv

\* What was written is written for good.
LEMMA WrittenStays ==
    ASSUME CInv, [Next]_vars, NEW r \in Requests, written[r] > 0
    PROVE  written'[r] > 0
<1>1. Kept(r) /\ pc[r] \in Places
  BY DEF CInv, Types
<1>2. written[r] = 1
  BY <1>1 DEF Kept, Places
<1>3. written'[r] = 1
  BY <1>2, NextKeeps DEF Moves
<1>4. QED
  BY <1>3

\* A step other than an answer.
Unanswering ==
    \/ \E rs \in Calls : Issue(rs)
    \/ \E r \in Requests :
        Continue(r) \/ ResponseTimeout(r) \/ BudgetRunsOut(r) \/ Abort(r)
    \/ SocketDies \/ LinkDrops \/ LinkAttaches \/ LinkOpens \/ LinkEnds
    \/ Close \/ DrainMessages \/ DrainCut \/ DrainChecks

\* No step but an answer makes a request an answered one.
LEMMA OnlyAnswersAnswer ==
    ASSUME CInv, Unanswering, NEW q \in Requests, result'[q] = "answered"
    PROVE  result[q] = "answered"
<1>. USE DEF CInv, Types
<1>1. ASSUME NEW rs \in Calls, Issue(rs) PROVE result[q] = "answered"
  BY <1>1 DEF Issue, Refuse, WaitForLink
<1>2. ASSUME NEW r \in Requests, Continue(r) PROVE result[q] = "answered"
  BY <1>2 DEF Continue, Acquire, Attempt, Release, Conclude, Refuse, WaitForLink
<1>3. ASSUME NEW r \in Requests, ResponseTimeout(r) \/ BudgetRunsOut(r) \/ Abort(r)
      PROVE  result[q] = "answered"
  BY <1>3 DEF ResponseTimeout, BudgetRunsOut, Abort, Refuse, Settle
<1>4. CASE LinkDrops \/ LinkEnds \/ Close \/ DrainChecks
  BY <1>4 DEF LinkDrops, LinkEnds, Close, DrainChecks, Ends, LinkLost
<1>5. CASE SocketDies \/ LinkAttaches \/ LinkOpens \/ DrainMessages \/ DrainCut
  BY <1>5 DEF SocketDies, LinkAttaches, LinkOpens, DrainMessages, DrainCut
<1>6. QED
  BY <1>1, <1>2, <1>3, <1>4, <1>5 DEF Unanswering

\* Every step keeps what is told of each segment.
LEMMA ToldNext == TInv /\ [SendingNext]_allVars => TInv'
<1>. SUFFICES ASSUME TInv, [SendingNext]_allVars PROVE TInv'
  OBVIOUS
<1>1. /\ CInv /\ peer \in [Requests -> {"none", "took", "refused"}]
      /\ \A r \in Requests : Told(r)
  BY DEF TInv
<1>2. [Next]_vars
  BY DEF SendingNext, allVars, PeerReads, Next, Continue
<1>3. CInv'
  BY <1>1, <1>2, NextKeeps
<1>4. \A r \in Requests : written[r] > 0 => written'[r] > 0
  BY <1>1, <1>2, WrittenStays
<1>5. CASE Unanswering /\ peer' = peer
  BY <1>1, <1>3, <1>4, <1>5, OnlyAnswersAnswer DEF TInv, Told
<1>6. ASSUME NEW r \in Requests, peer[r] # "none", Answered(r), peer' = peer PROVE TInv'
  <2>1. \A q \in Requests : result'[q] = "answered" => q = r \/ result[q] = "answered"
    BY <1>1, <1>6 DEF Answered, Settle, CInv, Types
  <2>2. QED
    BY <1>1, <1>3, <1>4, <1>6, <2>1 DEF TInv, Told
<1>7. ASSUME NEW r \in Requests, PeerReads(r) PROVE TInv'
  <2>1. /\ written[r] > 0 /\ written' = written /\ result' = result
        /\ peer' \in [Requests -> {"none", "took", "refused"}] /\ peer'[r] # "none"
        /\ \A q \in Requests \ {r} : peer'[q] = peer[q]
    BY <1>1, <1>7 DEF PeerReads, vars
  <2>2. QED
    BY <1>1, <1>3, <2>1 DEF TInv, Told
<1>8. CASE UNCHANGED allVars
  BY <1>1, <1>3, <1>8 DEF TInv, Told, allVars, vars
<1>9. QED
  BY <1>5, <1>6, <1>7, <1>8 DEF SendingNext, Keep, Unanswering

\* A segment the peer takes is accepted or counted as unanswered once its send has resolved,
\* however the two race; and a send without err was taken as a whole (send-sms.ts collectSent).
THEOREM NothingIsTakenUntold == SendingSpec => []NothingTakenUntold
<1>1. TInv => NothingTakenUntold
  <2>. SUFFICES ASSUME TInv, NEW rs \in Calls, Resolved(rs)
                PROVE  /\ \A r \in rs : peer[r] = "took" => r \in accepted(rs) \cup unanswered(rs)
                       /\ ~failed(rs) => \A r \in rs : peer[r] = "took"
    BY DEF NothingTakenUntold
  <2>1. ASSUME NEW r \in rs, peer[r] = "took" PROVE result[r] \in {"answered", "unanswered"}
    <3>1. r \in Requests
      BY DEF Requests
    <3>2. pc[r] = "done" /\ Kept(r) /\ written[r] > 0
      BY <2>1, <3>1 DEF Resolved, TInv, CInv, Told
    <3>3. QED
      BY <3>2 DEF Kept
  <2>2. QED
    BY <2>1 DEF accepted, unanswered, failed
<1>2. QED
  BY <1>1, ToldInit, ToldNext, PTL DEF SendingSpec
=============================================================================
