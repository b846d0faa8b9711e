------------------------------- MODULE Transport -------------------------------
(***************************************************************************)
(* What a session hears of its peer: PduTransport (pdu-transport.ts) over  *)
(* the socket of the moment, its PduFramer, and the LinkTimers             *)
(* (link-timers.ts) that every chunk starts over, under the link's life as *)
(* session.ts drives it.                                                   *)
(*                                                                         *)
(* TCP delivers what the peer writes on a socket in order and in chunks of *)
(* any size, or not at all once the socket is gone.                        *)
(***************************************************************************)
EXTENDS LinkLife, PduFramer, FiniteSets

CONSTANTS
    Lengths,    \* the command_lengths the peer writes
    MaxPdus,    \* bound: PDUs the peer writes on one link
    MaxLinks    \* bound: how many links follow the first

ASSUME LengthsWritten == Lengths \subseteq Nat
ASSUME BoundsAssumption == MaxPdus \in Nat /\ MaxLinks \in Nat

VARIABLES
    link,       \* LinkLife's state
    sock,       \* the socket of the moment: "open", "destroyed", "closed" once it said so
    sent,       \* history: the PDUs the peer wrote on it, as [length, readable]
    got,        \* how many units of them have been read
    silent,     \* the peer writes nothing more on it
    framer,     \* PduTransport.framer
    handed,     \* history: what was handed to the session off it
    probe,      \* LinkTimers.enquireLink: 0, or the number of the link it was armed on
    idle        \* LinkTimers.idle, likewise

peer == <<sent, silent>>
timers == <<probe, idle>>
vars == <<link, sock, peer, got, framer, handed, timers>>

\* Links are numbered from 1: the one attached, or the last that was.
number(l) == IF isAttached(l) THEN l.drops + 1 ELSE l.drops

Init ==
    /\ link = FirstLink /\ sock = "open"
    /\ sent = <<>> /\ got = 0 /\ silent = FALSE
    /\ framer = EmptyFramer /\ handed = <<>>
    /\ probe = 1 /\ idle = 1

-----------------------------------------------------------------------------
(* The stream.  Nobody can tell how long a PDU is whose length can not be  *)
(* framed: the peer writes its header.                                     *)

size(pdu) == IF framingRefusal(pdu.length) THEN HeaderLength ELSE pdu.length

unitsOf(n) ==
    [i \in 1 .. size(sent[n]) |->
        [link |-> number(link), pdu |-> n, at |-> i, says |-> sent[n].length]]

stream == FlattenSeq([n \in DOMAIN sent |-> unitsOf(n)])

\* The PDUs of which every unit has been read.
wholeRead ==
    {n \in DOMAIN sent : Len(FlattenSeq([m \in 1 .. n |-> unitsOf(m)])) <= got}

PeerWrites ==
    /\ sock = "open" /\ ~silent /\ Len(sent) < MaxPdus
    /\ \E length \in Lengths, readable \in BOOLEAN :
        sent' = Append(sent, [length |-> length, readable |-> readable])
    /\ UNCHANGED <<link, sock, silent, got, framer, handed, timers>>

PeerFallsSilent ==
    /\ sock = "open" /\ ~silent
    /\ silent' = TRUE
    /\ UNCHANGED <<link, sock, sent, got, framer, handed, timers>>

-----------------------------------------------------------------------------
(* The timers, and the end of a link.                                      *)

\* Session.resetTimers(): what the timers read once a link had a sign of life.
reset(l) == IF isAttached(l) THEN number(l) ELSE 0

\* Mutant: the timers of the link that went stay.
TeardownKeepsTimers ==
    /\ isAttached(link)
    /\ link' = drop(link)
    /\ sock' = "destroyed"
    /\ UNCHANGED timers

\* Session.teardown(), which does nothing once the link is gone.
Teardown ==
    /\ isAttached(link)
    /\ link' = drop(link)
    /\ sock' = "destroyed"
    /\ probe' = 0 /\ idle' = 0

\* Session.end(), in one turn with the drop it makes.
End ==
    /\ link' = end(drop(link))
    /\ sock' = IF sock = "closed" THEN sock ELSE "destroyed"
    /\ probe' = 0 /\ idle' = 0

\* An enquire_link goes out; only what comes back arms the next.
ProbeFires ==
    /\ probe # 0
    /\ probe' = 0
    /\ UNCHANGED <<link, sock, peer, got, framer, handed, idle>>

\* Mutant: the timer gives the peer another chance.
IdleFiresAgain ==
    /\ idle # 0
    /\ probe' = reset(link) /\ idle' = reset(link)
    /\ UNCHANGED <<link, sock, peer, got, framer, handed>>

IdleFires ==
    /\ idle # 0
    /\ Teardown
    /\ UNCHANGED <<peer, got, framer, handed>>

\* The peer hung up, or the application destroyed the socket.
SocketDies ==
    /\ sock = "open"
    /\ sock' = "destroyed"
    /\ UNCHANGED <<link, peer, got, framer, handed, timers>>

\* onClose(), of a `close` event or an `error` ahead of it.
SocketClosed ==
    /\ sock = "destroyed"
    /\ sock' = "closed"
    /\ IF ~retrying(link)
       THEN link' = end(drop(link)) /\ probe' = 0 /\ idle' = 0
       ELSE IF isAttached(link)
       THEN link' = drop(link) /\ probe' = 0 /\ idle' = 0
       ELSE UNCHANGED <<link, timers>>
    /\ UNCHANGED <<peer, got, framer, handed>>

Stop ==
    /\ ~link.stopped
    /\ link' = stop(link)
    /\ UNCHANGED <<sock, peer, got, framer, handed, timers>>

Ends ==
    /\ ~isOver(link)
    /\ End
    /\ UNCHANGED <<peer, got, framer, handed>>

-----------------------------------------------------------------------------
\* What a framed PDU is to the session: an object, or a refusal it answers.
parsed(units) == [units |-> units, readable |-> sent[units[1].pdu].readable]

\* PduTransport.read(): a `data` listener may end the session ahead of the timers and of
\* what the chunk holds; an unusable stream is torn down, and every PDU framed is handed
\* over, also to a session that an earlier one ended.
Read(count) ==
    /\ sock = "open" /\ count <= Len(stream) - got
    /\ got' = got + count
    /\ LET found == next(push(framer, SubSeq(stream, got + 1, got + count)))
       IN  /\ framer' = found.framer
           /\ handed' = handed \o [i \in DOMAIN found.pdus |-> parsed(found.pdus[i])]
           /\ \/ found.err /\ Teardown
              \/ /\ ~found.err
                 /\ probe' = reset(link) /\ idle' = reset(link)
                 /\ UNCHANGED <<link, sock>>
              \/ /\ link' = end(drop(link)) /\ sock' = "destroyed"
                 /\ probe' = reset(link') /\ idle' = reset(link')
    /\ UNCHANGED peer

-----------------------------------------------------------------------------
(* The next link: attach(), and the bind that opens it.                    *)

\* Mutant: half a PDU of the old socket goes before the new one's.
AttachKeepsFramer ==
    /\ link.phase = "down" /\ retrying(link) /\ sock = "closed" /\ link.drops <= MaxLinks
    /\ link' = attach(link) /\ sock' = "open"
    /\ sent' = <<>> /\ got' = 0 /\ silent' = FALSE
    /\ handed' = <<>>
    /\ UNCHANGED <<framer, timers>>

\* PduTransport.attach(): a socket of its own stream, and no timer yet.
Attach ==
    /\ link.phase = "down" /\ retrying(link) /\ sock = "closed" /\ link.drops <= MaxLinks
    /\ link' = attach(link) /\ sock' = "open"
    /\ sent' = <<>> /\ got' = 0 /\ silent' = FALSE
    /\ framer' = EmptyFramer /\ handed' = <<>>
    /\ UNCHANGED timers

\* comeBackUp(), whose bind some PDU answered.
BindAnswered ==
    /\ link.phase = "binding" /\ sock = "open" /\ handed # <<>>
    /\ IF retrying(link)
       THEN /\ probe' = reset(link) /\ idle' = reset(link)
            /\ link' = open(link)
            /\ UNCHANGED sock
       ELSE Teardown
    /\ UNCHANGED <<peer, got, framer, handed>>

\* Refused, or unanswered within responseTimeout.
BindFails ==
    /\ link.phase = "binding"
    /\ Teardown
    /\ UNCHANGED <<peer, got, framer, handed>>

-----------------------------------------------------------------------------
Next ==
    \/ PeerWrites \/ PeerFallsSilent
    \/ \E count \in 1 .. Len(stream) : Read(count)
    \/ ProbeFires \/ IdleFires
    \/ SocketDies \/ SocketClosed \/ Stop \/ Ends
    \/ Attach \/ BindAnswered \/ BindFails

Spec == Init /\ [][Next]_vars

\* Timers fire: the idle timer, which only a chunk starts over (the peer writes no more
\* than MaxPdus on a link), and the responseTimeout of the bind.
Fairness == WF_vars(IdleFires) /\ WF_vars(BindFails)

FairSpec == Spec /\ Fairness

-----------------------------------------------------------------------------
(* Properties                                                              *)

\* The session is handed the PDUs its peer wrote on this very link, each octet of them, in
\* order and once, however the stream was cut: "half a PDU left on the old one must not
\* prefix this one" (pdu-transport.ts:40), and one the codec refuses leaves the stream in
\* sync.  While the link is kept none that is whole waits for the next octet of a peer who
\* may be waiting for ours (pdu-framer.ts next).
HandedAsWritten ==
    /\ Len(handed) <= Len(sent)
    /\ \A n \in DOMAIN handed :
        /\ handed[n].units = unitsOf(n)
        /\ handed[n].readable = sent[n].readable
    /\ isAttached(link) => Len(handed) = Cardinality(wholeRead)

\* A timer is armed on the link it watches and on no other, or the one left over tears a
\* later link down, and a link in use is always watched (link-timers.ts, session.ts:437).
TimersFollowTheLink ==
    /\ \A timer \in {probe, idle} : timer # 0 => isAttached(link) /\ timer = number(link)
    /\ isUp(link) => idle = number(link)

\* "a peer that stops answering is dropped" (README.md:8): in mid-PDU, before the answer
\* to a bind or after it, and however many links went before.
SilentPeerIsDropped == (isAttached(link) /\ silent) ~> ~(isAttached(link) /\ silent)
=============================================================================
