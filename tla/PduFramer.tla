------------------------------ MODULE PduFramer ------------------------------
(***************************************************************************)
(* The class PduFramer of pdu-framer.ts, as operators on its state: the    *)
(* chunks a socket gave, held apart until a PDU is whole, and their total  *)
(* length.                                                                 *)
(*                                                                         *)
(* Octets are counted in units, a few to the header.  A unit says what the *)
(* command_length of the header it may be the first unit of reads.         *)
(***************************************************************************)
EXTENDS Naturals, Sequences, SequencesExt

CONSTANTS
    HeaderLength,   \* the 16 octets, in units
    MaxPduLength    \* maxPduLength, in units

ASSUME LengthsAssumption ==
    /\ HeaderLength \in Nat \ {0} /\ MaxPduLength \in Nat
    /\ HeaderLength <= MaxPduLength

EmptyFramer == [chunks |-> <<>>, length |-> 0]

framingRefusal(cmdLength) == cmdLength < HeaderLength \/ cmdLength > MaxPduLength

push(framer, chunk) ==
    [chunks |-> Append(framer.chunks, chunk), length |-> framer.length + Len(chunk)]

\* The first chunk is made to hold `size` units.
join(framer, size) ==
    IF framer.chunks # <<>> /\ Len(Head(framer.chunks)) >= size
    THEN framer
    ELSE [framer EXCEPT !.chunks = <<FlattenSeq(@)>>]

\* What stays of the chunks once `size` units are cut off the first.
restOf(chunks, size) ==
    LET rest == SubSeq(Head(chunks), size + 1, Len(Head(chunks)))
    IN  IF rest = <<>> THEN Tail(chunks) ELSE <<rest>> \o Tail(chunks)

-----------------------------------------------------------------------------
\* One round of the loop of next().
Round(found) ==
    IF found.err \/ found.framer.length < HeaderLength THEN found
    ELSE LET headed == join(found.framer, HeaderLength)
             cmdLength == Head(Head(headed.chunks)).says
             joined == join(headed, cmdLength)
         IN  CASE framingRefusal(cmdLength) ->
                    [found EXCEPT !.framer = headed, !.pdus = <<>>, !.err = TRUE]
               [] ~framingRefusal(cmdLength) /\ headed.length < cmdLength ->
                    [found EXCEPT !.framer = headed]
               [] OTHER ->
                    [found EXCEPT
                        !.framer = [chunks |-> restOf(joined.chunks, cmdLength),
                                    length |-> joined.length - cmdLength],
                        !.pdus = Append(@, SubSeq(Head(joined.chunks), 1, cmdLength))]

\* next(): every PDU that is whole.  An unframable length loses those cut before it.
next(framer) ==
    LET rounds[n \in 0 .. framer.length] ==
            IF n = 0
            THEN [framer |-> framer, pdus |-> <<>>, err |-> FALSE]
            ELSE Round(rounds[n - 1])
    IN  rounds[framer.length \div HeaderLength]
=============================================================================
