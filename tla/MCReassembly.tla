----------------------------- MODULE MCReassembly -----------------------------
(***************************************************************************)
(* Reassembly on messages of one, two and three parts, with a store that   *)
(* has room for two groups and three octets.                               *)
(***************************************************************************)
EXTENDS Reassembly

segment(key, part, total, octets) == [key |-> key, part |-> part, total |-> total, octets |-> octets]

\* The first part of "a" comes in two weights, of which the heavier one
\* alone fills the store; another segment of "a" claims another total, and one
\* of "b" is numbered past its own.
MCSegments ==
    {segment("a", 1, 3, 1), segment("a", 1, 3, 3), segment("a", 2, 3, 2), segment("a", 3, 3, 1),
     segment("a", 3, 4, 1),
     segment("b", 1, 2, 1), segment("b", 2, 2, 1), segment("b", 3, 2, 1),
     segment("c", 2, 2, 1), segment("d", 1, 1, 2)}
=============================================================================
