------------------------------- MODULE MCSending -------------------------------
(* Sending for TLC: a message in two segments, through a window of one slot. *)
EXTENDS Sending

CONSTANTS r1, r2

NoRequests == {}
=============================================================================
