-------------------------- MODULE MCOutgoingRequests --------------------------
(* OutgoingRequests for TLC. *)
EXTENDS OutgoingRequests

CONSTANTS r1, r2, r3

NoRequests == {}
OneReceipt == {r1}
OneMalformed == {r2}
=============================================================================
