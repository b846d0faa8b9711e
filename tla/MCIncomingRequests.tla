-------------------------- MODULE MCIncomingRequests --------------------------
(* IncomingRequests for TLC: a few requests, two of them on one sequence number. *)
EXTENDS IncomingRequests, TLC

CONSTANTS a, b, c

\* c re-uses the number of a and makes a segmented message whole; b is a message of
\* its own, or the peer's unbind.
Mixed == (a :> {"message"} @@ b :> {"message", "unbind"} @@ c :> {"segmented"})
Reused == (a :> 1 @@ b :> 2 @@ c :> 1)

\* Nothing but messages, on numbers of their own.
Plain == (a :> {"message"} @@ b :> {"message"} @@ c :> {"message"})
Three == (a :> 1 @@ b :> 2 @@ c :> 3)
=============================================================================
