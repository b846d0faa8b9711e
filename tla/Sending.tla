-------------------------------- MODULE Sending --------------------------------
(***************************************************************************)
(* Messages and receipts in several segments: submitSms() and collectSent()*)
(* of send-sms.ts, and sendDlr() and collectReceipt() of sms.ts, which do  *)
(* the same.  A call of OutgoingRequests is the segments of one of them,   *)
(* all issued in one turn; what became of each segment at the peer decides *)
(* what its caller must be told.                                           *)
(*                                                                         *)
(* What reached a socket may be read by the peer at any time, after the    *)
(* link or the caller has gone too, or never.                              *)
(***************************************************************************)
EXTENDS OutgoingRequests

VARIABLE peer   \* what the peer made of each segment: "none" yet, "took" or "refused" it

allVars == <<vars, peer>>

SendingInit ==
    /\ Init
    /\ peer = [r \in Requests |-> "none"]

-----------------------------------------------------------------------------
(* What a send comes to, once Promise.all() has every segment's result.    *)

Resolved(rs) == \A r \in rs : pc[r] = "done"

\* Mutant: only what timed out or was aborted counts, and not what a lost link took.
unansweredWhileUp(rs) == {r \in rs : result[r] = "unanswered" /\ isUp(link)}

unanswered(rs) == {r \in rs : result[r] = "unanswered"}

\* pduObjs, and smsIds position for position.
accepted(rs) == {r \in rs : result[r] = "answered" /\ peer[r] = "took"}

\* err: the first segment that was not answered ESME_ROK, whatever came of the others.
failed(rs) == rs # accepted(rs)

-----------------------------------------------------------------------------
\* The peer reads a segment.
PeerReads(r) ==
    /\ written[r] > 0 /\ peer[r] = "none"
    /\ \E made \in {"took", "refused"} : peer' = [peer EXCEPT ![r] = made]
    /\ UNCHANGED vars

Keep == UNCHANGED peer

SendingNext ==
    \/ \E rs \in Calls : Issue(rs) /\ Keep
    \/ \E r \in Requests :
        \/ PeerReads(r)
        \/ peer[r] # "none" /\ Answered(r) /\ Keep
        \/ Continue(r) /\ Keep
        \/ (ResponseTimeout(r) \/ BudgetRunsOut(r) \/ Abort(r)) /\ Keep
    \/ (SocketDies \/ LinkDrops \/ LinkAttaches \/ LinkOpens \/ LinkEnds) /\ Keep
    \/ (Close \/ DrainMessages \/ DrainCut \/ DrainChecks) /\ Keep

SendingSpec == SendingInit /\ [][SendingNext]_allVars

FairSendingSpec == SendingSpec /\ Fairness

-----------------------------------------------------------------------------
(* Properties                                                              *)

\* "The peer may have taken them, so sending again may duplicate" (send-sms.ts:54): a
\* segment the peer takes is in pduObjs or counted in `unanswered`, also when it reads it
\* after the send has resolved, and a send without err was taken as a whole.
NothingTakenUntold ==
    \A rs \in Calls : Resolved(rs) =>
        /\ \A r \in rs : peer[r] = "took" => r \in accepted(rs) \cup unanswered(rs)
        /\ ~failed(rs) => \A r \in rs : peer[r] = "took"

\* Every send resolves: each of its segments is answered, or its caller told why not,
\* whatever the link does.  A retry that finds the link dead waits for the next one or
\* gives up, and does not go round on the socket that refused it (outgoing-requests.ts
\* retriesOnNextLink).
EverySendResolves ==
    \A rs \in Calls : (\E r \in rs : pc[r] # "unissued") ~> Resolved(rs)
=============================================================================
