--------------------------- MODULE MCReceiptMerging ---------------------------
(***************************************************************************)
(* Sends to an SMSC that hands its ids out again, and that gives one id    *)
(* twice, with stores that hold two bases.                                 *)
(***************************************************************************)
EXTENDS ReceiptMerging

id(base, part) == [base |-> base, part |-> part]

MCSmsIds ==
    [s \in Sends |->
        CASE s \in {"a", "a again"} -> <<id("A", 1), id("A", 2)>>
          [] s = "b" -> <<id("B", 1), id("B", 2)>>
          [] s = "c" -> <<id("C", 1), id("C", 2)>>
          [] s = "repeats" -> <<id("D", 1), id("D", 1)>>]

MCSends == {"a", "b", "a again", "c", "repeats"}

=============================================================================
