------------------------------ MODULE MCPayments ------------------------------
(****************************************************************************)
(* Constants of the TLC runs of Payments: two events of one payment, its    *)
(* refund in whole and in part, and two events without effect.              *)
(****************************************************************************)
EXTENDS Payments

CONSTANTS paid2, lacking2, refund1, refund2, failed2, key1, key2

TypeOfEvent == [e \in Events |-> CASE e \in {refund1, refund2} -> "payment.refunded"
                                   [] e = failed2 -> "payment.failed"
                                   [] OTHER -> "payment.paid"]
KeyOfEvent == [e \in Events |-> IF e \in {lacking2, failed2} THEN key2 ELSE key1]
AmountOfEvent == [e \in Events |-> CASE e \in {refund1, lacking2, failed2} -> NoAmount
                                     [] e = refund2 -> 1
                                     [] OTHER -> 2]
NeedOne == [r \in Requests |-> 1]
=============================================================================
