---------------------------- MODULE MCCreditLedger ----------------------------
(****************************************************************************)
(* Constants of the TLC runs of CreditLedger: a weekly grant of two, a      *)
(* booking that a lot can pay and one that needs purchased credits too.     *)
(****************************************************************************)
EXTENDS CreditLedger, SequencesExt

CONSTANTS small, big

SmallAndBig == [r \in Refs |-> IF r = small THEN 1 ELSE 3]

\* consumeCredits as the code runs it: a loop over the lots in their order.
ConsumeInALoop(ls, bought, amount) ==
    LET inOrder == SetToSortSeq(DOMAIN ls, LAMBDA l, m : Sooner(ls, l, m))
        Draw(acc, l) ==
            LET used == Lesser(ls[l].remaining, acc.need)
            IN [used |-> [acc.used EXCEPT ![l] = used], need |-> acc.need - used]
        drawn == FoldLeft(Draw, [used |-> [l \in DOMAIN ls |-> 0], need |-> amount], inOrder)
        fromBought == Lesser(bought, drawn.need)
    IN [used |-> drawn.used, purchased |-> fromBought, shortfall |-> drawn.need - fromBought]

\* The sums of CreditLedger say what that loop computes.
ASSUME LoopAssumption ==
    \A exp \in [1 .. 3 -> 1 .. 2], remaining \in [1 .. 3 -> 0 .. 2], bought \in 0 .. 2 :
        LET ls == [l \in 1 .. 3 |-> [exp |-> exp[l], remaining |-> remaining[l]]]
        IN \A amount \in 0 .. 7 :
              ConsumeCredits(ls, bought, amount) = ConsumeInALoop(ls, bought, amount)
=============================================================================
