------------------------------ MODULE PaymentLife ------------------------------
(****************************************************************************)
(* What the payments of one student promise, whatever is delivered twice,   *)
(* late or in the wrong order: the purchased balance moves only by crediting*)
(* a PG payment, which happens once, by taking a credited payment back,     *)
(* never below zero and once unless two of its refunds crossed before the   *)
(* first, by a payment request that is paid, which happens once and never   *)
(* after a rejection, and by spending.                                      *)
(****************************************************************************)
EXTENDS Integers

CONSTANTS Keys, Requests, Needed,
          Paid, Returned  \* amounts of payments, and those a refund may name

VARIABLES balance, state, worth, asked, spent, crossed

lifeVars == <<balance, state, worth, asked, spent, crossed>>

LifeInit ==
    /\ balance = 0
    /\ state = [k \in Keys |-> "none"] /\ worth = [k \in Keys |-> 0]
    /\ asked = [r \in Requests |-> "none"]
    /\ spent = 0 /\ crossed = {}

Credit(k) ==
    /\ state[k] = "none"
    /\ state' = [state EXCEPT ![k] = "done"]
    /\ \E n \in Paid \ {0} : /\ worth' = [worth EXCEPT ![k] = n]
                             /\ balance' = balance + n
    /\ UNCHANGED <<asked, spent, crossed>>

\* In part or as a whole, whatever the refund names.
GiveBack(k) ==
    /\ \/ state[k] = "done"
       \/ state[k] = "refunded" /\ k \in crossed
    /\ state' = [state EXCEPT ![k] = "refunded"]
    /\ \E n \in Returned \cup {worth[k]} : balance' = IF n < balance THEN balance - n ELSE 0
    /\ UNCHANGED <<worth, asked, spent, crossed>>

\* Two refunds of the payment are asked for at once.
Cross(k) ==
    /\ state[k] = "done"
    /\ crossed' = crossed \cup {k}
    /\ UNCHANGED <<balance, state, worth, asked, spent>>

Ask(r) ==
    /\ asked[r] = "none"
    /\ asked' = [asked EXCEPT ![r] = "open"]
    /\ UNCHANGED <<balance, state, worth, spent, crossed>>

Pay(r) ==
    /\ asked[r] = "open"
    /\ asked' = [asked EXCEPT ![r] = "done"]
    /\ balance' = balance + Needed[r]
    /\ UNCHANGED <<state, worth, spent, crossed>>

Decline(r) ==
    /\ asked[r] = "open"
    /\ asked' = [asked EXCEPT ![r] = "rejected"]
    /\ UNCHANGED <<balance, state, worth, spent, crossed>>

Spend ==
    /\ balance > 0
    /\ balance' = balance - 1
    /\ spent' = spent + 1
    /\ UNCHANGED <<state, worth, asked, crossed>>

LifeNext ==
    \/ \E k \in Keys : Credit(k) \/ GiveBack(k) \/ Cross(k)
    \/ \E r \in Requests : Ask(r) \/ Pay(r) \/ Decline(r)
    \/ Spend

LifeSpec == LifeInit /\ [][LifeNext]_lifeVars
=============================================================================
