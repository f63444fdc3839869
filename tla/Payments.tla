------------------------------- MODULE Payments -------------------------------
(****************************************************************************)
(* Money that enters the purchased credits of one student: payment requests *)
(* answered by the student or a guardian, and the events of the payment     *)
(* provider, which come any number of times and in any order.               *)
(*                                                                          *)
(* A webhook is handled in three transactions: the event is recorded, then  *)
(* applied, then marked.  A handler may die between them.  applyPgCharge    *)
(* looks for the payment of the key before it locks the account, and the    *)
(* unique index on the key decides; applyPgRefund looks at refunded_at      *)
(* before it locks, and nothing decides after it.                           *)
(****************************************************************************)
EXTENDS Integers, FiniteSets

CONSTANTS
    Handlers,   \* webhook calls in flight
    Answers,    \* respond calls in flight
    Keys,       \* idempotency keys of provider payments
    Requests,   \* payment requests
    Events,     \* events of the provider, by id
    EventType,  \* "payment.paid", "payment.refunded" or "payment.failed"
    EventKey,   \* the payment an event speaks of
    EventAmount,  \* the amount an event names; NoAmount, if it names none or no payer
    NoAmount,
    Needed      \* payment_request.needed_credits

ASSUME PaymentsAssumption ==
    /\ EventType \in [Events -> {"payment.paid", "payment.refunded", "payment.failed"}]
    /\ EventKey \in [Events -> Keys]
    /\ EventAmount \in [Events -> Nat \cup {NoAmount}] /\ NoAmount \notin Nat
    /\ Needed \in [Requests -> Nat \ {0}]

VARIABLES
    purchased,       \* credit_account.purchased_balance
    payment,         \* the payment row of each key: none, done or refunded
    worth,           \* payment.amount
    paymentEvent,    \* payment_event.status of each event id
    handler,         \* what each webhook call is doing
    paymentRequest,  \* payment_request.status
    answer,          \* what each respond call has read
    spent,           \* history: purchased credits that bookings took
    refundsCrossed   \* history: payments of which two refunds were under way at once

paymentsVars == <<purchased, payment, worth, paymentEvent, handler, paymentRequest, answer,
                  spent, refundsCrossed>>
webhookVars == <<payment, worth, paymentEvent, handler, refundsCrossed>>

NoCall == [at |-> "idle"]

PaymentsInit ==
    /\ purchased = 0
    /\ payment = [k \in Keys |-> "none"] /\ worth = [k \in Keys |-> 0]
    /\ paymentEvent = [e \in Events |-> "none"]
    /\ handler = [h \in Handlers |-> NoCall]
    /\ paymentRequest = [r \in Requests |-> "none"]
    /\ answer = [a \in Answers |-> NoCall]
    /\ spent = 0 /\ refundsCrossed = {}

(****************************************************************************)
(* PgWebhookService.handle and dispatch.                                    *)
(****************************************************************************)
\* The INSERT is the claim of the event; a unique violation is acknowledged
\* as a duplicate, whatever became of the first delivery.
Deliver(h, e) ==
    /\ handler[h] = NoCall
    /\ paymentEvent[e] = "none"
    /\ paymentEvent' = [paymentEvent EXCEPT ![e] = "received"]
    /\ handler' = [handler EXCEPT ![h] = [at |-> "dispatch", event |-> e]]
    /\ UNCHANGED <<purchased, payment, worth, paymentRequest, answer, spent, refundsCrossed>>

\* What an event of a payment must name: its payer, and an amount other than 0.
Complete(e) == EventAmount[e] \notin {NoAmount, 0}

\* What the event asks for is still to be done, as far as the payment row tells before
\* the account lock.  "payment.failed" has nothing to apply.
Due(e) ==
    \/ EventType[e] = "payment.paid" /\ Complete(e) /\ payment[EventKey[e]] = "none"
    \/ EventType[e] = "payment.refunded" /\ payment[EventKey[e]] = "done"

Refunding(h, k) ==
    /\ handler[h].at = "apply"
    /\ EventType[handler[h].event] = "payment.refunded" /\ EventKey[handler[h].event] = k

ReadPayment(h) ==
    /\ handler[h].at = "dispatch"
    /\ LET e == handler[h].event
           k == EventKey[e]
       IN /\ handler' = [handler EXCEPT ![h] =
                 IF Due(e) THEN [at |-> "apply", event |-> e]
                           ELSE [at |-> "mark", event |-> e, applied |-> FALSE]]
          /\ refundsCrossed' = IF Due(e) /\ EventType[e] = "payment.refunded"
                           /\ \E g \in Handlers : Refunding(g, k)
                        THEN refundsCrossed \cup {k} ELSE refundsCrossed
    /\ UNCHANGED <<purchased, payment, worth, paymentEvent, paymentRequest, answer, spent>>

\* Mutant: payment.idempotency_key is not unique.
KeyIsFree_NoIndex(k) == TRUE
\* payment.idempotency_key UNIQUE.
KeyIsFree(k) == payment[k] = "none"

\* applyPgCharge under the account lock; the index refuses a second payment
\* of the key and the transaction rolls back.
ApplyCharge(h) ==
    /\ handler[h].at = "apply"
    /\ LET e == handler[h].event
           k == EventKey[e]
       IN /\ EventType[e] = "payment.paid"
          /\ IF KeyIsFree(k)
             THEN /\ purchased' = purchased + EventAmount[e]
                  /\ payment' = [payment EXCEPT ![k] = "done"]
                  /\ worth' = [worth EXCEPT ![k] = EventAmount[e]]
                  /\ handler' = [handler EXCEPT ![h] =
                         [at |-> "mark", event |-> e, applied |-> TRUE]]
             ELSE /\ handler' = [handler EXCEPT ![h] = [at |-> "fail", event |-> e]]
                  /\ UNCHANGED <<purchased, payment, worth>>
    /\ UNCHANGED <<paymentEvent, paymentRequest, answer, spent, refundsCrossed>>

\* applyPgRefund under the lock, which looks at the account only: what was spent
\* already cannot be taken back, what another refund took back meanwhile is taken again.
ApplyRefund(h) ==
    /\ handler[h].at = "apply"
    /\ LET e == handler[h].event
           k == EventKey[e]
           amount == IF EventAmount[e] = NoAmount THEN worth[k] ELSE EventAmount[e]
       IN /\ EventType[e] = "payment.refunded"
          /\ purchased' = IF amount < purchased THEN purchased - amount ELSE 0
          /\ payment' = [payment EXCEPT ![k] = "refunded"]
          /\ handler' = [handler EXCEPT ![h] =
                 [at |-> "mark", event |-> e, applied |-> TRUE]]
    /\ UNCHANGED <<worth, paymentEvent, paymentRequest, answer, spent, refundsCrossed>>

\* Mutant: what had nothing to apply counts as processed.
Outcome_Always(applied) == "processed"
Outcome(applied) == IF applied THEN "processed" ELSE "ignored"

MarkEvent(h) ==
    /\ handler[h].at = "mark"
    /\ paymentEvent' = [paymentEvent EXCEPT ![handler[h].event] = Outcome(handler[h].applied)]
    /\ handler' = [handler EXCEPT ![h] = NoCall]
    /\ UNCHANGED <<purchased, payment, worth, paymentRequest, answer, spent, refundsCrossed>>

\* An exception while applying or marking: the provider gets an error, and its
\* next delivery is a duplicate.
FailEvent(h) ==
    /\ handler[h].at \in {"dispatch", "apply", "mark", "fail"}
    /\ paymentEvent' = [paymentEvent EXCEPT ![handler[h].event] = "failed"]
    /\ handler' = [handler EXCEPT ![h] = NoCall]
    /\ UNCHANGED <<purchased, payment, worth, paymentRequest, answer, spent, refundsCrossed>>

\* The process dies: no transaction is left half done, the event stays received.
HandlerDies(h) ==
    /\ handler[h] # NoCall
    /\ handler' = [handler EXCEPT ![h] = NoCall]
    /\ UNCHANGED <<purchased, payment, worth, paymentEvent, paymentRequest, answer, spent,
                   refundsCrossed>>

(****************************************************************************)
(* PaymentRequestService, after its role and link checks, and the other     *)
(* callers of the account.                                                  *)
(****************************************************************************)
\* By the student, a linked guardian or an administrator: the three paths differ
\* in who is asked, not in the row.
CreateRequest(r) ==
    /\ paymentRequest[r] = "none"
    /\ paymentRequest' = [paymentRequest EXCEPT ![r] = "open"]
    /\ UNCHANGED <<purchased, webhookVars, answer, spent>>

ReadRequest(a, r, action) ==
    /\ answer[a] = NoCall
    /\ paymentRequest[r] = "open"
    /\ answer' = [answer EXCEPT ![a] = [at |-> action, request |-> r]]
    /\ UNCHANGED <<purchased, webhookVars, paymentRequest, spent>>

\* Mutant: the update does not repeat the status.
RequestOpen_ById(r) == TRUE
\* updateMany where id and status open.
RequestOpen(r) == paymentRequest[r] = "open"

\* The status and chargeWithin in one transaction; a lost update is a 409.
PayRequest(a) ==
    /\ answer[a].at = "pay"
    /\ LET r == answer[a].request
       IN IF RequestOpen(r)
          THEN /\ paymentRequest' = [paymentRequest EXCEPT ![r] = "done"]
               /\ purchased' = purchased + Needed[r]
          ELSE UNCHANGED <<paymentRequest, purchased>>
    /\ answer' = [answer EXCEPT ![a] = NoCall]
    /\ UNCHANGED <<webhookVars, spent>>

RejectRequest(a) ==
    /\ answer[a].at = "reject"
    /\ LET r == answer[a].request
       IN paymentRequest' =
              IF RequestOpen(r) THEN [paymentRequest EXCEPT ![r] = "rejected"]
                              ELSE paymentRequest
    /\ answer' = [answer EXCEPT ![a] = NoCall]
    /\ UNCHANGED <<purchased, webhookVars, spent>>

\* A booking takes purchased credits (consumeWithin).
SpendPurchased ==
    /\ purchased > 0
    /\ purchased' = purchased - 1
    /\ spent' = spent + 1
    /\ UNCHANGED <<webhookVars, paymentRequest, answer>>

HandlerStep(h) ==
    \/ \E e \in Events : Deliver(h, e)
    \/ ReadPayment(h) \/ ApplyCharge(h) \/ ApplyRefund(h)
    \/ MarkEvent(h) \/ FailEvent(h) \/ HandlerDies(h)

RequestsNext ==
    \/ \E a \in Answers :
          \/ \E r \in Requests, action \in {"pay", "reject"} : ReadRequest(a, r, action)
          \/ PayRequest(a) \/ RejectRequest(a)
    \/ \E r \in Requests : CreateRequest(r)
    \/ SpendPurchased

PaymentsNext == RequestsNext \/ (\E h \in Handlers : HandlerStep(h))

PaymentsSpec == PaymentsInit /\ [][PaymentsNext]_paymentsVars

(****************************************************************************)
(* Properties.                                                              *)
(****************************************************************************)
AmountsNamed(type) ==
    {EventAmount[e] : e \in {f \in Events : EventType[f] = type}} \ {NoAmount}

Life == INSTANCE PaymentLife
            WITH balance <- purchased, state <- payment, asked <- paymentRequest,
                 crossed <- refundsCrossed,
                 Paid <- AmountsNamed("payment.paid"),
                 Returned <- AmountsNamed("payment.refunded")

\* The webhook and the payment requests keep the promise of PaymentLife:
\* whatever is delivered twice, out of order or cut short by a crash, a payment
\* is credited once, it is taken back once unless two refunds of it had both been
\* read before either was applied, and a request is paid once or rejected.
ImplementsPaymentLife == Life!LifeSpec

\* An event marked processed or ignored had its effect, or had none to have:
\* processed means that the ledger shows it; an ignored payment was credited by
\* another event or lacks its payer or amount; and a payment in the ledger has a
\* complete event that brought it, a refund one that took it back.
\* The reverse is not promised: a received or failed event stays unapplied.
EventsTellTheLedger ==
    \A e \in Events :
        LET found == payment[EventKey[e]]
        IN /\ paymentEvent[e] = "processed" =>
                 \/ EventType[e] = "payment.paid" /\ Complete(e) /\ found \in {"done", "refunded"}
                 \/ EventType[e] = "payment.refunded" /\ found = "refunded"
           /\ paymentEvent[e] = "ignored" /\ EventType[e] = "payment.paid" /\ Complete(e) =>
                 found \in {"done", "refunded"}
           /\ found # "none" =>
                 \E f \in Events : /\ EventType[f] = "payment.paid" /\ Complete(f)
                                   /\ EventKey[f] = EventKey[e]
                                   /\ paymentEvent[f] \in {"received", "processed", "failed"}
           /\ found = "refunded" =>
                 \E f \in Events : /\ EventType[f] = "payment.refunded"
                                   /\ EventKey[f] = EventKey[e]
                                   /\ paymentEvent[f] \in {"received", "processed", "failed"}

\* Purchased credits leave the account by being spent or by taking back a payment that
\* had not been taken back: refunded_at keeps a payment from being refunded twice.
TakenBackOnce ==
    [][purchased' < purchased =>
          \/ spent' > spent
          \/ \E k \in Keys : payment[k] = "done" /\ payment'[k] = "refunded"]_paymentsVars
=============================================================================
