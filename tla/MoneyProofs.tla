------------------------------ MODULE MoneyProofs ------------------------------
(****************************************************************************)
(* Payments, redemption codes, payroll and recurring billing: what holds of *)
(* them for every number of events, codes, subscriptions, students, passes  *)
(* and calls in flight.                                                     *)
(****************************************************************************)
EXTENDS Payments, Entitlements, Payroll, Subscriptions, FiniteSetTheorems, TLAPS

(****************************************************************************)
(* Payments.                                                                *)
(****************************************************************************)
HandlerRecords ==
    [at : {"idle"}]
    \cup [at : {"dispatch", "apply", "fail"}, event : Events]
    \cup [at : {"mark"}, event : Events, applied : BOOLEAN]

AnswerRecords == [at : {"idle"}] \cup [at : {"pay", "reject"}, request : Requests]

PaymentsTypeOK ==
    /\ purchased \in Nat /\ spent \in Nat
    /\ payment \in [Keys -> {"none", "done", "refunded"}]
    /\ worth \in [Keys -> Nat] /\ refundsCrossed \subseteq Keys
    /\ paymentEvent \in [Events -> {"none", "received", "processed", "ignored", "failed"}]
    /\ handler \in [Handlers -> HandlerRecords]
    /\ paymentRequest \in [Requests -> {"none", "open", "done", "rejected"}]
    /\ answer \in [Answers -> AnswerRecords]

Handling(h) == handler[h].at # "idle"
Found(e) == payment[EventKey[e]]

\* The INSERT of an event leaves it to one call, whose mark is the only one it gets.
OneHandlerPerEvent ==
    /\ \A h \in Handlers : Handling(h) => paymentEvent[handler[h].event] = "received"
    /\ \A g, h \in Handlers :
          Handling(g) /\ Handling(h) /\ handler[g].event = handler[h].event => g = h

\* Taken back already only if another refund of the payment was under way.
MayTakeBack(e) ==
    \/ Found(e) = "done"
    \/ Found(e) = "refunded" /\ EventKey[e] \in refundsCrossed

\* What a call read before the lock, as far as it still holds under it.
ReadingHolds ==
    \A h \in Handlers :
        LET e == handler[h].event
        IN /\ handler[h].at = "apply" =>
                 \/ EventType[e] = "payment.paid" /\ Complete(e)
                 \/ EventType[e] = "payment.refunded" /\ MayTakeBack(e)
           /\ handler[h].at = "mark" /\ handler[h].applied =>
                 \/ EventType[e] = "payment.paid" /\ Complete(e) /\ Found(e) \in {"done", "refunded"}
                 \/ EventType[e] = "payment.refunded" /\ Found(e) = "refunded"
           /\ /\ handler[h].at = "mark" /\ ~handler[h].applied
              /\ EventType[e] = "payment.paid" /\ Complete(e)
              => Found(e) \in {"done", "refunded"}

\* Of two calls that are about to take one payment back the later one saw the other.
CrossingsSeen ==
    \A k \in Keys : \A g, h \in Handlers :
        Refunding(g, k) /\ Refunding(h, k) /\ g # h => k \in refundsCrossed

MarksTell ==
    \A e \in Events :
        /\ paymentEvent[e] = "processed" =>
              \/ EventType[e] = "payment.paid" /\ Complete(e) /\ Found(e) \in {"done", "refunded"}
              \/ EventType[e] = "payment.refunded" /\ Found(e) = "refunded"
        /\ paymentEvent[e] = "ignored" /\ EventType[e] = "payment.paid" /\ Complete(e) =>
              Found(e) \in {"done", "refunded"}

\* An event that was applied: its call, if it lives, is about to say so.
Brought(e) ==
    /\ EventType[e] = "payment.paid" => Complete(e)
    /\ paymentEvent[e] \in {"received", "processed", "failed"}
    /\ \A h \in Handlers : Handling(h) /\ handler[h].event = e =>
          handler[h].at = "mark" /\ handler[h].applied

BroughtBy(k, type) == \E e \in Events : EventType[e] = type /\ EventKey[e] = k /\ Brought(e)

LedgerHasEvents ==
    \A k \in Keys :
        /\ payment[k] # "none" => BroughtBy(k, "payment.paid")
        /\ payment[k] = "refunded" => BroughtBy(k, "payment.refunded")

PaymentsInv ==
    /\ PaymentsTypeOK
    /\ OneHandlerPerEvent
    /\ ReadingHolds /\ CrossingsSeen
    /\ MarksTell
    /\ LedgerHasEvents

\* A call that handles an event has one.
LEMMA HandledEvent ==
    ASSUME PaymentsTypeOK, NEW h \in Handlers, Handling(h)
    PROVE  handler[h].event \in Events /\ EventKey[handler[h].event] \in Keys
  BY PaymentsAssumption DEF PaymentsTypeOK, HandlerRecords, Handling

\* The records of the webhook calls keep their shape.
LEMMA HandlerType ==
    ASSUME PaymentsTypeOK, ReadingHolds, NEW h \in Handlers, HandlerStep(h)
    PROVE  PaymentsTypeOK'
  <1>0. NoCall \in HandlerRecords
    BY DEF NoCall, HandlerRecords
  <1>1. ASSUME NEW e \in Events, Deliver(h, e) PROVE PaymentsTypeOK'
    BY <1>1 DEF Deliver, PaymentsTypeOK, HandlerRecords
  <1>2. CASE ReadPayment(h)
    <2>1. handler[h].event \in Events /\ EventKey[handler[h].event] \in Keys
      BY <1>2, HandledEvent DEF ReadPayment, Handling
    <2>2. /\ [at |-> "apply", event |-> handler[h].event] \in HandlerRecords
          /\ [at |-> "mark", event |-> handler[h].event, applied |-> FALSE] \in HandlerRecords
      BY <2>1 DEF HandlerRecords
    <2> QED BY <1>2, <2>1, <2>2 DEF ReadPayment, PaymentsTypeOK
  <1>3. CASE ApplyCharge(h)
    <2>1. handler[h].event \in Events /\ EventKey[handler[h].event] \in Keys
      BY <1>3, HandledEvent DEF ApplyCharge, Handling
    <2>2. /\ [at |-> "fail", event |-> handler[h].event] \in HandlerRecords
          /\ [at |-> "mark", event |-> handler[h].event, applied |-> TRUE] \in HandlerRecords
      BY <2>1 DEF HandlerRecords
    <2>3. EventAmount[handler[h].event] \in Nat
      BY <1>3, <2>1, PaymentsAssumption DEF ApplyCharge, ReadingHolds, Complete
    <2>4. purchased' \in Nat /\ worth' \in [Keys -> Nat]
      BY <1>3, <2>3 DEF ApplyCharge, PaymentsTypeOK
    <2>5. payment' \in [Keys -> {"none", "done", "refunded"}]
      BY <1>3, <2>1 DEF ApplyCharge, PaymentsTypeOK
    <2>6. handler' \in [Handlers -> HandlerRecords]
      BY <1>3, <2>2 DEF ApplyCharge, PaymentsTypeOK
    <2> QED BY <1>3, <2>4, <2>5, <2>6 DEF ApplyCharge, PaymentsTypeOK
  <1>4. CASE ApplyRefund(h)
    <2>1. handler[h].event \in Events /\ EventKey[handler[h].event] \in Keys
      BY <1>4, HandledEvent DEF ApplyRefund, Handling
    <2>2. [at |-> "mark", event |-> handler[h].event, applied |-> TRUE] \in HandlerRecords
      BY <2>1 DEF HandlerRecords
    <2>3. worth[EventKey[handler[h].event]] \in Nat /\ EventAmount[handler[h].event] \in Nat \cup {NoAmount}
      BY <2>1, PaymentsAssumption DEF PaymentsTypeOK
    <2>4. purchased' \in Nat
      BY <1>4, <2>3 DEF ApplyRefund, PaymentsTypeOK
    <2> QED BY <1>4, <2>1, <2>2, <2>4 DEF ApplyRefund, PaymentsTypeOK
  <1>5. CASE MarkEvent(h)
    BY <1>0, <1>5 DEF MarkEvent, Outcome, PaymentsTypeOK
  <1>6. CASE FailEvent(h)
    BY <1>0, <1>6 DEF FailEvent, PaymentsTypeOK
  <1>7. CASE HandlerDies(h)
    BY <1>0, <1>7 DEF HandlerDies, PaymentsTypeOK
  <1> QED BY <1>1, <1>2, <1>3, <1>4, <1>5, <1>6, <1>7 DEF HandlerStep

\* So do those of the payment requests.
LEMMA RequestsType ==
    ASSUME PaymentsTypeOK, RequestsNext
    PROVE  PaymentsTypeOK' /\ UNCHANGED webhookVars
  <1>0. NoCall \in AnswerRecords
    BY DEF NoCall, AnswerRecords
  <1>1. \A a \in Answers : answer[a].at \in {"pay", "reject"} => answer[a].request \in Requests
    BY DEF PaymentsTypeOK, AnswerRecords
  <1>2. ASSUME NEW a \in Answers, NEW r \in Requests, NEW action \in {"pay", "reject"},
               ReadRequest(a, r, action)
        PROVE  PaymentsTypeOK' /\ UNCHANGED webhookVars
    BY <1>2 DEF ReadRequest, webhookVars, PaymentsTypeOK, AnswerRecords
  <1>3. ASSUME NEW a \in Answers, PayRequest(a)
        PROVE  PaymentsTypeOK' /\ UNCHANGED webhookVars
    <2>1. answer[a].request \in Requests /\ Needed[answer[a].request] \in Nat
      BY <1>1, <1>3, PaymentsAssumption DEF PayRequest
    <2> QED BY <1>0, <1>3, <2>1 DEF PayRequest, PaymentsTypeOK, webhookVars
  <1>4. ASSUME NEW a \in Answers, RejectRequest(a)
        PROVE  PaymentsTypeOK' /\ UNCHANGED webhookVars
    BY <1>0, <1>4 DEF RejectRequest, webhookVars, PaymentsTypeOK
  <1>5. ASSUME NEW r \in Requests, CreateRequest(r)
        PROVE  PaymentsTypeOK' /\ UNCHANGED webhookVars
    BY <1>5 DEF CreateRequest, webhookVars, PaymentsTypeOK
  <1>6. CASE SpendPurchased
    BY <1>6 DEF SpendPurchased, webhookVars, PaymentsTypeOK
  <1> QED BY <1>2, <1>3, <1>4, <1>5, <1>6 DEF RequestsNext

\* What one webhook call becomes while the others stay, and crossings once seen.
Moves(h, to) ==
    /\ refundsCrossed \subseteq refundsCrossed'
    /\ handler'[h] = to
    /\ \A g \in Handlers \ {h} : handler'[g] = handler[g]

\* The steps of a call, by what they do to it, to its event and to the payment.
ClaimsEvent(h, e) ==
    /\ paymentEvent[e] = "none" /\ ~Handling(h)
    /\ paymentEvent' = [paymentEvent EXCEPT ![e] = "received"]
    /\ Moves(h, [at |-> "dispatch", event |-> e])
    /\ UNCHANGED payment
FindsWork(h, e) ==
    /\ handler[h].at = "dispatch"
    /\ \/ EventType[e] = "payment.paid" /\ Complete(e)
       \/ EventType[e] = "payment.refunded" /\ Found(e) = "done"
    /\ EventType[e] = "payment.refunded" /\ (\E g \in Handlers : Refunding(g, EventKey[e])) =>
          EventKey[e] \in refundsCrossed'
    /\ Moves(h, [at |-> "apply", event |-> e])
    /\ UNCHANGED <<payment, paymentEvent>>
FindsNone(h, e) ==
    /\ handler[h].at = "dispatch"
    /\ EventType[e] = "payment.paid" /\ Complete(e) => Found(e) # "none"
    /\ Moves(h, [at |-> "mark", event |-> e, applied |-> FALSE])
    /\ UNCHANGED <<payment, paymentEvent>>
Applies(h, e, to) ==
    /\ handler[h].at = "apply"
    /\ \/ EventType[e] = "payment.paid" /\ Found(e) = "none" /\ to = "done"
       \/ EventType[e] = "payment.refunded" /\ to = "refunded"
    /\ payment' = [payment EXCEPT ![EventKey[e]] = to]
    /\ Moves(h, [at |-> "mark", event |-> e, applied |-> TRUE])
    /\ UNCHANGED paymentEvent
IsRefused(h, e) ==
    /\ handler[h].at = "apply"
    /\ Moves(h, [at |-> "fail", event |-> e])
    /\ UNCHANGED <<payment, paymentEvent>>
Leaves(h, e) ==
    /\ Moves(h, [at |-> "idle"])
    /\ \/ /\ handler[h].at = "mark"
          /\ paymentEvent' = [paymentEvent EXCEPT ![e] =
                                  IF handler[h].applied THEN "processed" ELSE "ignored"]
       \/ paymentEvent' = [paymentEvent EXCEPT ![e] = "failed"]
       \/ UNCHANGED paymentEvent
    /\ UNCHANGED payment

\* These are the steps of a call, on an event that it claimed.
LEMMA HandlerSteps ==
    ASSUME PaymentsTypeOK, NEW h \in Handlers, HandlerStep(h)
    PROVE  \/ \E e \in Events : ClaimsEvent(h, e)
           \/ \E e \in Events :
                 /\ Handling(h) /\ handler[h].event = e /\ EventKey[e] \in Keys
                 /\ \/ FindsWork(h, e) \/ FindsNone(h, e) \/ IsRefused(h, e) \/ Leaves(h, e)
                    \/ \E to \in {"done", "refunded"} : Applies(h, e, to)
  <1>1. ASSUME NEW e \in Events, Deliver(h, e) PROVE ClaimsEvent(h, e)
    BY <1>1 DEF Deliver, PaymentsTypeOK, NoCall, Handling, Moves, ClaimsEvent
  <1>2. CASE \E e \in Events : Deliver(h, e)
    BY <1>1, <1>2
  <1>3. CASE Handling(h)
    <2> DEFINE e == handler[h].event
    <2>1. e \in Events /\ EventKey[e] \in Keys
      BY <1>3, HandledEvent
    <2>2. CASE ReadPayment(h)
      <3>1. Found(e) \in {"none", "done", "refunded"}
        BY <2>1 DEF PaymentsTypeOK, Found
      <3>2. FindsWork(h, e) \/ FindsNone(h, e)
        BY <2>1, <2>2, <3>1
           DEF ReadPayment, Due, PaymentsTypeOK, Moves, Found, FindsWork, FindsNone
      <3> QED BY <1>3, <2>1, <3>2
    <2>3. CASE ApplyCharge(h)
      <3>1. Applies(h, e, "done") \/ IsRefused(h, e)
        BY <2>1, <2>3 DEF ApplyCharge, KeyIsFree, PaymentsTypeOK, Moves, Found, Applies, IsRefused
      <3> QED BY <1>3, <2>1, <3>1
    <2>4. CASE ApplyRefund(h)
      <3>1. Applies(h, e, "refunded")
        BY <2>1, <2>4 DEF ApplyRefund, PaymentsTypeOK, Moves, Applies
      <3> QED BY <1>3, <2>1, <3>1
    <2>5. CASE MarkEvent(h)
      <3>1. Leaves(h, e)
        BY <2>5 DEF MarkEvent, Outcome, PaymentsTypeOK, Moves, NoCall, Leaves
      <3> QED BY <1>3, <2>1, <3>1
    <2>6. CASE FailEvent(h) \/ HandlerDies(h)
      <3>1. Leaves(h, e)
        BY <2>6 DEF FailEvent, HandlerDies, PaymentsTypeOK, Moves, NoCall, Leaves
      <3> QED BY <1>3, <2>1, <3>1
    <2>7. ASSUME NEW f \in Events PROVE ~Deliver(h, f)
      BY <1>3 DEF Deliver, NoCall, Handling
    <2> QED BY <2>2, <2>3, <2>4, <2>5, <2>6, <2>7 DEF HandlerStep
  <1>4. ASSUME ~Handling(h), \A e \in Events : ~Deliver(h, e) PROVE FALSE
    <2>1. handler[h] = NoCall
      BY <1>4 DEF PaymentsTypeOK, HandlerRecords, Handling, NoCall
    <2> QED BY <1>4, <2>1 DEF HandlerStep, ReadPayment, ApplyCharge, ApplyRefund, MarkEvent, FailEvent,
                              HandlerDies, NoCall
  <1> QED BY <1>2, <1>3, <1>4

\* A payment once credited is never uncredited, nor a refund undone, and what brought
\* them goes on saying so.
LEMMA BroughtForGood ==
    ASSUME PaymentsInv, PaymentsTypeOK', NEW h \in Handlers, HandlerStep(h)
    PROVE  /\ \A k \in Keys : /\ payment[k] # "none" => payment'[k] # "none"
                              /\ payment[k] = "refunded" => payment'[k] = "refunded"
           /\ \A f \in Events : Brought(f) => Brought(f)'
  <1>0. PaymentsTypeOK /\ OneHandlerPerEvent
    BY DEF PaymentsInv
  <1> USE DEF PaymentsTypeOK, Brought, Handling, Moves
  <1>1. CASE \E e \in Events : ClaimsEvent(h, e)
    BY <1>0, <1>1 DEF ClaimsEvent
  <1>2. ASSUME NEW e \in Events, Handling(h), handler[h].event = e, EventKey[e] \in Keys,
               FindsWork(h, e) \/ FindsNone(h, e) \/ IsRefused(h, e)
        PROVE  UNCHANGED payment /\ \A f \in Events : Brought(f) => Brought(f)'
    BY <1>2 DEF FindsWork, FindsNone, IsRefused
  <1>3. ASSUME NEW e \in Events, Handling(h), handler[h].event = e, Leaves(h, e)
        PROVE  UNCHANGED payment /\ \A f \in Events : Brought(f) => Brought(f)'
    <2>1. Brought(e) => handler[h].at = "mark" /\ handler[h].applied
      BY <1>3
    <2>2. paymentEvent[e] = "received"
      BY <1>0, <1>3 DEF OneHandlerPerEvent
    <2> QED BY <1>0, <1>3, <2>1, <2>2 DEF Leaves
  <1>4. ASSUME NEW e \in Events, Handling(h), handler[h].event = e, EventKey[e] \in Keys,
               NEW to \in {"done", "refunded"}, Applies(h, e, to)
        PROVE  /\ \A k \in Keys : /\ payment[k] # "none" => payment'[k] # "none"
                                  /\ payment[k] = "refunded" => payment'[k] = "refunded"
               /\ \A f \in Events : Brought(f) => Brought(f)'
    <2>1. \A f \in Events : Brought(f) => Brought(f)'
      BY <1>4 DEF Applies
    <2> QED BY <1>0, <1>4, <2>1 DEF Applies, Found
  <1> QED BY <1>0, <1>1, <1>2, <1>3, <1>4, HandlerSteps

\* What is credited or refunded was brought by an event of its kind, and still is.
LEMMA LedgerKept ==
    ASSUME PaymentsInv, PaymentsTypeOK', NEW h \in Handlers, HandlerStep(h),
           \A k \in Keys : /\ payment[k] = "none" /\ payment'[k] # "none" =>
                                 BroughtBy(k, "payment.paid")'
                           /\ payment[k] # "refunded" /\ payment'[k] = "refunded" =>
                                 BroughtBy(k, "payment.paid")' /\ BroughtBy(k, "payment.refunded")'
    PROVE  LedgerHasEvents'
  <1>1. \A k \in Keys : \A type : BroughtBy(k, type) => BroughtBy(k, type)'
    BY BroughtForGood DEF BroughtBy
  <1> QED BY <1>1 DEF PaymentsInv, LedgerHasEvents

\* An event is claimed, read, applied and marked by one call: nothing of what the call
\* read is lost before it writes, although no lock holds the payment in between.
LEMMA HandlerKeepsInv ==
    ASSUME PaymentsInv, NEW h \in Handlers, HandlerStep(h)
    PROVE  PaymentsInv'
  <1>0. /\ PaymentsTypeOK /\ PaymentsTypeOK' /\ OneHandlerPerEvent /\ ReadingHolds /\ CrossingsSeen
        /\ MarksTell /\ LedgerHasEvents
    BY HandlerType DEF PaymentsInv
  <1>a. \A g \in Handlers : Handling(g) => handler[g].event \in Events
    BY <1>0, HandledEvent
  <1>b. \A f \in Events : EventKey[f] \in Keys /\ Found(f) \in {"none", "done", "refunded"}
    BY <1>0, PaymentsAssumption DEF PaymentsTypeOK, Found
  <1> USE DEF Handling, Moves
  <1>1. ASSUME NEW e \in Events, ClaimsEvent(h, e) PROVE PaymentsInv'
    <2>1. \A g \in Handlers : Handling(g) => handler[g].event # e /\ g # h
      BY <1>0, <1>1 DEF ClaimsEvent, OneHandlerPerEvent
    <2>2. OneHandlerPerEvent'
      BY <1>0, <1>1, <1>a, <2>1 DEF ClaimsEvent, OneHandlerPerEvent, PaymentsTypeOK
    <2>3. ReadingHolds'
      BY <1>0, <1>1 DEF ClaimsEvent, ReadingHolds, Found, MayTakeBack
    <2>6. CrossingsSeen'
      BY <1>0, <1>1 DEF ClaimsEvent, CrossingsSeen, Refunding
    <2>4. MarksTell'
      BY <1>0, <1>1 DEF ClaimsEvent, MarksTell, Found, PaymentsTypeOK
    <2>5. LedgerHasEvents'
      BY <1>0, <1>1, LedgerKept DEF ClaimsEvent
    <2> QED BY <1>0, <2>2, <2>3, <2>4, <2>5, <2>6 DEF PaymentsInv
  <1>2. ASSUME NEW e \in Events, Handling(h), handler[h].event = e,
               FindsWork(h, e) \/ FindsNone(h, e) \/ IsRefused(h, e)
        PROVE  PaymentsInv'
    <2>1. UNCHANGED <<payment, paymentEvent>>
      BY <1>2 DEF FindsWork, FindsNone, IsRefused
    <2>2. OneHandlerPerEvent'
      BY <1>0, <1>2 DEF FindsWork, FindsNone, IsRefused, OneHandlerPerEvent
    <2>3. ReadingHolds'
      BY <1>0, <1>b, <1>2 DEF FindsWork, FindsNone, IsRefused, ReadingHolds, Found, MayTakeBack
    <2>6. CrossingsSeen'
      BY <1>0, <1>2 DEF FindsWork, FindsNone, IsRefused, CrossingsSeen, Refunding
    <2>4. MarksTell'
      BY <1>0, <2>1 DEF MarksTell, Found
    <2>5. LedgerHasEvents'
      BY <1>0, <2>1, LedgerKept
    <2> QED BY <1>0, <2>2, <2>3, <2>4, <2>5, <2>6 DEF PaymentsInv
  <1>3. ASSUME NEW e \in Events, Handling(h), handler[h].event = e, Leaves(h, e)
        PROVE  PaymentsInv'
    <2>1. UNCHANGED payment /\ \A g \in Handlers \ {h} : Handling(g) => handler[g].event # e
      BY <1>0, <1>3 DEF Leaves, OneHandlerPerEvent
    <2>2. OneHandlerPerEvent'
      BY <1>0, <1>3, <1>a, <2>1 DEF Leaves, OneHandlerPerEvent, PaymentsTypeOK
    <2>3. ReadingHolds'
      BY <1>0, <1>3 DEF Leaves, ReadingHolds, Found, MayTakeBack
    <2>6. CrossingsSeen'
      BY <1>0, <1>3 DEF Leaves, CrossingsSeen, Refunding
    <2>4. MarksTell'
      <3>1. /\ paymentEvent'[e] = "processed" => handler[h].at = "mark" /\ handler[h].applied
            /\ paymentEvent'[e] = "ignored" => handler[h].at = "mark" /\ ~handler[h].applied
        <4>1. paymentEvent[e] = "received"
          BY <1>0, <1>3 DEF OneHandlerPerEvent
        <4> QED BY <1>0, <1>3, <4>1 DEF Leaves, PaymentsTypeOK
      <3>2. \A f \in Events \ {e} : paymentEvent'[f] = paymentEvent[f]
        BY <1>0, <1>3 DEF Leaves, PaymentsTypeOK
      <3> QED BY <1>0, <1>3, <2>1, <3>1, <3>2 DEF MarksTell, ReadingHolds, Found
    <2>5. LedgerHasEvents'
      BY <1>0, <2>1, LedgerKept
    <2> QED BY <1>0, <2>2, <2>3, <2>4, <2>5, <2>6 DEF PaymentsInv
  <1>4. ASSUME NEW e \in Events, Handling(h), handler[h].event = e,
               NEW to \in {"done", "refunded"}, Applies(h, e, to)
        PROVE  PaymentsInv'
    <2> DEFINE k == EventKey[e]
    <2>1. /\ payment[k] # "none" => payment'[k] # "none"
          /\ payment'[k] = to /\ \A j \in Keys \ {k} : payment'[j] = payment[j]
          /\ to = "done" => payment[k] = "none" /\ EventType[e] = "payment.paid" /\ Complete(e)
          /\ to = "refunded" => payment[k] # "none" /\ EventType[e] = "payment.refunded"
      BY <1>0, <1>4, <1>b DEF Applies, PaymentsTypeOK, Found, ReadingHolds, MayTakeBack
    <2>2. OneHandlerPerEvent'
      BY <1>0, <1>4 DEF Applies, OneHandlerPerEvent
    <2>3. \A f \in Events : /\ Found(f) # "none" => Found(f)' # "none"
                            /\ Found(f) = "refunded" => Found(f)' = "refunded"
                            /\ Found(f)' \in {"none", "done", "refunded"}
      BY <1>0, <1>b, <2>1, PaymentsAssumption DEF Found, PaymentsTypeOK
    \* Another refund of the payment in the hands of a call has crossed this one.
    <2>4. ASSUME NEW g \in Handlers \ {h}, NEW f \in Events, handler[g].event = f,
                 handler[g].at = "apply", EventType[f] = "payment.refunded"
          PROVE  MayTakeBack(f)'
      <3>1. MayTakeBack(f) /\ EventKey[f] \in Keys
        BY <1>0, <1>b, <2>4 DEF ReadingHolds
      <3>2. CASE EventKey[f] = k
        <4>1. to = "refunded"
          BY <2>1, <3>1, <3>2 DEF MayTakeBack, Found
        <4>2. Refunding(g, k) /\ Refunding(h, k)
          BY <1>4, <2>1, <2>4, <3>2, <4>1 DEF Applies, Refunding
        <4>3. k \in refundsCrossed
          BY <1>0, <1>4, <3>1, <3>2, <4>2 DEF CrossingsSeen
        <4> QED BY <1>4, <2>1, <3>2, <4>1, <4>3 DEF Applies, MayTakeBack, Found
      <3>3. CASE EventKey[f] # k
        BY <1>4, <2>1, <3>1, <3>3 DEF Applies, MayTakeBack, Found
      <3> QED BY <3>2, <3>3
    <2>5. ReadingHolds'
      <3>1. ASSUME NEW g \in Handlers \ {h}, NEW f \in Events, handler[g].event = f
            PROVE  /\ handler[g].at = "apply" =>
                         \/ EventType[f] = "payment.paid" /\ Complete(f)
                         \/ EventType[f] = "payment.refunded" /\ MayTakeBack(f)'
                   /\ handler[g].at = "mark" /\ handler[g].applied =>
                         \/ EventType[f] = "payment.paid" /\ Complete(f) /\ Found(f)' \in {"done", "refunded"}
                         \/ EventType[f] = "payment.refunded" /\ Found(f)' = "refunded"
                   /\ /\ handler[g].at = "mark" /\ ~handler[g].applied
                      /\ EventType[f] = "payment.paid" /\ Complete(f)
                      => Found(f)' \in {"done", "refunded"}
        <4>1. CASE handler[g].at = "apply"
          BY <1>0, <2>4, <3>1, <4>1 DEF ReadingHolds
        <4>2. CASE handler[g].at # "apply"
          BY <1>0, <1>b, <2>3, <3>1, <4>2 DEF ReadingHolds
        <4> QED BY <4>1, <4>2
      <3>2. \/ EventType[e] = "payment.paid" /\ Complete(e) /\ Found(e)' \in {"done", "refunded"}
            \/ EventType[e] = "payment.refunded" /\ Found(e)' = "refunded"
        BY <2>1 DEF Found
      <3>3. /\ handler'[h] = [at |-> "mark", event |-> e, applied |-> TRUE]
            /\ \A g \in Handlers \ {h} : handler'[g] = handler[g]
        BY <1>4 DEF Applies
      <3> QED BY <1>a, <3>1, <3>2, <3>3 DEF ReadingHolds, Found
    <2>12. CrossingsSeen'
      BY <1>0, <1>4 DEF Applies, CrossingsSeen, Refunding
    <2>6. MarksTell'
      BY <1>0, <1>4, <2>3 DEF Applies, MarksTell
    <2>7. Brought(e)'
      BY <1>0, <1>4, <2>1, <2>2 DEF Applies, OneHandlerPerEvent, Brought
    <2>8. to = "refunded" => BroughtBy(k, "payment.paid")'
      <3>1. to = "refunded" => BroughtBy(k, "payment.paid")
        BY <1>0, <1>b, <2>1 DEF LedgerHasEvents
      <3> QED BY <1>0, <3>1, BroughtForGood DEF BroughtBy
    <2>9. to = "done" => BroughtBy(k, "payment.paid")'
      BY <2>1, <2>7 DEF BroughtBy
    <2>10. to = "refunded" => BroughtBy(k, "payment.refunded")'
      BY <2>1, <2>7 DEF BroughtBy
    <2>11. LedgerHasEvents'
      BY <1>0, <2>1, <2>8, <2>9, <2>10, LedgerKept
    <2> QED BY <1>0, <2>2, <2>5, <2>6, <2>11, <2>12 DEF PaymentsInv
  <1> QED BY <1>0, <1>1, <1>2, <1>3, <1>4, HandlerSteps

\* Every step of the payments keeps what the event rows tell: only deliveries write them.
LEMMA PaymentsStep ==
    ASSUME PaymentsInv, [PaymentsNext]_paymentsVars
    PROVE  PaymentsInv'
  <1>1. ASSUME PaymentsTypeOK', UNCHANGED webhookVars PROVE PaymentsInv'
    BY <1>1 DEF webhookVars, PaymentsInv, OneHandlerPerEvent, ReadingHolds, MayTakeBack, CrossingsSeen,
                Refunding, MarksTell, LedgerHasEvents, BroughtBy, Brought, Handling, Found
  <1>2. CASE RequestsNext
    BY <1>1, <1>2, RequestsType DEF PaymentsInv
  <1>3. ASSUME NEW h \in Handlers, HandlerStep(h) PROVE PaymentsInv'
    BY <1>3, HandlerKeepsInv
  <1>4. CASE UNCHANGED paymentsVars
    BY <1>1, <1>4 DEF paymentsVars, webhookVars, PaymentsInv, PaymentsTypeOK
  <1> QED BY <1>2, <1>3, <1>4 DEF PaymentsNext

\* It holds of the empty tables.
LEMMA PaymentsStart == PaymentsInit => PaymentsInv
  BY DEF PaymentsInit, PaymentsInv, PaymentsTypeOK, HandlerRecords, AnswerRecords, NoCall,
         OneHandlerPerEvent, ReadingHolds, CrossingsSeen, Refunding, MarksTell, LedgerHasEvents,
         Handling, Found

\* What the status of an event says of the ledger is true, for every number of events,
\* payments and calls, delivered and cut short in any order.
THEOREM EventsAlwaysTell == PaymentsSpec => []EventsTellTheLedger
  <1>1. PaymentsInv /\ [PaymentsNext]_paymentsVars => PaymentsInv'
    BY PaymentsStep
  <1>2. PaymentsInv => EventsTellTheLedger
    BY PaymentsAssumption
       DEF PaymentsInv, EventsTellTheLedger, MarksTell, LedgerHasEvents, BroughtBy, Brought, Found
  <1> QED BY <1>1, <1>2, PaymentsStart, PTL DEF PaymentsSpec

\* A webhook call credits a payment, takes one back, sees that another refund of it
\* is under way, or changes nothing of the account.
LEMMA HandlerImplements ==
    ASSUME PaymentsInv, NEW h \in Handlers, HandlerStep(h)
    PROVE  [Life!LifeNext]_Life!lifeVars
  <1>0. PaymentsTypeOK /\ ReadingHolds
    BY DEF PaymentsInv
  <1> USE DEF Life!lifeVars
  <1>1. CASE \/ \E e \in Events : Deliver(h, e)
             \/ MarkEvent(h) \/ FailEvent(h) \/ HandlerDies(h)
    BY <1>1 DEF Deliver, MarkEvent, FailEvent, HandlerDies
  <1> DEFINE e == handler[h].event
             k == EventKey[e]
  <1>2. handler[h].at \in {"dispatch", "apply"} => e \in Events /\ k \in Keys
    BY <1>0, HandledEvent DEF Handling
  <1>5. CASE ReadPayment(h)
    <2>1. CASE refundsCrossed' = refundsCrossed
      BY <1>5, <2>1 DEF ReadPayment
    <2>2. CASE refundsCrossed' # refundsCrossed
      <3>1. Life!Cross(k)
        BY <1>5, <2>2 DEF ReadPayment, Due, Life!Cross
      <3> QED BY <1>2, <1>5, <3>1 DEF ReadPayment, Life!LifeNext
    <2> QED BY <2>1, <2>2
  <1>3. CASE ApplyCharge(h)
    <2>1. CASE payment[k] = "none"
      <3>1. EventAmount[e] \in AmountsNamed("payment.paid") \ {0}
        BY <1>0, <1>2, <1>3 DEF ApplyCharge, ReadingHolds, Complete, AmountsNamed
      <3>2. Life!Credit(k)
        BY <1>3, <2>1, <3>1 DEF ApplyCharge, KeyIsFree, Life!Credit
      <3> QED BY <1>2, <1>3, <3>2 DEF ApplyCharge, Life!LifeNext
    <2>2. CASE payment[k] # "none"
      BY <1>3, <2>2 DEF ApplyCharge, KeyIsFree
    <2> QED BY <2>1, <2>2
  <1>4. CASE ApplyRefund(h)
    <2>1. payment[k] = "done" \/ (payment[k] = "refunded" /\ k \in refundsCrossed)
      BY <1>0, <1>4 DEF ApplyRefund, ReadingHolds, MayTakeBack, Found
    <2> DEFINE n == IF EventAmount[e] = NoAmount THEN worth[k] ELSE EventAmount[e]
    <2>2. n \in AmountsNamed("payment.refunded") \cup {worth[k]}
      BY <1>2, <1>4 DEF ApplyRefund, AmountsNamed
    <2>3. purchased' = IF n < purchased THEN purchased - n ELSE 0
      BY <1>4 DEF ApplyRefund
    <2> HIDE DEF n
    <2>4. Life!GiveBack(k)
      BY <1>4, <2>1, <2>2, <2>3 DEF ApplyRefund, Life!GiveBack
    <2> QED BY <1>2, <1>4, <2>4 DEF ApplyRefund, Life!LifeNext
  <1> QED BY <1>1, <1>3, <1>4, <1>5 DEF HandlerStep

\* A payment request is asked for, paid or rejected, or nothing of it changes.
LEMMA RequestsImplement ==
    ASSUME PaymentsTypeOK, RequestsNext
    PROVE  [Life!LifeNext]_Life!lifeVars
  <1> USE DEF Life!lifeVars, webhookVars
  <1>1. \A a \in Answers : answer[a].at \in {"pay", "reject"} => answer[a].request \in Requests
    BY DEF PaymentsTypeOK, AnswerRecords
  <1>2. ASSUME NEW a \in Answers, NEW r \in Requests, NEW action \in {"pay", "reject"},
               ReadRequest(a, r, action)
        PROVE  [Life!LifeNext]_Life!lifeVars
    BY <1>2 DEF ReadRequest
  <1>3. ASSUME NEW a \in Answers, PayRequest(a) PROVE [Life!LifeNext]_Life!lifeVars
    <2> DEFINE r == answer[a].request
    <2>1. r \in Requests
      BY <1>1, <1>3 DEF PayRequest
    <2>2. CASE RequestOpen(r)
      <3>1. Life!Pay(r)
        BY <1>3, <2>2 DEF PayRequest, RequestOpen, Life!Pay
      <3> QED BY <2>1, <3>1 DEF Life!LifeNext
    <2>3. CASE ~RequestOpen(r)
      BY <1>3, <2>3 DEF PayRequest
    <2> QED BY <2>2, <2>3
  <1>4. ASSUME NEW a \in Answers, RejectRequest(a) PROVE [Life!LifeNext]_Life!lifeVars
    <2> DEFINE r == answer[a].request
    <2>1. r \in Requests
      BY <1>1, <1>4 DEF RejectRequest
    <2>2. CASE RequestOpen(r)
      <3>1. Life!Decline(r)
        BY <1>4, <2>2 DEF RejectRequest, RequestOpen, Life!Decline
      <3> QED BY <2>1, <3>1 DEF Life!LifeNext
    <2>3. CASE ~RequestOpen(r)
      BY <1>4, <2>3 DEF RejectRequest
    <2> QED BY <2>2, <2>3
  <1>5. ASSUME NEW r \in Requests, CreateRequest(r) PROVE [Life!LifeNext]_Life!lifeVars
    <2>1. Life!Ask(r)
      BY <1>5 DEF CreateRequest, Life!Ask
    <2> QED BY <2>1 DEF Life!LifeNext
  <1>6. CASE SpendPurchased
    BY <1>6 DEF SpendPurchased, Life!LifeNext, Life!Spend
  <1> QED BY <1>2, <1>3, <1>4, <1>5, <1>6 DEF RequestsNext

\* The webhook and the payment requests implement PaymentLife: each payment is credited
\* once, is taken back once unless two of its refunds were under way at once, and each
\* request is paid once or rejected, whatever is delivered twice, late or cut short, for
\* every number of payments and calls.
THEOREM PaymentsImplementLife == PaymentsSpec => ImplementsPaymentLife
  <1>1. PaymentsInit => Life!LifeInit
    BY DEF PaymentsInit, Life!LifeInit
  <1>2. PaymentsInv /\ [PaymentsNext]_paymentsVars => PaymentsInv'
    BY PaymentsStep
  <1>3. PaymentsInv /\ [PaymentsNext]_paymentsVars => [Life!LifeNext]_Life!lifeVars
    <2> SUFFICES ASSUME PaymentsInv, [PaymentsNext]_paymentsVars
                 PROVE  [Life!LifeNext]_Life!lifeVars
      OBVIOUS
    <2>1. CASE RequestsNext
      BY <2>1, RequestsImplement DEF PaymentsInv
    <2>2. ASSUME NEW h \in Handlers, HandlerStep(h) PROVE [Life!LifeNext]_Life!lifeVars
      BY <2>2, HandlerImplements
    <2>3. CASE UNCHANGED paymentsVars
      BY <2>3 DEF paymentsVars, Life!lifeVars
    <2> QED BY <2>1, <2>2, <2>3 DEF PaymentsNext
  <1> QED BY <1>1, <1>2, <1>3, PaymentsStart, PTL DEF PaymentsSpec, ImplementsPaymentLife, Life!LifeSpec

(****************************************************************************)
(* Redemption codes and the notices of what expires.                        *)
(****************************************************************************)
RedeemRecords ==
    [at : {"idle"}] \cup [at : {"claim", "grant"}, by : Accounts, code : Codes]

EntitlementsTypeOK ==
    /\ redeemedBy \in [Codes -> Accounts \cup {Nobody}]
    /\ redeem \in [Redeemers -> RedeemRecords]

\* A code that is claimed is granted once by the call that claimed it, so long as the
\* call lives; nothing else grants it.
CodesInv ==
    /\ EntitlementsTypeOK
    /\ CodeIsOneGrant
    /\ \A c \in Codes : redeemedBy[c] = Nobody => FromCode(c) = {}
    /\ \A r \in Redeemers : redeem[r].at = "grant" =>
          /\ redeemedBy[redeem[r].code] = redeem[r].by
          /\ FromCode(redeem[r].code) = {}
    /\ \A q, r \in Redeemers :
          redeem[q].at = "grant" /\ redeem[r].at = "grant" /\ redeem[q].code = redeem[r].code => q = r

\* A check is idle, or it has the rows it listed and the owners it has not told yet.
NoticesTypeOK ==
    /\ expiry = [j \in ExpiryJobs |-> expiry[j]]
    /\ \A j \in ExpiryJobs :
          expiry[j].at = "notify" =>
             expiry[j] = [at |-> "notify", due |-> expiry[j].due, left |-> expiry[j].left]

\* A check that is sending has told the owners it has struck off its list.
NoticesInv ==
    /\ NoticesTypeOK
    /\ MarkedIsTold
    /\ \A j \in ExpiryJobs : expiry[j].at = "notify" =>
          \A e \in expiry[j].due : e.owner \in expiry[j].left \/ e \in announced

\* A grant for a code adds the rows of that code and of no other.
LEMMA GrantAddsItsRows ==
    ASSUME NEW c \in Codes, NEW a \in Accounts,
           entitled' = entitled \cup GrantRows(a, CodeProduct[c], "redemption", c, GrantDays[c])
    PROVE  /\ FromCode(c)' = FromCode(c) \cup GrantRows(a, CodeProduct[c], "redemption", c, GrantDays[c])
           /\ \A d \in Codes \ {c} : FromCode(d)' = FromCode(d)
           /\ GrantRows(a, CodeProduct[c], "redemption", c, GrantDays[c]) # {}
  <1>1. \A e \in GrantRows(a, CodeProduct[c], "redemption", c, GrantDays[c]) :
            e.source = "redemption" /\ e.of = c
    BY DEF GrantRows
  <1>2. Products[CodeProduct[c]] # {}
    BY EntitlementsAssumption
  <1>3. GrantRows(a, CodeProduct[c], "redemption", c, GrantDays[c]) # {}
    BY <1>2 DEF GrantRows
  <1> QED BY <1>1, <1>3 DEF FromCode

\* Two calls that read a code unclaimed are told apart by the claim.
LEMMA CodesStep ==
    ASSUME CodesInv, [EntitlementsNext]_entitlementsVars
    PROVE  CodesInv'
  <1>0. EntitlementsTypeOK /\ NoWork \in RedeemRecords /\ NoWork.at = "idle"
    BY DEF CodesInv, NoWork, RedeemRecords
  <1> USE DEF entitlementRows
  <1>1. ASSUME UNCHANGED <<entitled, redeemedBy, redeem, unredeemed>> PROVE CodesInv'
    BY <1>1 DEF CodesInv, EntitlementsTypeOK, CodeIsOneGrant, FromCode
  <1>2. ASSUME NEW r \in Redeemers, NEW a \in Accounts, NEW c \in Codes, ReadCode(r, a, c)
        PROVE  CodesInv'
    <2>1. /\ redeem' = [redeem EXCEPT ![r] = [at |-> "claim", by |-> a, code |-> c]]
          /\ redeem[r].at = "idle"
          /\ UNCHANGED <<entitled, redeemedBy, unredeemed>>
      BY <1>2 DEF ReadCode, NoWork
    <2>2. EntitlementsTypeOK'
      BY <1>0, <2>1 DEF EntitlementsTypeOK, RedeemRecords
    <2>3. \A q \in Redeemers : redeem'[q].at = "grant" => redeem'[q] = redeem[q]
      BY <1>0, <2>1 DEF EntitlementsTypeOK
    <2>4. CodeIsOneGrant'
      BY <1>0, <2>1, <2>2 DEF CodesInv, CodeIsOneGrant, FromCode, EntitlementsTypeOK
    <2> QED BY <2>1, <2>2, <2>3, <2>4 DEF CodesInv, FromCode
  <1>3. ASSUME NEW r \in Redeemers, ClaimCode(r) PROVE CodesInv'
    <2> DEFINE c == redeem[r].code
    <2>1. c \in Codes /\ redeem[r].by \in Accounts /\ redeem[r].at = "claim"
      BY <1>0, <1>3 DEF ClaimCode, EntitlementsTypeOK, RedeemRecords
    <2>2. CASE redeemedBy[c] = Nobody
      <3>1. [redeem[r] EXCEPT !.at = "grant"] = [at |-> "grant", by |-> redeem[r].by, code |-> c]
        <4>1. redeem[r] \in [at : {"claim", "grant"}, by : Accounts, code : Codes]
          BY <1>0, <2>1 DEF EntitlementsTypeOK, RedeemRecords
        <4> QED BY <4>1
      <3>2. /\ redeemedBy' = [redeemedBy EXCEPT ![c] = redeem[r].by]
            /\ redeem' = [redeem EXCEPT ![r] = [at |-> "grant", by |-> redeem[r].by, code |-> c]]
            /\ UNCHANGED <<entitled, unredeemed>>
        BY <1>3, <2>2, <3>1 DEF ClaimCode, Unclaimed
      <3>3. EntitlementsTypeOK'
        BY <1>0, <2>1, <3>2 DEF EntitlementsTypeOK, RedeemRecords
      <3>4. FromCode(c) = {} /\ \A d \in Codes : FromCode(d)' = FromCode(d)
        BY <2>1, <2>2, <3>2 DEF CodesInv, FromCode
      <3>5. /\ redeem'[r] = [at |-> "grant", by |-> redeem[r].by, code |-> c]
            /\ \A q \in Redeemers \ {r} : redeem'[q] = redeem[q]
            /\ redeemedBy'[c] = redeem[r].by
            /\ \A d \in Codes \ {c} : redeemedBy'[d] = redeemedBy[d]
        BY <1>0, <2>1, <3>2 DEF EntitlementsTypeOK
      <3>6. \A q \in Redeemers : redeem[q].at = "grant" =>
                redeem[q].code # c /\ redeem[q].code \in Codes
        BY <1>0, <2>2, EntitlementsAssumption DEF CodesInv, EntitlementsTypeOK, RedeemRecords
      <3>7. CodeIsOneGrant'
        BY <3>2, <3>4, <3>5, <2>1 DEF CodesInv, CodeIsOneGrant
      <3>8. redeem[r].by # Nobody
        BY <2>1, EntitlementsAssumption
      <3> QED BY <2>1, <3>3, <3>4, <3>5, <3>6, <3>7, <3>8 DEF CodesInv
    <2>3. CASE redeemedBy[c] # Nobody
      <3>1. /\ redeem' = [redeem EXCEPT ![r] = NoWork]
            /\ UNCHANGED <<entitled, redeemedBy, unredeemed>>
        BY <1>3, <2>3 DEF ClaimCode, Unclaimed
      <3>2. \A q \in Redeemers : /\ redeem'[q].at = "grant" => redeem'[q] = redeem[q]
                                 /\ redeem[q].at = "grant" => redeem'[q] = redeem[q]
        BY <1>0, <2>1, <3>1 DEF EntitlementsTypeOK
      <3>3. EntitlementsTypeOK'
        BY <1>0, <3>1 DEF EntitlementsTypeOK
      <3>4. CodeIsOneGrant'
        BY <3>1, <3>2 DEF CodesInv, CodeIsOneGrant, FromCode
      <3> QED BY <3>1, <3>2, <3>3, <3>4 DEF CodesInv, FromCode
    <2> QED BY <2>2, <2>3
  <1>4. ASSUME NEW r \in Redeemers, NEW c \in Codes, NEW a \in Accounts,
               redeem[r].code = c, redeem[r].by = a, GrantCode(r)
        PROVE  CodesInv'
    <2> DEFINE rows == GrantRows(a, CodeProduct[c], "redemption", c, GrantDays[c])
    <2>1. redeem[r].at = "grant"
      BY <1>4 DEF GrantCode
    <2>2. /\ entitled' = entitled \cup rows
          /\ redeem' = [redeem EXCEPT ![r] = NoWork]
          /\ UNCHANGED <<redeemedBy, unredeemed>>
      BY <1>4 DEF GrantCode
    <2>3. /\ FromCode(c)' = rows /\ rows # {}
          /\ \A d \in Codes \ {c} : FromCode(d)' = FromCode(d)
      BY <1>4, <2>1, <2>2, GrantAddsItsRows DEF CodesInv
    <2>4. /\ redeem'[r].at = "idle"
          /\ \A q \in Redeemers \ {r} : /\ redeem'[q] = redeem[q]
                                        /\ redeem[q].at = "grant" => redeem[q].code # c
      BY <1>0, <1>4, <2>1, <2>2 DEF EntitlementsTypeOK, CodesInv, NoWork
    <2>5. EntitlementsTypeOK'
      BY <1>0, <2>2 DEF EntitlementsTypeOK
    <2>6. redeemedBy[c] = a /\ redeemedBy[c] # Nobody
      BY <1>4, <2>1, EntitlementsAssumption DEF CodesInv
    <2> HIDE DEF rows
    <2>7. CodeIsOneGrant'
      <3>1. FromCode(c)' = GrantRows(redeemedBy'[c], CodeProduct[c], "redemption", c, GrantDays[c])
        BY <2>2, <2>3, <2>6 DEF rows
      <3>2. \A q \in Redeemers : redeem[q].at = "grant" /\ redeem[q].code # c =>
                redeem'[q] = redeem[q]
        BY <1>4, <2>4
      <3>3. FromCode(c)' # {}
        BY <2>3
      <3>4. \A d \in Codes \ {c} : redeemedBy'[d] = redeemedBy[d] /\ FromCode(d)' = FromCode(d)
        BY <2>2, <2>3
      <3> QED BY <2>2, <3>1, <3>2, <3>3, <3>4 DEF CodesInv, CodeIsOneGrant
    <2>8. \A q \in Redeemers : redeem'[q].at = "grant" =>
              redeem'[q] = redeem[q] /\ redeem[q].code \in Codes \ {c}
      BY <1>0, <2>4 DEF EntitlementsTypeOK, RedeemRecords
    <2> QED BY <2>1, <2>2, <2>3, <2>5, <2>6, <2>7, <2>8 DEF CodesInv
  <1>5. ASSUME NEW r \in Redeemers, RedeemEnds(r) PROVE CodesInv'
    <2>1. /\ redeem' = [redeem EXCEPT ![r] = NoWork]
          /\ unredeemed' = IF redeem[r].at = "grant" THEN unredeemed \cup {redeem[r].code} ELSE unredeemed
          /\ UNCHANGED <<entitled, redeemedBy>>
      BY <1>5 DEF RedeemEnds
    <2>2. \A q \in Redeemers : redeem'[q].at = "grant" => redeem'[q] = redeem[q]
      BY <1>0, <2>1 DEF EntitlementsTypeOK
    <2>3. EntitlementsTypeOK'
      BY <1>0, <2>1 DEF EntitlementsTypeOK
    <2>4. \A q \in Redeemers : redeem[q].at = "grant" =>
              redeem'[q] = redeem[q] \/ redeem[q].code \in unredeemed'
      BY <1>0, <2>1 DEF EntitlementsTypeOK
    <2>5. CodeIsOneGrant'
      BY <2>1, <2>4 DEF CodesInv, CodeIsOneGrant, FromCode
    <2> QED BY <2>1, <2>2, <2>3, <2>5 DEF CodesInv, FromCode
  <1>6. CASE (\E e \in entitled : RevokeRow(e)) \/ EntitlementDay \/ UNCHANGED entitlementsVars
    BY <1>1, <1>6 DEF RevokeRow, EntitlementDay, entitlementsVars
  <1>7. ASSUME NEW j \in ExpiryJobs, \/ ListExpiring(j) \/ MarkNotified(j) \/ ExpiryDies(j)
                                     \/ \E a \in Accounts : NotifyOwner(j, a)
        PROVE  CodesInv'
    BY <1>1, <1>7 DEF ListExpiring, MarkNotified, ExpiryDies, NotifyOwner
  <1>8. \A r \in Redeemers : GrantCode(r) => redeem[r].code \in Codes /\ redeem[r].by \in Accounts
    BY <1>0 DEF GrantCode, EntitlementsTypeOK, RedeemRecords
  <1> QED BY <1>2, <1>3, <1>4, <1>5, <1>6, <1>7, <1>8 DEF EntitlementsNext

\* A check marks what it listed only when it has told every owner on the list.
LEMMA NoticesStep ==
    ASSUME NoticesInv, [EntitlementsNext]_entitlementsVars
    PROVE  NoticesInv'
  <1> USE DEF entitlementRows
  <1>1. ASSUME UNCHANGED <<marked, expiry, announced>> PROVE NoticesInv'
    BY <1>1 DEF NoticesInv, NoticesTypeOK, MarkedIsTold
  <1>2. ASSUME NEW j \in ExpiryJobs, ListExpiring(j) PROVE NoticesInv'
    <2> DEFINE list == [at |-> "notify", due |-> ExpiryDue, left |-> {e.owner : e \in ExpiryDue}]
    <2>1. expiry' = [expiry EXCEPT ![j] = list] /\ UNCHANGED <<marked, announced>>
      BY <1>2 DEF ListExpiring
    <2>2. \A e \in list.due : e.owner \in list.left
      OBVIOUS
    <2>3. list = [at |-> "notify", due |-> list.due, left |-> list.left]
      OBVIOUS
    <2> HIDE DEF list
    <2>4. expiry'[j] = list /\ \A i \in ExpiryJobs \ {j} : expiry'[i] = expiry[i]
      BY <2>1 DEF NoticesInv, NoticesTypeOK
    <2>5. NoticesTypeOK'
      BY <2>1, <2>3, <2>4 DEF NoticesInv, NoticesTypeOK
    <2> QED BY <2>1, <2>2, <2>4, <2>5 DEF NoticesInv, MarkedIsTold
  <1>3. ASSUME NEW j \in ExpiryJobs, NEW a \in Accounts, NotifyOwner(j, a) PROVE NoticesInv'
    <2>1. expiry'[j] = [expiry[j] EXCEPT !.left = @ \ {a}]
      BY <1>3 DEF NotifyOwner, NoticesInv, NoticesTypeOK
    <2>2. PICK due, left : expiry[j] = [at |-> "notify", due |-> due, left |-> left]
      BY <1>3 DEF NotifyOwner, NoticesInv, NoticesTypeOK
    <2>3. expiry'[j] = [at |-> "notify", due |-> due, left |-> left \ {a}]
      BY <2>1, <2>2
    <2>4. /\ announced' = announced \cup {e \in due : e.owner = a}
          /\ \A i \in ExpiryJobs \ {j} : expiry'[i] = expiry[i]
          /\ UNCHANGED marked
      BY <1>3, <2>2 DEF NotifyOwner, NoticesInv, NoticesTypeOK
    <2>5. \A e \in due : e.owner \in left \ {a} \/ e \in announced'
      BY <2>2, <2>4 DEF NoticesInv
    <2>6. NoticesTypeOK'
      BY <1>3, <2>3, <2>4 DEF NotifyOwner, NoticesInv, NoticesTypeOK
    <2> QED BY <2>3, <2>4, <2>5, <2>6 DEF NoticesInv, MarkedIsTold
  <1>4. ASSUME NEW j \in ExpiryJobs, MarkNotified(j) PROVE NoticesInv'
    BY <1>4 DEF MarkNotified, MarkSet, NoticesInv, NoticesTypeOK, MarkedIsTold, NoWork
  <1>5. ASSUME NEW j \in ExpiryJobs, ExpiryDies(j) PROVE NoticesInv'
    BY <1>5 DEF ExpiryDies, NoticesInv, NoticesTypeOK, MarkedIsTold, NoWork
  <1>6. CASE (\E e \in entitled : RevokeRow(e)) \/ EntitlementDay \/ UNCHANGED entitlementsVars
    BY <1>1, <1>6 DEF RevokeRow, EntitlementDay, entitlementsVars
  <1>7. ASSUME NEW r \in Redeemers, \/ \E a \in Accounts, c \in Codes : ReadCode(r, a, c)
                                    \/ ClaimCode(r) \/ GrantCode(r) \/ RedeemEnds(r)
        PROVE  NoticesInv'
    BY <1>1, <1>7 DEF ReadCode, ClaimCode, GrantCode, RedeemEnds
  <1> QED BY <1>2, <1>3, <1>4, <1>5, <1>6, <1>7 DEF EntitlementsNext

\* A redeemed code is one grant, of all services of its product to the account that
\* claimed it, and a row marked as announced was announced: for every number of codes,
\* products, accounts, calls and checks.
THEOREM EntitlementsAlwaysConsistent == EntitlementsSpec => []EntitlementsConsistent
  <1>1. EntitlementsInit => CodesInv
    <2> SUFFICES ASSUME EntitlementsInit PROVE CodesInv
      OBVIOUS
    <2>1. EntitlementsTypeOK /\ (\A r \in Redeemers : redeem[r].at = "idle")
      BY DEF EntitlementsInit, EntitlementsTypeOK, RedeemRecords, NoWork
    <2>2. \A c \in Codes : FromCode(c) = {} /\ redeemedBy[c] = Nobody
      BY DEF EntitlementsInit, FromCode
    <2> QED BY <2>1, <2>2 DEF CodesInv, CodeIsOneGrant
  <1>2. EntitlementsInit => NoticesInv
    BY DEF EntitlementsInit, NoticesInv, NoticesTypeOK, MarkedIsTold, NoWork
  <1>3. CodesInv /\ [EntitlementsNext]_entitlementsVars => CodesInv'
    BY CodesStep
  <1>4. NoticesInv /\ [EntitlementsNext]_entitlementsVars => NoticesInv'
    BY NoticesStep
  <1>5. CodesInv /\ NoticesInv => EntitlementsConsistent
    BY DEF CodesInv, NoticesInv, EntitlementsConsistent
  <1> QED BY <1>1, <1>2, <1>3, <1>4, <1>5, PTL DEF EntitlementsSpec

(****************************************************************************)
(* Payroll.                                                                 *)
(****************************************************************************)
EstimateRows == [month : Months, status : {"confirmed", "paid"}, amount : Nat]

AdminRecords ==
    [at : {"free"}]
    \cup [at : {"computed"}, month : Months, amount : Nat]
    \cup [at : {"found"}, month : Months, amount : Nat, row : Nat]
    \cup [at : {"pays"}, row : Nat, read : {"confirmed"}]

\* Rows are numbered from one.
RowsNumbered(n) == n \in Nat /\ estimate \in [1 .. n -> EstimateRows]

PayrollTypeOK ==
    /\ month \in Months /\ given \in [Months -> Nat]
    /\ \E n \in Nat : RowsNumbered(n)
    /\ admin \in [Admins -> AdminRecords]
    /\ settled \in [Months -> Nat] /\ paidOut \in [Months -> Nat] /\ paidTwice \in [Months -> Nat]

\* A call holds a row that is there, of the month it settles, and an amount that its
\* month had when it was computed.
CallsHold ==
    \A a \in Admins :
        /\ admin[a].at \in {"computed", "found"} => admin[a].amount <= given[admin[a].month]
        /\ admin[a].at = "found" /\ admin[a].row # 0 =>
              admin[a].row \in DOMAIN estimate /\ estimate[admin[a].row].month = admin[a].month
        /\ admin[a].at = "pays" => admin[a].row \in DOMAIN estimate

Unpaid(m) == {r \in DOMAIN estimate : estimate[r].month = m /\ estimate[r].status # "paid"}

\* Every settlement leaves at most one row to be paid.
PaidOrUnpaid ==
    \A m \in Months : /\ IsFiniteSet(Unpaid(m))
                      /\ paidOut[m] + Cardinality(Unpaid(m)) <= settled[m] + paidTwice[m]

PayrollInv ==
    /\ PayrollTypeOK
    /\ CallsHold
    /\ NoMonthOverstated
    /\ PaidOrUnpaid

\* A call that dies or ends leaves nothing of its own behind.
LEMMA AdminRests ==
    ASSUME PayrollInv, NEW a \in Admins, admin' = [admin EXCEPT ![a] = Vacant],
           UNCHANGED <<month, given, estimate, settled, paidOut, paidTwice>>
    PROVE  PayrollInv'
  <1>1. Vacant \in AdminRecords /\ Vacant.at = "free"
    BY DEF Vacant, AdminRecords
  <1>2. PayrollTypeOK'
    BY <1>1 DEF PayrollInv, PayrollTypeOK, RowsNumbered
  <1>3. CallsHold'
    BY <1>1 DEF PayrollInv, PayrollTypeOK, CallsHold
  <1> QED BY <1>2, <1>3 DEF PayrollInv, NoMonthOverstated, PaidOrUnpaid, Unpaid

\* A row is put down, new or in the place of one of the same month: one more can be
\* paid, if the row was paid already or is new.
LEMMA RowPutDown ==
    ASSUME PayrollInv, NEW m \in Months, NEW r \in Nat, NEW amount \in Nat,
           amount <= given[m],
           r \in DOMAIN estimate => estimate[r].month = m,
           estimate' = [i \in DOMAIN estimate \cup {r} |->
                           IF i = r THEN [month |-> m, status |-> "confirmed", amount |-> amount]
                                    ELSE estimate[i]],
           settled' = [settled EXCEPT ![m] = @ + 1],
           UNCHANGED <<given, paidOut, paidTwice>>
    PROVE  NoMonthOverstated' /\ PaidOrUnpaid'
  <1>0. PayrollTypeOK /\ PaidOrUnpaid /\ NoMonthOverstated
    BY DEF PayrollInv
  <1>1. NoMonthOverstated'
    BY <1>0 DEF NoMonthOverstated
  <1>2. Unpaid(m)' = Unpaid(m) \cup {r}
    BY DEF Unpaid
  <1>3. \A k \in Months \ {m} : Unpaid(k)' = Unpaid(k)
    BY DEF Unpaid
  <1>4. \A k \in Months : IsFiniteSet(Unpaid(k)) /\ Cardinality(Unpaid(k)) \in Nat
    BY <1>0, FS_CardinalityType DEF PaidOrUnpaid
  <1>5. /\ IsFiniteSet(Unpaid(m)') /\ Cardinality(Unpaid(m)') \in Nat
        /\ Cardinality(Unpaid(m)') <= Cardinality(Unpaid(m)) + 1
    <2>1. /\ IsFiniteSet(Unpaid(m) \cup {r})
          /\ Cardinality(Unpaid(m) \cup {r}) = IF r \in Unpaid(m) THEN Cardinality(Unpaid(m))
                                               ELSE Cardinality(Unpaid(m)) + 1
      BY <1>4, FS_AddElement
    <2>2. Cardinality(Unpaid(m)) \in Nat
      BY <1>4
    <2> QED BY <1>2, <2>1, <2>2
  <1>6. settled'[m] = settled[m] + 1 /\ \A k \in Months \ {m} : settled'[k] = settled[k]
    BY <1>0 DEF PayrollTypeOK
  <1>7. PaidOrUnpaid'
    <2> SUFFICES ASSUME NEW k \in Months
                 PROVE  /\ IsFiniteSet(Unpaid(k)')
                        /\ paidOut'[k] + Cardinality(Unpaid(k)') <= settled'[k] + paidTwice'[k]
      BY DEF PaidOrUnpaid
    <2>1. CASE k = m
      BY <1>0, <1>4, <1>5, <1>6, <2>1 DEF PaidOrUnpaid, PayrollTypeOK
    <2>2. CASE k # m
      BY <1>0, <1>3, <1>4, <1>6, <2>2 DEF PaidOrUnpaid
    <2> QED BY <2>1, <2>2
  <1> QED BY <1>1, <1>7

\* A row is paid: one less can be, unless it was paid since it was read.
LEMMA RowPaid ==
    ASSUME PayrollInv, NEW r \in DOMAIN estimate, NEW m \in Months, estimate[r].month = m,
           estimate' = [estimate EXCEPT ![r].status = "paid"],
           paidOut' = [paidOut EXCEPT ![m] = @ + 1],
           paidTwice' = IF estimate[r].status = "paid" THEN [paidTwice EXCEPT ![m] = @ + 1]
                        ELSE paidTwice,
           UNCHANGED <<given, settled>>
    PROVE  /\ NoMonthOverstated' /\ PaidOrUnpaid' /\ DOMAIN estimate' = DOMAIN estimate
           /\ \A i \in DOMAIN estimate : estimate'[i].month = estimate[i].month
           /\ \E n \in Nat : RowsNumbered(n)'
  <1>0. PayrollTypeOK /\ PaidOrUnpaid /\ NoMonthOverstated
    BY DEF PayrollInv
  <1>1. PICK n \in Nat : estimate \in [1 .. n -> EstimateRows]
    BY <1>0 DEF PayrollTypeOK, RowsNumbered
  <1>2. [estimate[r] EXCEPT !.status = "paid"] =
            [month |-> m, status |-> "paid", amount |-> estimate[r].amount]
    BY <1>1 DEF EstimateRows
  <1>3. estimate' = [estimate EXCEPT ![r] = [month |-> m, status |-> "paid", amount |-> estimate[r].amount]]
    BY <1>2
  <1>4. estimate[r].amount \in Nat
    BY <1>1 DEF EstimateRows
  <1>5. estimate' \in [1 .. n -> EstimateRows]
    BY <1>1, <1>3, <1>4 DEF EstimateRows
  <1>6. DOMAIN estimate' = DOMAIN estimate /\ \A i \in DOMAIN estimate : estimate'[i].month = estimate[i].month
    <2>1. DOMAIN estimate' = DOMAIN estimate
      BY <1>1, <1>5
    <2>2. estimate'[r].month = m
      BY <1>1, <1>3
    <2>3. \A i \in DOMAIN estimate \ {r} : estimate'[i] = estimate[i]
      BY <1>1, <1>3
    <2> QED BY <2>1, <2>2, <2>3
  <1>a. /\ estimate'[r].month = m /\ estimate'[r].status = "paid"
        /\ estimate'[r].amount = estimate[r].amount
        /\ \A i \in DOMAIN estimate \ {r} : estimate'[i] = estimate[i]
    BY <1>1, <1>3
  <1>7. NoMonthOverstated'
    <2> SUFFICES ASSUME NEW i \in DOMAIN estimate
                 PROVE  estimate'[i].amount <= given'[estimate'[i].month]
      BY <1>6 DEF NoMonthOverstated
    <2>1. estimate'[i].amount = estimate[i].amount /\ estimate'[i].month = estimate[i].month
      BY <1>6, <1>a
    <2> QED BY <1>0, <2>1 DEF NoMonthOverstated
  <1>8. Unpaid(m)' = Unpaid(m) \ {r} /\ \A k \in Months \ {m} : Unpaid(k)' = Unpaid(k)
    <2>2. Unpaid(m)' = Unpaid(m) \ {r}
      BY <1>6, <1>a DEF Unpaid
    <2>3. \A k \in Months \ {m} : Unpaid(k)' = Unpaid(k)
      BY <1>6, <1>a DEF Unpaid
    <2> QED BY <2>2, <2>3
  <1>9. r \in Unpaid(m) <=> estimate[r].status # "paid"
    BY DEF Unpaid
  <1>10. \A k \in Months : IsFiniteSet(Unpaid(k)) /\ Cardinality(Unpaid(k)) \in Nat
    BY <1>0, FS_CardinalityType DEF PaidOrUnpaid
  <1>11. /\ IsFiniteSet(Unpaid(m)')
         /\ Cardinality(Unpaid(m)') = IF estimate[r].status # "paid" THEN Cardinality(Unpaid(m)) - 1
                                      ELSE Cardinality(Unpaid(m))
    BY <1>8, <1>9, <1>10, FS_RemoveElement
  <1>12. PaidOrUnpaid'
    <2> SUFFICES ASSUME NEW k \in Months
                 PROVE  /\ IsFiniteSet(Unpaid(k)')
                        /\ paidOut'[k] + Cardinality(Unpaid(k)') <= settled'[k] + paidTwice'[k]
      BY DEF PaidOrUnpaid
    <2>1. CASE k = m
      BY <1>0, <1>10, <1>11, <2>1 DEF PaidOrUnpaid, PayrollTypeOK
    <2>2. CASE k # m
      BY <1>0, <1>8, <1>10, <2>2 DEF PaidOrUnpaid, PayrollTypeOK
    <2> QED BY <2>1, <2>2
  <1> QED BY <1>5, <1>6, <1>7, <1>12 DEF RowsNumbered

\* Calls of settle and markPaid keep the account of what can be paid, in any order.
LEMMA PayrollStep ==
    ASSUME PayrollInv, [PayrollNext]_payrollVars
    PROVE  PayrollInv'
  <1>0. /\ PayrollTypeOK /\ CallsHold /\ NoMonthOverstated /\ PaidOrUnpaid
        /\ Vacant \in AdminRecords /\ Vacant.at = "free"
    BY DEF PayrollInv, Vacant, AdminRecords
  <1>1. \A m \in Months : m \in Nat
    BY DEF Months
  <1>2. PICK n \in Nat : RowsNumbered(n)
    BY <1>0 DEF PayrollTypeOK
  <1>3. DOMAIN estimate = 1 .. n /\ Cardinality(DOMAIN estimate) = n
    BY <1>2, FS_Interval DEF RowsNumbered
  <1>4. CASE NextMonth
    <2>1. PayrollTypeOK'
      <3>1. RowsNumbered(n)'
        BY <1>2, <1>4 DEF NextMonth, RowsNumbered
      <3>2. month' \in Months
        BY <1>0, <1>4, PayrollAssumption DEF NextMonth, PayrollTypeOK, Months
      <3> QED BY <1>0, <1>4, <3>1, <3>2 DEF NextMonth, PayrollTypeOK
    <2> QED BY <1>0, <1>4, <2>1
            DEF NextMonth, PayrollInv, CallsHold, NoMonthOverstated, PaidOrUnpaid, Unpaid
  <1>5. ASSUME NEW m \in Months, GiveSession(m) PROVE PayrollInv'
    <2>1. PayrollTypeOK'
      <3>1. RowsNumbered(n)'
        BY <1>2, <1>5 DEF GiveSession, RowsNumbered
      <3> QED BY <1>0, <1>5, <3>1 DEF GiveSession, PayrollTypeOK
    <2>2. \A k \in Months : given'[k] >= given[k] /\ given[k] \in Nat /\ given'[k] \in Nat
      BY <1>0, <1>5 DEF GiveSession, PayrollTypeOK
    <2>3. CallsHold'
      <3>1. \A a \in Admins : admin[a].at \in {"computed", "found"} =>
                admin[a].month \in Months /\ admin[a].amount \in Nat
        BY <1>0 DEF PayrollTypeOK, AdminRecords
      <3> QED BY <1>0, <1>5, <2>2, <3>1 DEF GiveSession, CallsHold
    <2>4. NoMonthOverstated'
      <3>1. \A r \in DOMAIN estimate : estimate[r].month \in Months /\ estimate[r].amount \in Nat
        BY <1>2, <1>3 DEF RowsNumbered, EstimateRows
      <3> QED BY <1>0, <1>5, <2>2, <3>1 DEF GiveSession, NoMonthOverstated
    <2> QED BY <1>0, <1>5, <2>1, <2>3, <2>4 DEF GiveSession, PayrollInv, PaidOrUnpaid, Unpaid
  <1>6. ASSUME NEW a \in Admins, Compute(a) PROVE PayrollInv'
    <2> DEFINE call == [at |-> "computed", month |-> month, amount |-> given[month]]
    <2>1. call \in AdminRecords /\ call.at = "computed" /\ call.amount <= given[call.month]
      BY <1>0 DEF PayrollTypeOK, AdminRecords
    <2>2. /\ admin' = [admin EXCEPT ![a] = call]
          /\ UNCHANGED <<month, given, estimate, settled, paidOut, paidTwice>>
      BY <1>6 DEF Compute, ConfirmedRevenue
    <2> HIDE DEF call
    <2>3. PayrollTypeOK'
      BY <1>0, <2>1, <2>2 DEF PayrollTypeOK, RowsNumbered
    <2>4. CallsHold'
      BY <1>0, <2>1, <2>2 DEF PayrollTypeOK, CallsHold
    <2> QED BY <1>0, <2>2, <2>3, <2>4 DEF PayrollInv, NoMonthOverstated, PaidOrUnpaid, Unpaid
  <1>7. ASSUME NEW a \in Admins, FindRow(a) PROVE PayrollInv'
    <2>1. admin[a].at = "computed" /\ admin[a].month \in Months /\ admin[a].amount \in Nat
      BY <1>0, <1>7 DEF FindRow, PayrollTypeOK, AdminRecords
    <2>2. PICK r \in IF RowsOf(admin[a].month) = {} THEN {0} ELSE RowsOf(admin[a].month) :
            admin' = [admin EXCEPT ![a] = [at |-> "found", month |-> admin[a].month,
                                           amount |-> admin[a].amount, row |-> r]]
      BY <1>7 DEF FindRow
    <2>3. r \in Nat /\ (r # 0 => r \in DOMAIN estimate /\ estimate[r].month = admin[a].month)
      BY <1>3 DEF RowsOf
    <2> DEFINE call == [at |-> "found", month |-> admin[a].month, amount |-> admin[a].amount, row |-> r]
    <2>4. /\ call \in AdminRecords /\ call.at = "found" /\ call.amount <= given[call.month]
          /\ call.row # 0 => call.row \in DOMAIN estimate /\ estimate[call.row].month = call.month
      BY <1>0, <2>1, <2>3 DEF CallsHold, AdminRecords
    <2>5. UNCHANGED <<month, given, estimate, settled, paidOut, paidTwice>>
      BY <1>7 DEF FindRow
    <2> HIDE DEF call
    <2>6. PayrollTypeOK'
      BY <1>0, <2>2, <2>4, <2>5 DEF PayrollTypeOK, RowsNumbered, call
    <2>7. admin'[a] = call /\ \A b \in Admins \ {a} : admin'[b] = admin[b]
      BY <1>0, <2>2 DEF PayrollTypeOK, call
    <2>8. CallsHold'
      BY <1>0, <2>4, <2>5, <2>7 DEF CallsHold
    <2> QED BY <1>0, <2>5, <2>6, <2>8 DEF PayrollInv, NoMonthOverstated, PaidOrUnpaid, Unpaid
  <1>8. ASSUME NEW a \in Admins, Settle(a) PROVE PayrollInv'
    <2> DEFINE m == admin[a].month
               amount == admin[a].amount
               r == IF admin[a].row = 0 THEN n + 1 ELSE admin[a].row
    <2>1. admin[a] \in [at : {"found"}, month : Months, amount : Nat, row : Nat]
      BY <1>0, <1>8 DEF Settle, PayrollTypeOK, AdminRecords
    <2>2. /\ estimate' = [i \in DOMAIN estimate \cup {r} |->
                             IF i = r THEN [month |-> m, status |-> "confirmed", amount |-> amount]
                                      ELSE estimate[i]]
          /\ settled' = [settled EXCEPT ![m] = @ + 1]
          /\ admin' = [admin EXCEPT ![a] = Vacant]
          /\ UNCHANGED <<month, given, paidOut, paidTwice>>
      BY <1>3, <1>8 DEF Settle
    <2>3. /\ m \in Months /\ amount \in Nat /\ r \in Nat /\ amount <= given[m]
          /\ r \in DOMAIN estimate => estimate[r].month = m
          /\ r \in 1 .. n \/ r = n + 1
      BY <1>0, <1>3, <2>1 DEF CallsHold
    <2>4. NoMonthOverstated' /\ PaidOrUnpaid'
      BY <2>2, <2>3, RowPutDown
    <2>5. \E k \in Nat : RowsNumbered(k)'
      <3>1. [month |-> m, status |-> "confirmed", amount |-> amount] \in EstimateRows
        BY <2>3 DEF EstimateRows
      <3>2. CASE r \in 1 .. n
        <4>1. estimate' \in [1 .. n -> EstimateRows]
          <5>1. DOMAIN estimate \cup {r} = 1 .. n
            BY <1>3, <3>2
          <5> HIDE DEF m, amount, r
          <5> QED BY <1>2, <2>2, <3>1, <5>1 DEF RowsNumbered
        <4> QED BY <4>1 DEF RowsNumbered
      <3>3. CASE r = n + 1
        <4>1. estimate' \in [1 .. n + 1 -> EstimateRows]
          <5>1. DOMAIN estimate \cup {r} = 1 .. n + 1
            BY <1>3, <3>3
          <5> HIDE DEF m, amount, r
          <5> QED BY <1>2, <2>2, <3>1, <5>1 DEF RowsNumbered
        <4> QED BY <4>1 DEF RowsNumbered
      <3> QED BY <2>3, <3>2, <3>3
    <2>6. PayrollTypeOK'
      BY <1>0, <2>2, <2>3, <2>5 DEF PayrollTypeOK
    <2>7. /\ DOMAIN estimate \subseteq DOMAIN estimate'
          /\ \A i \in DOMAIN estimate : estimate'[i].month = estimate[i].month
      BY <2>2, <2>3
    <2>8. CallsHold'
      <3>1. \A b \in Admins : admin'[b].at # "free" => admin'[b] = admin[b]
        BY <1>0, <2>2 DEF PayrollTypeOK
      <3> QED BY <1>0, <2>2, <2>7, <3>1 DEF CallsHold
    <2> QED BY <2>4, <2>6, <2>8 DEF PayrollInv
  <1>9. ASSUME NEW a \in Admins, NEW r \in Rows, ReadUnpaid(a, r) PROVE PayrollInv'
    <2>1. r \in DOMAIN estimate /\ estimate[r].status = "confirmed" /\ r \in Nat
      BY <1>2, <1>3, <1>9 DEF ReadUnpaid, Payable, RowsNumbered, EstimateRows
    <2> DEFINE call == [at |-> "pays", row |-> r, read |-> estimate[r].status]
    <2>2. call \in AdminRecords /\ call.at = "pays" /\ call.row = r
      BY <2>1 DEF AdminRecords
    <2>3. /\ admin' = [admin EXCEPT ![a] = call]
          /\ UNCHANGED <<month, given, estimate, settled, paidOut, paidTwice>>
      BY <1>9 DEF ReadUnpaid
    <2> HIDE DEF call
    <2>4. PayrollTypeOK'
      BY <1>0, <2>2, <2>3 DEF PayrollTypeOK, RowsNumbered
    <2>5. CallsHold'
      BY <1>0, <2>1, <2>2, <2>3 DEF PayrollTypeOK, CallsHold
    <2> QED BY <1>0, <2>3, <2>4, <2>5 DEF PayrollInv, NoMonthOverstated, PaidOrUnpaid, Unpaid
  <1>10. ASSUME NEW a \in Admins, MarkPaid(a) PROVE PayrollInv'
    <2> DEFINE r == admin[a].row
               m == estimate[r].month
    <2>1. r \in DOMAIN estimate /\ admin[a].read = "confirmed"
      BY <1>0, <1>10 DEF MarkPaid, CallsHold, PayrollTypeOK, AdminRecords
    <2>2. m \in Months
      BY <1>2, <1>3, <2>1 DEF RowsNumbered, EstimateRows
    <2>3. /\ estimate' = [estimate EXCEPT ![r].status = "paid"]
          /\ paidOut' = [paidOut EXCEPT ![m] = @ + 1]
          /\ paidTwice' = IF estimate[r].status = "paid" THEN [paidTwice EXCEPT ![m] = @ + 1]
                          ELSE paidTwice
          /\ admin' = [admin EXCEPT ![a] = Vacant]
          /\ UNCHANGED <<month, given, settled>>
      BY <1>10, <2>1 DEF MarkPaid
    <2>4. /\ NoMonthOverstated' /\ PaidOrUnpaid' /\ DOMAIN estimate' = DOMAIN estimate
          /\ \A i \in DOMAIN estimate : estimate'[i].month = estimate[i].month
          /\ \E k \in Nat : RowsNumbered(k)'
      BY <2>1, <2>2, <2>3, RowPaid
    <2>5. PayrollTypeOK'
      BY <1>0, <2>2, <2>3, <2>4 DEF PayrollTypeOK
    <2>6. CallsHold'
      <3>1. \A b \in Admins : admin'[b].at # "free" => admin'[b] = admin[b]
        BY <1>0, <2>3 DEF PayrollTypeOK
      <3> QED BY <1>0, <2>3, <2>4, <3>1 DEF CallsHold
    <2> QED BY <2>4, <2>5, <2>6 DEF PayrollInv
  <1>11. ASSUME NEW a \in Admins, GiveUp(a) PROVE PayrollInv'
    BY <1>11, AdminRests DEF GiveUp
  <1>12. CASE UNCHANGED payrollVars
    BY <1>0, <1>12 DEF payrollVars, PayrollInv, PayrollTypeOK, RowsNumbered, CallsHold,
                       NoMonthOverstated, PaidOrUnpaid, Unpaid
  <1> QED BY <1>4, <1>5, <1>6, <1>7, <1>8, <1>9, <1>10, <1>11, <1>12 DEF PayrollNext

\* A month is paid no more often than it was settled, overlapping payments apart, and no
\* row says more than its month earned: for every number of calls, months and rows.
THEOREM SettlementAlwaysFair == PayrollSpec => []SettlementIsFair
  <1>1. PayrollInit => PayrollInv
    <2> SUFFICES ASSUME PayrollInit PROVE PayrollInv
      OBVIOUS
    <2>1. DOMAIN estimate = {}
      BY DEF PayrollInit
    <2>2. RowsNumbered(0)
      BY DEF PayrollInit, RowsNumbered
    <2>3. PayrollTypeOK
      BY <2>2, PayrollAssumption
         DEF PayrollInit, PayrollTypeOK, Months, AdminRecords, Vacant
    <2>4. \A m \in Months : Unpaid(m) = {}
      BY <2>1 DEF Unpaid
    <2>5. PaidOrUnpaid
      <3>1. IsFiniteSet({}) /\ Cardinality({}) = 0
        BY FS_EmptySet
      <3>2. \A m \in Months : paidOut[m] = 0 /\ settled[m] = 0 /\ paidTwice[m] = 0
        BY DEF PayrollInit
      <3> QED BY <2>4, <3>1, <3>2 DEF PaidOrUnpaid
    <2> QED BY <2>1, <2>3, <2>5 DEF PayrollInit, PayrollInv, CallsHold, NoMonthOverstated, Vacant
  <1>2. PayrollInv /\ [PayrollNext]_payrollVars => PayrollInv'
    BY PayrollStep
  <1>3. PayrollInv => SettlementIsFair
    <2> SUFFICES ASSUME PayrollInv, NEW m \in Months
                 PROVE  paidOut[m] <= settled[m] + paidTwice[m]
      BY DEF PayrollInv, SettlementIsFair, PaidOncePerSettlement
    <2>1. Cardinality(Unpaid(m)) \in Nat
      BY FS_CardinalityType DEF PayrollInv, PaidOrUnpaid
    <2> QED BY <2>1 DEF PayrollInv, PayrollTypeOK, PaidOrUnpaid
  <1> QED BY <1>1, <1>2, <1>3, PTL DEF PayrollSpec

(****************************************************************************)
(* Recurring billing.                                                       *)
(****************************************************************************)
SubRows == [status : {"none", "pending", "active", "inactive"}, started : Nat, next : Nat]

Charging == {"charge", "charged", "failed", "activate"}

\* A pass has the list that it read, of rows that are there and were due when it read
\* them, and works on a row of the list.
IsPass(x) ==
    /\ x = [at |-> x.at, now |-> x.now, cur |-> x.cur, read |-> x.read, left |-> x.left]
    /\ x.at \in {"claim"} \cup Charging
    /\ x.now \in Periods /\ x.now <= period
    /\ DOMAIN x.read \subseteq Subs
    /\ \A s \in DOMAIN x.read : /\ x.read[s] \in SubRows /\ x.read[s].next \in 1 .. x.now
                               /\ sub[s].status # "none"
    /\ x.left \subseteq DOMAIN x.read
    /\ x.at \in Charging => x.cur \in DOMAIN x.read

SubscriberRecords ==
    [at : {"idle"}]
    \cup [at : {"write", "revoke", "grant"}, id : Subs, now : Nat \ {0}, seen : SUBSET Subs]

RunnerTypeOK ==
    /\ runner = [r \in Runners |-> runner[r]]
    /\ \A r \in Runners : runner[r] = Resting \/ IsPass(runner[r])

BillingTypeOK ==
    /\ period \in Periods
    /\ sub \in [Subs -> SubRows]
    /\ \A s \in Subs : sub[s].status = "none" \/ sub[s].next >= 1
    /\ captures \in [Subs -> [Periods -> Nat]]
    /\ RunnerTypeOK
    /\ subscriber \in [Subscribers -> SubscriberRecords]

At(r, places) == runner[r].at \in places
Claims(r, s, d) == At(r, {"charge", "charged", "failed"}) /\ CurrentPeriod(r) = <<s, d>>

\* A row that was never written has no charge, and one call to write it.
AbsentRows ==
    /\ \A s \in Subs : sub[s].status = "none" => \A p \in Periods : captures[s][p] = 0
    /\ \A c \in Subscribers : subscriber[c].at = "write" => sub[subscriber[c].id].status = "none"
    /\ \A c, d \in Subscribers :
          subscriber[c].at # "idle" /\ subscriber[d].at # "idle" /\ subscriber[c].id = subscriber[d].id
             => c = d

\* A period that is not over is claimed by one pass, is charged by it once, and its
\* claim moved the next billing date past it.
ClaimedOnce ==
    \A s \in Subs, d \in Periods : period <= d =>
        /\ \A q, r \in Runners : Claims(q, s, d) /\ Claims(r, s, d) => q = r
        /\ captures[s][d] > 0 =>
              \A r \in Runners : Claims(r, s, d) => runner[r].at = "charged"
        /\ captures[s][d] > 0 \/ (\E r \in Runners : Claims(r, s, d)) => sub[s].next > d

\* The passes at work and the list they go on with.
LEMMA PassOf ==
    ASSUME BillingTypeOK, NEW r \in Runners, runner[r].at # "idle"
    PROVE  IsPass(runner[r]) /\ runner[r] # Resting
  BY DEF BillingTypeOK, RunnerTypeOK, Resting

\* The row a pass works on, and the period it charges.
LEMMA CurrentRow ==
    ASSUME BillingTypeOK, NEW r \in Runners, runner[r].at \in Charging
    PROVE  /\ runner[r].cur \in Subs /\ DueDate(r) \in Periods /\ DueDate(r) <= period
           /\ captures[runner[r].cur][DueDate(r)] \in Nat
  <1>1. IsPass(runner[r])
    BY PassOf DEF Charging
  <1>2. runner[r].cur \in Subs /\ DueDate(r) \in 1 .. runner[r].now
    BY <1>1 DEF IsPass, DueDate
  <1>3. period \in Periods /\ runner[r].now \in Periods /\ runner[r].now <= period /\ MaxPeriod \in Nat
    BY <1>1, SubscriptionsAssumption DEF IsPass, BillingTypeOK
  <1>4. DueDate(r) \in Periods /\ DueDate(r) <= period
    BY <1>2, <1>3 DEF Periods
  <1> QED BY <1>2, <1>4 DEF BillingTypeOK

\* The other passes are left alone.
OnlyPass(r) ==
    /\ runner' = [q \in Runners |-> runner'[q]]
    /\ \A q \in Runners \ {r} : runner'[q] = runner[q]

\* The pass goes to another place with the same list,
MovesTo(r, place) ==
    /\ OnlyPass(r)
    /\ IsPass(runner'[r])
    /\ runner'[r].read = runner[r].read
    /\ runner'[r].at = place

\* and with the same row;
SameRow(r) == runner'[r].cur = runner[r].cur

\* or it is done with its list.
GoesOn(r) == OnlyPass(r) /\ (runner'[r] = Resting \/ MovesTo(r, "claim"))

\* A pass that moves keeps the row and the date that it is charging.
LEMMA PassMoves ==
    ASSUME BillingTypeOK, NEW r \in Runners, runner[r].at \in Charging, NEW place \in Charging,
           runner' = [runner EXCEPT ![r].at = place]
    PROVE  MovesTo(r, place) /\ SameRow(r)
  <1>1. IsPass(runner[r])
    BY PassOf DEF Charging
  <1>2. runner' = [q \in Runners |-> runner'[q]] /\ \A q \in Runners \ {r} : runner'[q] = runner[q]
    BY DEF BillingTypeOK, RunnerTypeOK
  <1>3. runner'[r] = [runner[r] EXCEPT !.at = place]
    BY DEF BillingTypeOK, RunnerTypeOK
  <1>4. runner'[r] = [at |-> place, now |-> runner[r].now, cur |-> runner[r].cur,
                      read |-> runner[r].read, left |-> runner[r].left]
    BY <1>1, <1>3 DEF IsPass
  <1> QED BY <1>1, <1>2, <1>4 DEF IsPass, MovesTo, SameRow, OnlyPass

\* A pass that goes on with its list claims the next row or rests.
LEMMA PassContinues ==
    ASSUME BillingTypeOK, NEW r \in Runners, runner[r].at # "idle", Continue(r)
    PROVE  GoesOn(r)
  <1>1. IsPass(runner[r])
    BY PassOf
  <1>2. runner' = [q \in Runners |-> runner'[q]] /\ \A q \in Runners \ {r} : runner'[q] = runner[q]
    BY DEF BillingTypeOK, RunnerTypeOK, Continue
  <1>3. runner'[r] = Resting \/ runner'[r] = [runner[r] EXCEPT !.at = "claim", !.cur = NoSub]
    BY DEF BillingTypeOK, RunnerTypeOK, Continue
  <1>4. CASE runner'[r] = [runner[r] EXCEPT !.at = "claim", !.cur = NoSub]
    <2>1. runner'[r] = [at |-> "claim", now |-> runner[r].now, cur |-> NoSub,
                        read |-> runner[r].read, left |-> runner[r].left]
      BY <1>1, <1>4 DEF IsPass
    <2> QED BY <1>1, <1>2, <2>1 DEF IsPass, GoesOn, MovesTo, OnlyPass, Charging
  <1> QED BY <1>2, <1>3, <1>4 DEF GoesOn, OnlyPass

\* A pass that finds its list reads only rows that are there and due.
LEMMA PassLists ==
    ASSUME BillingTypeOK, NEW r \in Runners, ListDue(r)
    PROVE  /\ OnlyPass(r) /\ IsPass(runner'[r]) /\ runner'[r].at = "claim"
  <1>1. runner' = [q \in Runners |-> runner'[q]] /\ \A q \in Runners \ {r} : runner'[q] = runner[q]
    BY DEF BillingTypeOK, RunnerTypeOK, ListDue
  <1>2. runner'[r] = [at |-> "claim", now |-> period, cur |-> NoSub,
                      read |-> [s \in DueAt(period) |-> sub[s]], left |-> DueAt(period)]
    BY DEF BillingTypeOK, RunnerTypeOK, ListDue
  <1>3. \A s \in DueAt(period) : s \in Subs /\ Billable(s) /\ sub[s] \in SubRows
                                 /\ sub[s].next \in 1 .. period /\ sub[s].status # "none"
    BY DEF DueAt, BillingTypeOK, SubRows, Billable
  <1>4. IsPass(runner'[r])
    BY <1>2, <1>3, SubscriptionsAssumption DEF IsPass, BillingTypeOK, Periods, Charging
  <1> QED BY <1>1, <1>2, <1>3, <1>4 DEF OnlyPass

\* A pass that claims a row moves its date to the period after the one in the list; a
\* pass that finds it no longer due goes on.
LEMMA PassClaims ==
    ASSUME BillingTypeOK, NEW r \in Runners, NEW s \in Subs, ClaimPeriod(r, s)
    PROVE  /\ runner[r].at = "claim" /\ IsPass(runner[r]) /\ s \in DOMAIN runner[r].read
           /\ \/ /\ StillDue(s, runner[r].now)
                 /\ MovesTo(r, "charge") /\ runner'[r].cur = s
                 /\ sub' = [sub EXCEPT ![s].next = runner[r].read[s].next + 1]
                 /\ lost' = lost \cup {<<s, p>> : p \in sub[s].next .. runner[r].read[s].next - 1}
              \/ GoesOn(r) /\ UNCHANGED <<sub, lost>>
  <1>1. IsPass(runner[r]) /\ runner[r].at = "claim" /\ s \in runner[r].left
    BY PassOf DEF ClaimPeriod
  <1>2. CASE StillDue(s, runner[r].now)
    <2>1. runner' = [runner EXCEPT ![r].at = "charge", ![r].cur = s,
                                   ![r].left = runner[r].left \ {s}]
      BY <1>2 DEF ClaimPeriod
    <2>2. runner' = [q \in Runners |-> runner'[q]] /\ \A q \in Runners \ {r} : runner'[q] = runner[q]
      BY <2>1 DEF BillingTypeOK, RunnerTypeOK
    <2>3. runner'[r] = [at |-> "charge", now |-> runner[r].now, cur |-> s,
                        read |-> runner[r].read, left |-> runner[r].left \ {s}]
      BY <1>1, <2>1 DEF IsPass, BillingTypeOK, RunnerTypeOK
    <2>4. MovesTo(r, "charge") /\ runner'[r].cur = s
      BY <1>1, <2>2, <2>3 DEF IsPass, MovesTo, OnlyPass, Charging
    <2> QED BY <1>1, <1>2, <2>4 DEF ClaimPeriod, IsPass, NextBilling
  <1>3. CASE ~StillDue(s, runner[r].now)
    <2>1. runner' = [runner EXCEPT ![r] =
             IF runner[r].left \ {s} = {} THEN Resting ELSE [@ EXCEPT !.left = runner[r].left \ {s}]]
      BY <1>3 DEF ClaimPeriod
    <2>2. runner' = [q \in Runners |-> runner'[q]] /\ \A q \in Runners \ {r} : runner'[q] = runner[q]
      BY <2>1 DEF BillingTypeOK, RunnerTypeOK
    <2>3. runner'[r] = Resting \/ runner'[r] = [runner[r] EXCEPT !.left = runner[r].left \ {s}]
      BY <2>1 DEF BillingTypeOK, RunnerTypeOK
    <2>4. CASE runner'[r] = [runner[r] EXCEPT !.left = runner[r].left \ {s}]
      <3>1. runner'[r] = [at |-> "claim", now |-> runner[r].now, cur |-> runner[r].cur,
                          read |-> runner[r].read, left |-> runner[r].left \ {s}]
        BY <1>1, <2>4 DEF IsPass
      <3> QED BY <1>1, <1>3, <2>2, <3>1 DEF IsPass, GoesOn, MovesTo, OnlyPass, ClaimPeriod, Charging
    <2> QED BY <1>1, <1>3, <2>2, <2>3, <2>4 DEF IsPass, GoesOn, OnlyPass, ClaimPeriod
  <1> QED BY <1>2, <1>3

\* A pass that dies leaves the others alone.
LEMMA PassStops ==
    ASSUME BillingTypeOK, NEW r \in Runners, PassDies(r)
    PROVE  OnlyPass(r) /\ runner'[r] = Resting /\ runner[r].at # "idle"
  BY DEF BillingTypeOK, RunnerTypeOK, OnlyPass, PassDies, IsPass, Charging

(****************************************************************************)
(* Types.                                                                   *)
(****************************************************************************)
\* Rows that are there stay.
RowsStay == \A s \in Subs : sub[s].status # "none" => sub'[s].status # "none"

\* What a pass does to itself: it lists, moves, goes on or stops.
LEMMA PassStays ==
    ASSUME BillingTypeOK, NEW r \in Runners, OnlyPass(r), period' = period, RowsStay,
           runner'[r] = Resting \/ IsPass(runner'[r])
    PROVE  RunnerTypeOK'
  BY DEF BillingTypeOK, RunnerTypeOK, OnlyPass, IsPass, RowsStay

\* The rows keep their shape whatever a pass does.
LEMMA PassTypes ==
    ASSUME BillingTypeOK, NEW r \in Runners, RunnerStep(r)
    PROVE  BillingTypeOK' /\ RowsStay
  <1> DEFINE RowsKept == /\ sub' \in [Subs -> SubRows] /\ RowsStay
                         /\ \A s \in Subs : sub'[s].status = "none" \/ sub'[s].next >= 1
  <1>1. period' = period /\ subscriber' = subscriber
    BY DEF RunnerStep, ListDue, ClaimPeriod, ChargeSucceeds, ChargeFails, BookPayment,
           ActivatePending, RollbackClaim, PassDies
  <1>2. ASSUME UNCHANGED sub PROVE RowsKept
    BY <1>2 DEF BillingTypeOK, RowsStay
  <1>3. CASE ListDue(r)
    <2>1. RowsKept
      BY <1>2, <1>3 DEF ListDue, tables
    <2>2. RunnerTypeOK'
      BY <1>1, <1>3, <2>1, PassLists, PassStays
    <2> QED BY <1>1, <1>3, <2>1, <2>2 DEF BillingTypeOK, ListDue, billingHistory
  <1>4. ASSUME NEW s \in Subs, ClaimPeriod(r, s) PROVE BillingTypeOK' /\ RowsStay
    <2>1. RowsKept
      <3>1. CASE sub' = [sub EXCEPT ![s].next = runner[r].read[s].next + 1]
        <4>1. runner[r].read[s].next \in Nat
          BY <1>4, PassClaims DEF IsPass, SubRows
        <4> QED BY <3>1, <4>1 DEF BillingTypeOK, SubRows, RowsStay
      <3> QED BY <1>2, <1>4, <3>1, PassClaims
    <2>2. RunnerTypeOK'
      BY <1>1, <1>4, <2>1, PassClaims, PassStays DEF MovesTo, GoesOn
    <2> QED BY <1>1, <1>4, <2>1, <2>2 DEF BillingTypeOK, ClaimPeriod
  <1>5. CASE ChargeSucceeds(r)
    <2>1. RowsKept
      BY <1>2, <1>5 DEF ChargeSucceeds, tables
    <2>2. RunnerTypeOK'
      BY <1>1, <1>5, <2>1, PassMoves, PassStays DEF ChargeSucceeds, Charging, MovesTo
    <2>3. runner[r].cur \in Subs /\ DueDate(r) \in Periods
          /\ captures[runner[r].cur][DueDate(r)] \in Nat
      BY <1>5, CurrentRow DEF ChargeSucceeds, Charging
    <2>4. captures' \in [Subs -> [Periods -> Nat]]
      BY <1>5, <2>3 DEF BillingTypeOK, ChargeSucceeds
    <2> QED BY <1>1, <2>1, <2>2, <2>4 DEF BillingTypeOK
  <1>6. CASE ChargeFails(r)
    <2>1. RowsKept
      BY <1>2, <1>6 DEF ChargeFails, tables
    <2>2. RunnerTypeOK'
      BY <1>1, <1>6, <2>1, PassMoves, PassStays DEF ChargeFails, Charging, MovesTo
    <2> QED BY <1>1, <1>6, <2>1, <2>2 DEF BillingTypeOK, ChargeFails, billingHistory
  <1>7. CASE BookPayment(r)
    <2>1. RowsKept
      BY <1>2, <1>7 DEF BookPayment
    <2>2. RunnerTypeOK'
      BY <1>1, <1>7, <2>1, PassMoves, PassContinues, PassStays
         DEF BookPayment, Charging, MovesTo, GoesOn
    <2> QED BY <1>1, <1>7, <2>1, <2>2 DEF BillingTypeOK, BookPayment, billingHistory
  <1>8. CASE ActivatePending(r)
    <2>1. runner[r].cur \in Subs /\ sub[runner[r].cur].status # "none"
      BY <1>8, PassOf, CurrentRow DEF ActivatePending, Charging, IsPass
    <2>2. RowsKept
      BY <1>8, <2>1 DEF BillingTypeOK, ActivatePending, OthersActive, SubRows, RowsStay
    <2>3. RunnerTypeOK'
      BY <1>1, <1>8, <2>2, PassContinues, PassStays DEF MovesTo, GoesOn, ActivatePending
    <2> QED BY <1>1, <1>8, <2>2, <2>3 DEF BillingTypeOK, ActivatePending, billingHistory
  <1>9. CASE RollbackClaim(r)
    <2>1. runner[r].cur \in Subs /\ DueDate(r) \in Nat /\ DueDate(r) >= 1
      BY <1>9, CurrentRow DEF RollbackClaim, Charging, Periods
    <2>2. RowsKept
      <3>1. CASE sub' = [sub EXCEPT ![runner[r].cur].next = DueDate(r)]
        BY <2>1, <3>1 DEF BillingTypeOK, SubRows, RowsStay
      <3> QED BY <1>2, <1>9, <3>1 DEF RollbackClaim
    <2>3. RunnerTypeOK'
      BY <1>1, <1>9, <2>2, PassContinues, PassStays DEF MovesTo, GoesOn, RollbackClaim
    <2> QED BY <1>1, <1>9, <2>2, <2>3 DEF BillingTypeOK, RollbackClaim
  <1>10. CASE PassDies(r)
    <2>1. RowsKept
      BY <1>2, <1>10 DEF PassDies, tables
    <2>2. RunnerTypeOK'
      BY <1>1, <1>10, <2>1, PassStops, PassStays
    <2> QED BY <1>1, <1>10, <2>1, <2>2 DEF BillingTypeOK, PassDies
  <1> QED BY <1>3, <1>4, <1>5, <1>6, <1>7, <1>8, <1>9, <1>10 DEF RunnerStep

\* One subscribe call changes its own record.
OnlyCall(c) == \A d \in Subscribers \ {c} : subscriber'[d] = subscriber[d]

\* A call that is being answered remembers its id, the time and who was active.
LEMMA CallOf ==
    ASSUME BillingTypeOK, NEW c \in Subscribers, subscriber[c].at # "idle"
    PROVE  /\ subscriber[c] \in [at : {"write", "revoke", "grant"}, id : Subs,
                                 now : Nat \ {0}, seen : SUBSET Subs]
           /\ subscriber[c] # Resting
  BY DEF BillingTypeOK, SubscriberRecords, Resting

\* A call that moves keeps what it remembers.
LEMMA CallMoves ==
    ASSUME BillingTypeOK, NEW c \in Subscribers, subscriber[c].at # "idle",
           NEW place \in {"revoke", "grant"}, subscriber' = [subscriber EXCEPT ![c].at = place]
    PROVE  /\ OnlyCall(c) /\ subscriber' \in [Subscribers -> SubscriberRecords]
           /\ subscriber'[c].at = place /\ subscriber'[c].id = subscriber[c].id
  <1>1. [subscriber[c] EXCEPT !.at = place] \in
           [at : {"write", "revoke", "grant"}, id : Subs, now : Nat \ {0}, seen : SUBSET Subs]
    BY CallOf
  <1>2. [subscriber[c] EXCEPT !.at = place].at = place
        /\ [subscriber[c] EXCEPT !.at = place].id = subscriber[c].id
    BY CallOf
  <1>3. subscriber'[c] = [subscriber[c] EXCEPT !.at = place] /\ OnlyCall(c)
    BY DEF BillingTypeOK, OnlyCall
  <1>4. subscriber' \in [Subscribers -> SubscriberRecords]
    BY <1>1, <1>3 DEF BillingTypeOK, SubscriberRecords
  <1> QED BY <1>2, <1>3, <1>4

\* A call that is done, or that dies, is forgotten.
LEMMA CallEnds ==
    ASSUME BillingTypeOK, NEW c \in Subscribers,
           subscriber' = [subscriber EXCEPT ![c] = Resting]
    PROVE  /\ OnlyCall(c) /\ subscriber' \in [Subscribers -> SubscriberRecords]
           /\ subscriber'[c].at = "idle"
  BY DEF BillingTypeOK, SubscriberRecords, Resting, OnlyCall

\* A call begins for a row that is not there and that no other call is to write.
LEMMA CallBegins ==
    ASSUME BillingTypeOK, NEW c \in Subscribers, NEW s \in Subs, BeginSubscribe(c, s)
    PROVE  /\ OnlyCall(c) /\ subscriber' \in [Subscribers -> SubscriberRecords]
           /\ subscriber'[c].at = "write" /\ subscriber'[c].id = s /\ sub[s].status = "none"
           /\ \A d \in Subscribers : subscriber[d].at # "idle" => subscriber[d].id # s
  <1>1. period \in Nat \ {0}
    BY SubscriptionsAssumption DEF BillingTypeOK, Periods
  <1>2. subscriber'[c] = [at |-> "write", id |-> s, now |-> period,
                          seen |-> {o \in Subs : sub[o].status = "active"}]
        /\ OnlyCall(c)
    BY DEF BeginSubscribe, BillingTypeOK, OnlyCall
  <1>3. subscriber' \in [Subscribers -> SubscriberRecords]
    BY <1>1, <1>2 DEF BeginSubscribe, BillingTypeOK, SubscriberRecords
  <1> QED BY <1>2, <1>3 DEF BeginSubscribe, Absent, Resting

\* The write of a call: the new row, the ones it deactivates, and the rest.
LEMMA CallWrites ==
    ASSUME BillingTypeOK, NEW c \in Subscribers, CommitSubscribe(c)
    PROVE  /\ subscriber[c].at = "write" /\ subscriber[c].id \in Subs
           /\ OnlyCall(c) /\ subscriber' \in [Subscribers -> SubscriberRecords]
           /\ subscriber'[c].at = "revoke" /\ subscriber'[c].id = subscriber[c].id
           /\ sub' \in [Subs -> SubRows]
           /\ sub'[subscriber[c].id].status = "active" /\ sub'[subscriber[c].id].started >= 1
           /\ sub'[subscriber[c].id].next = sub'[subscriber[c].id].started + 1
           /\ \A s \in Subs \ {subscriber[c].id} :
                 /\ sub'[s].started = sub[s].started /\ sub'[s].next = sub[s].next
                 /\ \/ sub'[s].status = sub[s].status
                    \/ sub[s].status = "active" /\ sub'[s].status = "inactive"
  <1>1. subscriber[c].at = "write" /\ subscriber[c].id \in Subs /\ subscriber[c].now \in Nat \ {0}
    BY CallOf DEF CommitSubscribe
  <1>2. /\ OnlyCall(c) /\ subscriber' \in [Subscribers -> SubscriberRecords]
        /\ subscriber'[c].at = "revoke" /\ subscriber'[c].id = subscriber[c].id
    BY <1>1, CallMoves DEF CommitSubscribe
  <1>a. sub' = [o \in Subs |->
           CASE o = subscriber[c].id -> [status |-> "active", started |-> subscriber[c].now,
                                         next |-> NextBilling(subscriber[c].now)]
             [] o \in subscriber[c].seen \ {subscriber[c].id} /\ sub[o].status = "active" ->
                   [sub[o] EXCEPT !.status = "inactive"]
             [] OTHER -> sub[o]]
    BY DEF CommitSubscribe
  <1>3. sub'[subscriber[c].id] = [status |-> "active", started |-> subscriber[c].now,
                                  next |-> subscriber[c].now + 1]
    BY <1>1, <1>a DEF NextBilling
  <1>4. \A s \in Subs \ {subscriber[c].id} :
           \/ sub'[s] = sub[s]
           \/ sub[s].status = "active" /\ sub'[s] = [sub[s] EXCEPT !.status = "inactive"]
    <2> TAKE s \in Subs \ {subscriber[c].id}
    <2>1. CASE s \in subscriber[c].seen /\ sub[s].status = "active"
      BY <2>1, <1>a
    <2>2. CASE ~(s \in subscriber[c].seen /\ sub[s].status = "active")
      BY <2>2, <1>a
    <2> QED BY <2>1, <2>2
  <1>5. sub' = [s \in Subs |-> sub'[s]]
    BY DEF CommitSubscribe
  <1>6. sub \in [Subs -> SubRows]
    BY DEF BillingTypeOK
  <1>7. sub' \in [Subs -> SubRows]
    BY <1>1, <1>3, <1>4, <1>5, <1>6 DEF SubRows
  <1>8. \A s \in Subs \ {subscriber[c].id} :
           /\ sub'[s].started = sub[s].started /\ sub'[s].next = sub[s].next
           /\ \/ sub'[s].status = sub[s].status
              \/ sub[s].status = "active" /\ sub'[s].status = "inactive"
    BY <1>4, <1>6 DEF SubRows
  <1> QED BY <1>1, <1>2, <1>3, <1>7, <1>8

\* The rows keep their shape whatever a subscribe call does.
LEMMA CallTypes ==
    ASSUME BillingTypeOK, NEW c \in Subscribers, SubscriberStep(c)
    PROVE  BillingTypeOK' /\ RowsStay
  <1>1. period' = period /\ runner' = runner /\ captures' = captures
    BY DEF SubscriberStep, BeginSubscribe, CommitSubscribe, SyncRevoke, SyncGrant, SubscribeDies,
           billingHistory
  <1>2. subscriber' \in [Subscribers -> SubscriberRecords]
    BY CallBegins, CallWrites, CallMoves, CallEnds
       DEF SubscriberStep, SyncRevoke, SyncGrant, SubscribeDies
  <1>3. /\ sub' \in [Subs -> SubRows] /\ RowsStay
        /\ \A s \in Subs : sub'[s].status = "none" \/ sub'[s].next >= 1
    <2>1. CASE CommitSubscribe(c)
      <3>1. sub \in [Subs -> SubRows] /\ \A s \in Subs : sub[s].status = "none" \/ sub[s].next >= 1
        BY DEF BillingTypeOK
      <3> QED BY <2>1, <3>1, CallWrites DEF RowsStay, SubRows
    <2>2. CASE UNCHANGED sub
      BY <2>2 DEF BillingTypeOK, RowsStay
    <2> QED BY <2>1, <2>2 DEF SubscriberStep, BeginSubscribe, SyncRevoke, SyncGrant,
                              SubscribeDies, tables
  <1>4. RunnerTypeOK'
    BY <1>1, <1>3 DEF BillingTypeOK, RunnerTypeOK, IsPass, RowsStay
  <1> QED BY <1>1, <1>2, <1>3, <1>4 DEF BillingTypeOK

\* The clock only moves the periods on.
LEMMA ClockTypes ==
    ASSUME BillingTypeOK, NextPeriod
    PROVE  BillingTypeOK' /\ RowsStay
  <1>1. period' \in Periods /\ period <= period' /\ period \in Periods
    BY SubscriptionsAssumption DEF BillingTypeOK, NextPeriod, Periods
  <1>2. RunnerTypeOK'
    BY <1>1, SubscriptionsAssumption
       DEF BillingTypeOK, RunnerTypeOK, IsPass, NextPeriod, tables, Periods
  <1> QED BY <1>1, <1>2 DEF BillingTypeOK, NextPeriod, tables, billingHistory, RowsStay

\* The shape of the rows holds from the start.
LEMMA BillingStarts ==
    ASSUME SubscriptionsInit
    PROVE  BillingTypeOK
  <1>1. \E seeded \in SUBSET Pending :
           sub = [s \in Subs |-> IF s \in seeded
                                 THEN [status |-> "pending", started |-> 0, next |-> 1]
                                 ELSE Absent]
    BY DEF SubscriptionsInit
  <1>2. sub \in [Subs -> SubRows] /\ \A s \in Subs : sub[s].status = "none" \/ sub[s].next >= 1
    BY <1>1 DEF SubRows, Absent
  <1>3. runner = [r \in Runners |-> Resting] /\ subscriber = [c \in Subscribers |-> Resting]
        /\ captures = [s \in Subs |-> [p \in Periods |-> 0]] /\ period = 1
    BY DEF SubscriptionsInit
  <1>4. subscriber \in [Subscribers -> SubscriberRecords] /\ RunnerTypeOK
    BY <1>3 DEF SubscriberRecords, RunnerTypeOK, Resting
  <1>5. period \in Periods /\ captures \in [Subs -> [Periods -> Nat]]
    BY <1>3, SubscriptionsAssumption DEF Periods
  <1> QED BY <1>2, <1>4, <1>5 DEF BillingTypeOK

\* A step that changes nothing keeps them.
LEMMA BillingStutters ==
    ASSUME BillingTypeOK, UNCHANGED subscriptionsVars
    PROVE  BillingTypeOK'
  BY DEF BillingTypeOK, subscriptionsVars, tables, billingHistory, RunnerTypeOK, IsPass

\* The rows of student_subscription and the records of passes and calls are well formed.
THEOREM BillingTypeCorrect == SubscriptionsSpec => []BillingTypeOK
  <1>1. SubscriptionsInit => BillingTypeOK
    BY BillingStarts
  <1>2. BillingTypeOK /\ [SubscriptionsNext]_subscriptionsVars => BillingTypeOK'
    BY PassTypes, CallTypes, ClockTypes, BillingStutters DEF SubscriptionsNext
  <1> QED BY <1>1, <1>2, PTL DEF SubscriptionsSpec

(****************************************************************************)
(* No period is passed over.                                                *)
(****************************************************************************)
\* What stands in for the charge of a period that the next billing date has passed,
PeriodCovered(s, p) ==
    \/ captures[s][p] > 0
    \/ <<s, p>> \in lost
    \/ \E r \in Runners : At(r, {"charge", "failed"}) /\ CurrentPeriod(r) = <<s, p>>

\* and for the payment row of a charge.
ChargeCovered(s, p) ==
    \/ <<s, p>> \in booked \cup lost
    \/ \E r \in Runners : At(r, {"charged"}) /\ CurrentPeriod(r) = <<s, p>>

\* Every period passed over and every charge is covered,
AllCovered ==
    \A s \in Subs, p \in Periods :
        /\ sub[s].started < p /\ p < sub[s].next => PeriodCovered(s, p)
        /\ captures[s][p] > 0 => ChargeCovered(s, p)

\* which is the invariant with these names.
LEMMA SkippedMeans == NoPeriodSkipped <=> AllCovered
  BY DEF AllCovered, NoPeriodSkipped, PeriodCovered, ChargeCovered, At

\* The same of the state after a step.
LEMMA SkippedMeansNext == NoPeriodSkipped' <=> AllCovered'
  BY SkippedMeans, PTL

\* A pass that is not charging covers nothing; the others go on covering.
LEMMA OthersCover ==
    ASSUME NEW r \in Runners, OnlyPass(r), NEW s \in Subs, NEW p \in Periods
    PROVE  /\ /\ PeriodCovered(s, p) /\ captures'[s][p] = captures[s][p] /\ lost \subseteq lost'
              /\ ~At(r, {"charge", "failed"}) \/ CurrentPeriod(r) # <<s, p>>
              => PeriodCovered(s, p)'
           /\ /\ ChargeCovered(s, p) /\ booked \subseteq booked' /\ lost \subseteq lost'
              /\ ~At(r, {"charged"}) \/ CurrentPeriod(r) # <<s, p>>
              => ChargeCovered(s, p)'
  BY DEF OnlyPass, PeriodCovered, ChargeCovered, At, CurrentPeriod, DueDate

\* Nothing is uncovered while no pass, charge or payment row changes.
LEMMA CoverStays ==
    ASSUME NoPeriodSkipped, runner' = runner, captures' = captures, lost' = lost, booked' = booked,
           \A s \in Subs, p \in Periods :
              sub'[s].started < p /\ p < sub'[s].next => sub[s].started < p /\ p < sub[s].next
    PROVE  NoPeriodSkipped'
  <1>1. \A r \in Runners : CurrentPeriod(r)' = CurrentPeriod(r)
    BY DEF CurrentPeriod, DueDate
  <1> QED BY <1>1 DEF NoPeriodSkipped

\* A step of a pass: the date it moves past is claimed, given back or lost, and the
\* charge it makes is booked or lost.
LEMMA PassSkipsNothing ==
    ASSUME BillingTypeOK, NoPeriodSkipped, NEW r \in Runners, RunnerStep(r)
    PROVE  NoPeriodSkipped'
  <1> SUFFICES ASSUME NEW s \in Subs, NEW p \in Periods
               PROVE  /\ sub'[s].started < p /\ p < sub'[s].next => PeriodCovered(s, p)'
                      /\ captures'[s][p] > 0 => ChargeCovered(s, p)'
    <2>1. ASSUME \A s \in Subs, p \in Periods :
                    /\ sub'[s].started < p /\ p < sub'[s].next => PeriodCovered(s, p)'
                    /\ captures'[s][p] > 0 => ChargeCovered(s, p)'
          PROVE  NoPeriodSkipped'
      BY <2>1, SkippedMeansNext DEF AllCovered
    <2> QED BY <2>1
  <1>1. /\ sub[s].started < p /\ p < sub[s].next => PeriodCovered(s, p)
        /\ captures[s][p] > 0 => ChargeCovered(s, p)
    BY SkippedMeans DEF AllCovered
  <1>2. sub \in [Subs -> SubRows] /\ captures \in [Subs -> [Periods -> Nat]] /\ p \in Nat
    BY DEF BillingTypeOK, Periods
  <1>3. CASE ListDue(r)
    <2>a. runner[r].at = "idle"
      BY <1>3 DEF ListDue, Resting
    <2>1. OnlyPass(r) /\ runner[r].at = "idle"
      BY <1>3, <2>a, PassLists
    <2> QED BY <1>1, <1>3, <2>1, OthersCover DEF ListDue, At, tables, billingHistory
  <1>4. ASSUME NEW t \in Subs, ClaimPeriod(r, t)
        PROVE  /\ sub'[s].started < p /\ p < sub'[s].next => PeriodCovered(s, p)'
               /\ captures'[s][p] > 0 => ChargeCovered(s, p)'
    <2>1. captures' = captures /\ booked' = booked /\ runner[r].at = "claim" /\ lost \subseteq lost'
          /\ OnlyPass(r)
      BY <1>4, PassClaims DEF ClaimPeriod, MovesTo, GoesOn
    <2>2. captures'[s][p] > 0 => ChargeCovered(s, p)'
      BY <1>1, <2>1, OthersCover DEF At
    <2>3. PeriodCovered(s, p) => PeriodCovered(s, p)'
      BY <2>1, OthersCover DEF At
    <2>4. CASE UNCHANGED sub
      BY <1>1, <2>2, <2>3, <2>4
    <2>5. CASE /\ MovesTo(r, "charge") /\ runner'[r].cur = t
               /\ sub' = [sub EXCEPT ![t].next = runner[r].read[t].next + 1]
               /\ lost' = lost \cup {<<t, d>> : d \in sub[t].next .. runner[r].read[t].next - 1}
      <3>1. CASE s # t
        BY <1>1, <1>2, <2>2, <2>3, <2>5, <3>1
      <3>2. CASE s = t
        <4>1. runner[r].read[s].next \in Nat /\ sub[s].next \in Nat
          BY <1>2, <1>4, <3>2, PassClaims DEF IsPass, SubRows
        <4>2. sub'[s].next = runner[r].read[s].next + 1 /\ sub'[s].started = sub[s].started
          BY <1>2, <2>5, <3>2 DEF SubRows
        <4>3. CASE p = runner[r].read[s].next
          <5>1. CurrentPeriod(r)' = <<s, p>> /\ At(r, {"charge", "failed"})'
            BY <2>5, <3>2, <4>3 DEF CurrentPeriod, DueDate, MovesTo, At
          <5> QED BY <2>2, <5>1 DEF PeriodCovered
        <4>4. CASE p < runner[r].read[s].next /\ p >= sub[s].next
          <5>1. <<s, p>> \in lost'
            BY <1>2, <2>5, <3>2, <4>1, <4>4
          <5> QED BY <2>2, <5>1 DEF PeriodCovered
        <4>5. CASE p < sub[s].next
          BY <1>1, <2>2, <2>3, <4>2, <4>5
        <4>6. CASE ~(p < sub'[s].next)
          BY <2>2, <4>6
        <4>7. p = runner[r].read[s].next \/ (p < runner[r].read[s].next /\ p >= sub[s].next)
              \/ p < sub[s].next \/ ~(p < sub'[s].next)
          <5>1. \A a, b, d \in Nat : d = a \/ (d < a /\ d >= b) \/ d < b \/ ~(d < a + 1)
            OBVIOUS
          <5>2. p \in Nat /\ sub'[s].next = runner[r].read[s].next + 1
            BY <1>2, <4>2
          <5> QED BY <4>1, <5>1, <5>2
        <4> QED BY <4>3, <4>4, <4>5, <4>6, <4>7
      <3> QED BY <3>1, <3>2
    <2> QED BY <1>4, <2>4, <2>5, PassClaims
  <1>5. CASE ChargeSucceeds(r)
    <2>1. MovesTo(r, "charged") /\ SameRow(r) /\ runner[r].at = "charge" /\ OnlyPass(r)
      BY <1>5, PassMoves DEF ChargeSucceeds, Charging, MovesTo
    <2>2. sub' = sub /\ lost' = lost /\ booked' = booked
          /\ captures' = [captures EXCEPT ![runner[r].cur][DueDate(r)] = @ + 1]
      BY <1>5 DEF ChargeSucceeds, tables
    <2>3. CASE CurrentPeriod(r) = <<s, p>>
      <3>1. captures'[s][p] > 0
        BY <1>2, <2>2, <2>3 DEF CurrentPeriod
      <3>2. CurrentPeriod(r)' = <<s, p>> /\ At(r, {"charged"})'
        BY <2>1, <2>3 DEF CurrentPeriod, DueDate, MovesTo, SameRow, At
      <3> QED BY <3>1, <3>2 DEF PeriodCovered, ChargeCovered
    <2>4. CASE CurrentPeriod(r) # <<s, p>>
      <3>1. captures'[s][p] = captures[s][p]
        BY <1>2, <2>2, <2>4 DEF CurrentPeriod
      <3> QED BY <1>1, <2>1, <2>2, <2>4, <3>1, OthersCover
    <2> QED BY <2>3, <2>4
  <1>6. CASE ChargeFails(r)
    <2>1. MovesTo(r, "failed") /\ SameRow(r) /\ runner[r].at = "charge" /\ OnlyPass(r)
      BY <1>6, PassMoves DEF ChargeFails, Charging, MovesTo
    <2>2. sub' = sub /\ lost' = lost /\ booked' = booked /\ captures' = captures
      BY <1>6 DEF ChargeFails, tables, billingHistory
    <2>3. captures'[s][p] > 0 => ChargeCovered(s, p)'
      BY <1>1, <2>1, <2>2, OthersCover DEF At
    <2>4. CASE CurrentPeriod(r) = <<s, p>>
      <3>1. CurrentPeriod(r)' = <<s, p>> /\ At(r, {"charge", "failed"})'
        BY <2>1, <2>4 DEF CurrentPeriod, DueDate, MovesTo, SameRow, At
      <3> QED BY <2>3, <3>1 DEF PeriodCovered
    <2>5. CASE CurrentPeriod(r) # <<s, p>>
      BY <1>1, <2>1, <2>2, <2>3, <2>5, OthersCover
    <2> QED BY <2>4, <2>5
  <1>7. CASE BookPayment(r)
    <2>1. runner[r].at = "charged" /\ OnlyPass(r)
      BY <1>7, PassMoves, PassContinues DEF BookPayment, Charging, MovesTo, GoesOn
    <2>2. sub' = sub /\ lost' = lost /\ captures' = captures
          /\ booked' = booked \cup {CurrentPeriod(r)}
      BY <1>7 DEF BookPayment, billingHistory
    <2>3. PeriodCovered(s, p) => PeriodCovered(s, p)'
      BY <2>1, <2>2, OthersCover DEF At
    <2>4. ChargeCovered(s, p) => ChargeCovered(s, p)'
      <3>1. CASE CurrentPeriod(r) = <<s, p>>
        BY <2>2, <3>1 DEF ChargeCovered
      <3>2. CASE CurrentPeriod(r) # <<s, p>>
        BY <2>1, <2>2, <3>2, OthersCover
      <3> QED BY <3>1, <3>2
    <2> QED BY <1>1, <2>2, <2>3, <2>4
  <1>8. CASE ActivatePending(r)
    <2>1. runner[r].at = "activate" /\ OnlyPass(r)
      BY <1>8, PassContinues DEF ActivatePending, MovesTo, GoesOn
    <2>2. sub'[s].started = sub[s].started /\ sub'[s].next = sub[s].next
      BY <1>2, <1>8 DEF ActivatePending, OthersActive, SubRows
    <2> QED BY <1>1, <1>8, <2>1, <2>2, OthersCover DEF ActivatePending, At, billingHistory
  <1>9. CASE RollbackClaim(r)
    <2>1. runner[r].at = "failed" /\ OnlyPass(r) /\ captures' = captures /\ booked' = booked
          /\ lost \subseteq lost'
      BY <1>9, PassContinues DEF RollbackClaim, MovesTo, GoesOn
    <2>2. captures'[s][p] > 0 => ChargeCovered(s, p)'
      BY <1>1, <2>1, OthersCover DEF At
    <2>3. CASE CurrentPeriod(r) # <<s, p>>
      <3>1. PeriodCovered(s, p) => PeriodCovered(s, p)'
        BY <2>1, <2>3, OthersCover
      <3>2. DueDate(r) \in Nat
        BY <1>9, CurrentRow DEF RollbackClaim, Charging, Periods
      <3>3. sub'[s].started = sub[s].started
            /\ (sub'[s].next = sub[s].next
                \/ (sub[s].next = DueDate(r) + 1 /\ sub'[s].next = DueDate(r)))
        BY <1>2, <1>9 DEF RollbackClaim, GiveBackPeriod, NextBilling, SubRows
      <3> QED BY <1>1, <1>2, <2>2, <3>1, <3>2, <3>3
    <2>4. CASE CurrentPeriod(r) = <<s, p>> /\ GiveBackPeriod(r)
      <3>1. sub'[s].next = p
        BY <1>2, <1>9, <2>4 DEF RollbackClaim, CurrentPeriod, SubRows
      <3> QED BY <1>2, <2>2, <3>1
    <2>5. CASE CurrentPeriod(r) = <<s, p>> /\ ~GiveBackPeriod(r)
      <3>1. <<s, p>> \in lost'
        BY <1>9, <2>5 DEF RollbackClaim, GiveBackPeriod
      <3> QED BY <2>2, <3>1 DEF PeriodCovered
    <2> QED BY <2>3, <2>4, <2>5
  <1>10. CASE PassDies(r)
    <2>1. OnlyPass(r) /\ sub' = sub /\ captures' = captures /\ booked' = booked /\ lost \subseteq lost'
      BY <1>10, PassStops DEF PassDies, tables
    <2>2. CASE CurrentPeriod(r) = <<s, p>> /\ runner[r].at \in {"charge", "charged", "failed"}
      <3>1. <<s, p>> \in lost'
        BY <1>10, <2>2 DEF PassDies
      <3> QED BY <3>1 DEF PeriodCovered, ChargeCovered
    <2>3. CASE CurrentPeriod(r) # <<s, p>> \/ runner[r].at \notin {"charge", "charged", "failed"}
      BY <1>1, <2>1, <2>3, OthersCover DEF At
    <2> QED BY <2>2, <2>3
  <1> QED BY <1>3, <1>4, <1>5, <1>6, <1>7, <1>8, <1>9, <1>10 DEF RunnerStep

\* A subscribe call starts a subscription whose first period is paid with it.
LEMMA CallSkipsNothing ==
    ASSUME BillingTypeOK, NoPeriodSkipped, NEW c \in Subscribers, SubscriberStep(c)
    PROVE  NoPeriodSkipped'
  <1>1. runner' = runner /\ captures' = captures /\ lost' = lost /\ booked' = booked
    BY DEF SubscriberStep, BeginSubscribe, CommitSubscribe, SyncRevoke, SyncGrant, SubscribeDies,
           billingHistory, tables
  <1>2. CASE UNCHANGED sub
    BY <1>1, <1>2, CoverStays
  <1>3. CASE CommitSubscribe(c)
    <2>1. \A s \in Subs, p \in Periods :
             sub'[s].started < p /\ p < sub'[s].next => sub[s].started < p /\ p < sub[s].next
      BY <1>3, CallWrites DEF SubRows, Periods
    <2> QED BY <1>1, <2>1, CoverStays
  <1> QED BY <1>2, <1>3 DEF SubscriberStep, BeginSubscribe, SyncRevoke, SyncGrant, SubscribeDies,
                            tables

\* No billing period of a subscription is passed over uncharged, and no charge is left
\* out of the payment table, except in the ways the history names (runDue).
THEOREM NoPeriodEverSkipped == SubscriptionsSpec => []NoPeriodSkipped
  <1>1. SubscriptionsInit => NoPeriodSkipped
    <2> SUFFICES ASSUME SubscriptionsInit PROVE NoPeriodSkipped
      OBVIOUS
    <2>1. \A s \in Subs : sub[s].next <= 1 /\ sub[s].next \in Nat
      BY DEF SubscriptionsInit, Absent
    <2>2. \A s \in Subs, p \in Periods : captures[s][p] = 0 /\ p \in Nat /\ p >= 1
      BY DEF SubscriptionsInit, Periods
    <2> QED BY <2>1, <2>2 DEF NoPeriodSkipped
  <1>2. BillingTypeOK /\ NoPeriodSkipped /\ [SubscriptionsNext]_subscriptionsVars => NoPeriodSkipped'
    <2>1. NoPeriodSkipped /\ (NextPeriod \/ UNCHANGED subscriptionsVars) => NoPeriodSkipped'
      BY CoverStays DEF NextPeriod, subscriptionsVars, tables, billingHistory
    <2> QED BY <2>1, PassSkipsNothing, CallSkipsNothing DEF SubscriptionsNext
  <1> QED BY <1>1, <1>2, BillingTypeCorrect, PTL DEF SubscriptionsSpec

(****************************************************************************)
(* The plan of the student.                                                 *)
(****************************************************************************)
\* The grade comes from an active subscription, and any other active one was left so
\* by a plan change that had not seen it.
GradeIsActive ==
    /\ activeSub = NoSub \/ (activeSub \in Subs /\ sub[activeSub].status = "active")
    /\ \A s \in Subs : sub[s].status = "active" => s \in {activeSub} \cup beside

\* A pass activates a pending subscription only after its charge, and no pending
\* subscription got active in another way.
PaidFirst ==
    /\ \A r \in Runners : At(r, {"charged", "activate"}) => captures[runner[r].cur][DueDate(r)] > 0
    /\ \A s \in Pending : sub[s].started = 0 /\ sub[s].status \in {"active", "inactive"} =>
          \E p \in Periods : captures[s][p] > 0

\* Until a sync is cut short or overlaps, one call at a time syncs, for the
\* subscription that gives the grade.
SyncedInTurn == ~unsynced =>
    /\ \A c \in Subscribers : Syncing(c) => /\ subscriber[c].id = activeSub
                                            /\ activeSub # NoSub
                                            /\ \A d \in Subscribers : Syncing(d) => d = c
                                            /\ subscriber[c].at = "grant" => bundle = {}
    /\ (\A c \in Subscribers : ~Syncing(c)) =>
          bundle = (IF activeSub = NoSub THEN {} ELSE {activeSub})

MembershipInv == GradeIsActive /\ PaidFirst /\ SyncedInTurn

\* The invariant says what is promised.
LEMMA MembershipHolds ==
    ASSUME MembershipInv
    PROVE  MembershipConsistent
  BY DEF MembershipInv, GradeIsActive, PaidFirst, SyncedInTurn, MembershipConsistent

\* Only an activation, of a row that was charged, touches the plan in a pass.
LEMMA PassKeepsPlan ==
    ASSUME BillingTypeOK, MembershipInv, NEW r \in Runners, RunnerStep(r)
    PROVE  MembershipInv'
  <1> DEFINE PlanKept ==
                /\ activeSub' = activeSub /\ bundle' = bundle /\ unsynced' = unsynced
                /\ beside' = beside
                /\ \A s \in Subs : sub'[s].status = sub[s].status /\ sub'[s].started = sub[s].started
  <1>1. subscriber' = subscriber
    BY DEF RunnerStep, ListDue, ClaimPeriod, ChargeSucceeds, ChargeFails, BookPayment,
           ActivatePending, RollbackClaim, PassDies
  <1>2. sub \in [Subs -> SubRows] /\ captures \in [Subs -> [Periods -> Nat]] /\ Pending \subseteq Subs
    BY SubscriptionsAssumption DEF BillingTypeOK
  <1>3. ASSUME PlanKept PROVE GradeIsActive' /\ SyncedInTurn'
    BY <1>1, <1>3 DEF MembershipInv, GradeIsActive, SyncedInTurn, Syncing
  <1>4. ASSUME PlanKept, captures' = captures, OnlyPass(r),
               At(r, {"charged", "activate"})' =>
                  At(r, {"charged", "activate"}) /\ (CurrentPeriod(r)' = CurrentPeriod(r))
        PROVE  MembershipInv'
    <2>1. \A q \in Runners \ {r} : runner'[q] = runner[q]
      BY <1>4 DEF OnlyPass
    <2>2. PaidFirst'
      BY <1>2, <1>4, <2>1 DEF MembershipInv, PaidFirst, At, DueDate, CurrentPeriod
    <2> QED BY <1>3, <1>4, <2>2 DEF MembershipInv
  <1>5. CASE ListDue(r)
    BY <1>4, <1>5, PassLists DEF ListDue, At, tables, billingHistory
  <1>6. ASSUME NEW s \in Subs, ClaimPeriod(r, s) PROVE MembershipInv'
    <2>1. PlanKept /\ captures' = captures
      <3>1. CASE sub' = [sub EXCEPT ![s].next = runner[r].read[s].next + 1]
        BY <1>2, <1>6, <3>1 DEF ClaimPeriod, SubRows
      <3>2. CASE UNCHANGED sub
        BY <1>6, <3>2 DEF ClaimPeriod
      <3> QED BY <1>6, <3>1, <3>2, PassClaims
    <2>2. OnlyPass(r) /\ ~At(r, {"charged", "activate"})'
      BY <1>6, PassClaims DEF MovesTo, GoesOn, At, Resting
    <2> QED BY <1>4, <2>1, <2>2
  <1>7. CASE ChargeSucceeds(r)
    <2>1. MovesTo(r, "charged") /\ SameRow(r) /\ OnlyPass(r)
      BY <1>7, PassMoves DEF ChargeSucceeds, Charging, MovesTo
    <2>2. runner[r].cur \in Subs /\ DueDate(r) \in Periods /\ captures[runner[r].cur][DueDate(r)] \in Nat
      BY <1>7, CurrentRow DEF ChargeSucceeds, Charging
    <2>3. PlanKept
      BY <1>7 DEF ChargeSucceeds, tables
    <2>4. captures' = [captures EXCEPT ![runner[r].cur][DueDate(r)] = @ + 1]
      BY <1>7 DEF ChargeSucceeds
    <2>5. \A s \in Subs, p \in Periods : captures[s][p] > 0 => captures'[s][p] > 0
      BY <1>2, <2>2, <2>4
    <2>6. captures'[runner[r].cur][DueDate(r)] > 0
      BY <1>2, <2>2, <2>4
    <2>7. \A q \in Runners : At(q, {"charged", "activate"})' =>
             captures'[runner'[q].cur][DueDate(q)'] > 0
      <3> TAKE q \in Runners
      <3>1. CASE q = r
        <4>1. runner'[q].cur = runner[r].cur /\ DueDate(q)' = DueDate(r)
          BY <2>1, <3>1 DEF MovesTo, SameRow, DueDate
        <4> QED BY <2>6, <4>1
      <3>2. CASE q # r
        <4>1. runner'[q] = runner[q] /\ DueDate(q)' = DueDate(q)
          BY <2>1, <3>2 DEF OnlyPass, DueDate
        <4>2. At(q, {"charged", "activate"}) =>
                 runner[q].cur \in Subs /\ DueDate(q) \in Periods
          BY CurrentRow DEF At, Charging
        <4> QED BY <2>5, <4>1, <4>2 DEF MembershipInv, PaidFirst, At
      <3> QED BY <3>1, <3>2
    <2>8. PaidFirst'
      BY <1>2, <2>3, <2>5, <2>7 DEF MembershipInv, PaidFirst
    <2> QED BY <1>3, <2>3, <2>8 DEF MembershipInv
  <1>8. CASE ChargeFails(r)
    <2>1. OnlyPass(r) /\ ~At(r, {"charged", "activate"})'
      BY <1>8, PassMoves DEF ChargeFails, Charging, MovesTo, At
    <2> QED BY <1>4, <1>8, <2>1 DEF ChargeFails, tables, billingHistory
  <1>9. CASE BookPayment(r)
    <2>1. PlanKept /\ captures' = captures
      BY <1>9 DEF BookPayment, billingHistory
    <2>2. (MovesTo(r, "activate") /\ SameRow(r)) \/ GoesOn(r)
      BY <1>9, PassMoves, PassContinues DEF BookPayment, Charging
    <2>3. CASE MovesTo(r, "activate") /\ SameRow(r)
      BY <1>4, <1>9, <2>1, <2>3
         DEF MovesTo, SameRow, At, BookPayment, CurrentPeriod, DueDate
    <2>4. CASE GoesOn(r)
      BY <1>4, <2>1, <2>4 DEF GoesOn, MovesTo, At, Resting
    <2> QED BY <2>2, <2>3, <2>4
  <1>10. CASE ActivatePending(r)
    <2> DEFINE t == runner[r].cur
    <2>1. t \in Subs /\ DueDate(r) \in Periods /\ captures[t][DueDate(r)] > 0
      BY <1>10, CurrentRow DEF ActivatePending, Charging, MembershipInv, PaidFirst, At
    <2>2. OnlyPass(r) /\ ~At(r, {"charged", "activate"})'
      BY <1>10, PassContinues DEF ActivatePending, GoesOn, MovesTo, At, Resting
    <2>3. activeSub' = t /\ unsynced' = TRUE /\ captures' = captures
      BY <1>10 DEF ActivatePending, billingHistory
    <2>4. sub'[t].status = "active"
      BY <1>2, <1>10, <2>1 DEF ActivatePending, OthersActive, SubRows
    <2>5. \A s \in Subs \ {t} : /\ sub'[s].started = sub[s].started
                                /\ \/ sub'[s].status = sub[s].status
                                   \/ sub[s].status = "active" /\ sub'[s].status = "inactive"
      BY <1>2, <1>10, <2>1 DEF ActivatePending, OthersActive, SubRows
    <2>6. GradeIsActive' /\ SyncedInTurn'
      <3>1. \A s \in Subs \ {t} : sub'[s].status # "active"
        BY <1>2, <1>10, <2>1 DEF ActivatePending, OthersActive, SubRows
      <3> QED BY <2>1, <2>3, <2>4, <3>1 DEF GradeIsActive, SyncedInTurn
    <2>7. \A q \in Runners \ {r} : runner'[q] = runner[q]
      BY <2>2 DEF OnlyPass
    <2>8. \A q \in Runners : At(q, {"charged", "activate"})' =>
             captures'[runner'[q].cur][DueDate(q)'] > 0
      BY <2>2, <2>3, <2>7 DEF MembershipInv, PaidFirst, At, DueDate
    <2>9. \A s \in Pending : sub'[s].started = 0 /\ sub'[s].status \in {"active", "inactive"} =>
             \E p \in Periods : captures'[s][p] > 0
      BY <1>2, <2>1, <2>3, <2>5 DEF MembershipInv, PaidFirst
    <2> QED BY <2>6, <2>8, <2>9 DEF MembershipInv, PaidFirst
  <1>11. CASE RollbackClaim(r)
    <2>1. PlanKept /\ captures' = captures
      BY <1>2, <1>11 DEF RollbackClaim, SubRows
    <2>2. OnlyPass(r) /\ ~At(r, {"charged", "activate"})'
      BY <1>11, PassContinues DEF RollbackClaim, GoesOn, MovesTo, At, Resting
    <2> QED BY <1>4, <2>1, <2>2
  <1>12. CASE PassDies(r)
    <2>1. OnlyPass(r) /\ ~At(r, {"charged", "activate"})'
      BY <1>12, PassStops DEF At, Resting
    <2> QED BY <1>4, <1>12, <2>1 DEF PassDies, tables
  <1> QED BY <1>5, <1>6, <1>7, <1>8, <1>9, <1>10, <1>11, <1>12 DEF RunnerStep

\* A call puts its own subscription in the place of the active ones, and syncs for it.
LEMMA CallKeepsPlan ==
    ASSUME BillingTypeOK, MembershipInv, NEW c \in Subscribers, SubscriberStep(c)
    PROVE  MembershipInv'
  <1>1. runner' = runner /\ captures' = captures
    BY DEF SubscriberStep, BeginSubscribe, CommitSubscribe, SyncRevoke, SyncGrant, SubscribeDies,
           billingHistory
  <1>2. \A r \in Runners : At(r, {"charged", "activate"})' =>
             captures'[runner'[r].cur][DueDate(r)'] > 0
    BY <1>1 DEF MembershipInv, PaidFirst, At, DueDate
  <1>3. Pending \subseteq Subs /\ NoSub \notin Subs
    BY SubscriptionsAssumption
  <1>4. ASSUME sub' = sub, activeSub' = activeSub, beside' = beside
        PROVE  GradeIsActive' /\ PaidFirst'
    BY <1>1, <1>2, <1>4 DEF MembershipInv, GradeIsActive, PaidFirst
  <1>5. ASSUME NEW s \in Subs, BeginSubscribe(c, s) PROVE MembershipInv'
    <2>1. \A d \in Subscribers : (Syncing(d)' <=> Syncing(d))
             /\ (Syncing(d) => subscriber'[d] = subscriber[d])
      BY <1>5, CallBegins DEF Syncing, OnlyCall, BeginSubscribe, Resting
    <2>2. sub' = sub /\ activeSub' = activeSub /\ bundle' = bundle /\ unsynced' = unsynced
          /\ beside' = beside
      BY <1>5 DEF BeginSubscribe, tables, billingHistory
    <2>3. SyncedInTurn'
      BY <2>1, <2>2 DEF MembershipInv, SyncedInTurn
    <2> QED BY <1>4, <2>2, <2>3 DEF MembershipInv
  <1>6. CASE CommitSubscribe(c)
    <2> DEFINE new == subscriber[c].id
    <2>1. activeSub' = new /\ new \in Subs /\ unsynced' = \E d \in Subscribers \ {c} : Syncing(d)
      BY <1>6, CallWrites DEF CommitSubscribe
    <2>2. GradeIsActive'
      <3>1. \A s \in Subs \ {new} : sub'[s].status = "active" => s \in beside'
        BY <1>6 DEF CommitSubscribe, BillingTypeOK
      <3> QED BY <1>6, <2>1, <3>1, CallWrites DEF GradeIsActive
    <2>3. PaidFirst'
      <3> SUFFICES ASSUME NEW s \in Pending, sub'[s].started = 0,
                          sub'[s].status \in {"active", "inactive"}
                   PROVE  \E p \in Periods : captures'[s][p] > 0
        BY <1>2 DEF PaidFirst
      <3>1. s # new
        BY <1>6, CallWrites
      <3>2. sub[s].started = 0 /\ sub[s].status \in {"active", "inactive"}
        BY <1>3, <1>6, <3>1, CallWrites
      <3> QED BY <1>1, <3>2 DEF MembershipInv, PaidFirst
    <2>4. SyncedInTurn'
      <3>1. CASE ~unsynced'
        <4>1. \A d \in Subscribers : Syncing(d)' => d = c
          BY <1>6, <2>1, <3>1, CallWrites DEF Syncing, OnlyCall
        <4>2. subscriber'[c].at = "revoke" /\ subscriber'[c].id = activeSub' /\ activeSub' # NoSub
          BY <1>3, <1>6, <2>1, CallWrites
        <4> QED BY <4>1, <4>2 DEF SyncedInTurn, Syncing
      <3> QED BY <3>1 DEF SyncedInTurn
    <2> QED BY <2>2, <2>3, <2>4 DEF MembershipInv
  <1>7. CASE SyncRevoke(c)
    <2>1. sub' = sub /\ activeSub' = activeSub /\ bundle' = {} /\ unsynced' = unsynced /\ Syncing(c)
          /\ beside' = beside
      BY <1>7 DEF SyncRevoke, RevokedBundle, Syncing, billingHistory
    <2>2. OnlyCall(c) /\ subscriber'[c].at = "grant" /\ subscriber'[c].id = subscriber[c].id
      BY <1>7, CallMoves DEF SyncRevoke
    <2>3. \A d \in Subscribers : /\ Syncing(d)' <=> Syncing(d)
                                 /\ subscriber'[d].id = subscriber[d].id
      BY <2>1, <2>2 DEF OnlyCall, Syncing
    <2>4. SyncedInTurn'
      BY <2>1, <2>3 DEF MembershipInv, SyncedInTurn
    <2> QED BY <1>4, <2>1, <2>4 DEF MembershipInv
  <1>8. CASE SyncGrant(c)
    <2>1. sub' = sub /\ activeSub' = activeSub /\ unsynced' = unsynced /\ Syncing(c)
          /\ bundle' = bundle \cup {subscriber[c].id} /\ subscriber[c].at = "grant"
          /\ beside' = beside
      BY <1>8 DEF SyncGrant, Syncing, billingHistory
    <2>2. OnlyCall(c) /\ ~Syncing(c)'
      BY <1>8, CallEnds DEF SyncGrant, Syncing
    <2>3. SyncedInTurn'
      <3>1. CASE ~unsynced
        <4>1. bundle' = {activeSub} /\ activeSub # NoSub
          BY <2>1, <3>1 DEF MembershipInv, SyncedInTurn
        <4>2. \A d \in Subscribers : ~Syncing(d)'
          BY <2>1, <2>2, <3>1 DEF MembershipInv, SyncedInTurn, OnlyCall, Syncing
        <4> QED BY <2>1, <4>1, <4>2 DEF SyncedInTurn
      <3> QED BY <2>1, <3>1 DEF SyncedInTurn
    <2> QED BY <1>4, <2>1, <2>3 DEF MembershipInv
  <1>9. CASE SubscribeDies(c)
    <2>1. sub' = sub /\ activeSub' = activeSub /\ bundle' = bundle
          /\ unsynced' = (unsynced \/ Syncing(c)) /\ beside' = beside
      BY <1>9 DEF SubscribeDies, tables, billingHistory
    <2>2. OnlyCall(c) /\ ~Syncing(c)'
      BY <1>9, CallEnds DEF SubscribeDies, Syncing
    <2>3. SyncedInTurn'
      <3>1. CASE ~unsynced /\ ~Syncing(c)
        <4>1. \A d \in Subscribers : (Syncing(d)' <=> Syncing(d))
                 /\ (Syncing(d) => subscriber'[d] = subscriber[d])
          BY <2>2, <3>1 DEF OnlyCall, Syncing
        <4> QED BY <2>1, <3>1, <4>1 DEF MembershipInv, SyncedInTurn
      <3> QED BY <2>1, <3>1 DEF SyncedInTurn
    <2> QED BY <1>4, <2>1, <2>3 DEF MembershipInv
  <1> QED BY <1>5, <1>6, <1>7, <1>8, <1>9 DEF SubscriberStep

\* The student's grade comes from an active subscription, no other is active but those a
\* plan change under way could not see, a pending one is active only
\* by a charge, and the services are those of the plan (doSubscribe, runDue,
\* syncSubscriptionProducts).
THEOREM MembershipAlwaysConsistent == SubscriptionsSpec => []MembershipConsistent
  <1>1. SubscriptionsInit => MembershipInv
    <2> SUFFICES ASSUME SubscriptionsInit PROVE MembershipInv
      OBVIOUS
    <2>1. \A s \in Subs : sub[s].status \notin {"active", "inactive"}
      BY DEF SubscriptionsInit, Absent
    <2>2. \A r \in Runners : runner[r].at = "idle"
      BY DEF SubscriptionsInit, Resting
    <2>3. \A c \in Subscribers : subscriber[c].at = "idle"
      BY DEF SubscriptionsInit, Resting
    <2>4. activeSub = NoSub /\ bundle = {} /\ Pending \subseteq Subs
      BY SubscriptionsAssumption DEF SubscriptionsInit
    <2> QED BY <2>1, <2>2, <2>3, <2>4
            DEF MembershipInv, GradeIsActive, PaidFirst, SyncedInTurn, At, Syncing
  <1>2. BillingTypeOK /\ MembershipInv /\ [SubscriptionsNext]_subscriptionsVars => MembershipInv'
    <2>1. MembershipInv /\ (NextPeriod \/ UNCHANGED subscriptionsVars) => MembershipInv'
      BY DEF MembershipInv, GradeIsActive, PaidFirst, SyncedInTurn, At, Syncing, DueDate,
             NextPeriod, subscriptionsVars, tables, billingHistory
    <2> QED BY <2>1, PassKeepsPlan, CallKeepsPlan DEF SubscriptionsNext
  <1> QED BY <1>1, <1>2, BillingTypeCorrect, MembershipHolds, PTL DEF SubscriptionsSpec

(****************************************************************************)
(* Two charges for one period.                                              *)
(****************************************************************************)
\* A row that is not there is not charged, and one call at most is to write it.
LEMMA AbsentRowsStay ==
    ASSUME BillingTypeOK, AbsentRows, SubscriptionsNext
    PROVE  AbsentRows'
  <1>1. RowsStay
    BY PassTypes, CallTypes, ClockTypes DEF SubscriptionsNext
  <1>2. captures \in [Subs -> [Periods -> Nat]]
    BY DEF BillingTypeOK
  <1>3. ASSUME captures' = captures PROVE \A s \in Subs : sub'[s].status = "none" =>
                                             \A p \in Periods : captures'[s][p] = 0
    BY <1>1, <1>3 DEF AbsentRows, RowsStay
  <1>4. ASSUME subscriber' = subscriber,
               \A s \in Subs : sub[s].status = "none" => sub'[s].status = "none",
               \A s \in Subs : sub'[s].status = "none" => \A p \in Periods : captures'[s][p] = 0
        PROVE  AbsentRows'
    <2>1. \A c \in Subscribers : subscriber[c].at = "write" => subscriber[c].id \in Subs
      BY CallOf
    <2> QED BY <1>4, <2>1 DEF AbsentRows
  <1>5. ASSUME NEW r \in Runners, RunnerStep(r) PROVE AbsentRows'
    <2>1. subscriber' = subscriber
      BY <1>5 DEF RunnerStep, ListDue, ClaimPeriod, ChargeSucceeds, ChargeFails, BookPayment,
           ActivatePending, RollbackClaim, PassDies
    <2>2. \A s \in Subs : sub[s].status = "none" => sub'[s].status = "none"
      <3>1. sub \in [Subs -> SubRows]
        BY DEF BillingTypeOK
      <3>2. CASE ActivatePending(r)
        <4>1. runner[r].cur \in Subs /\ sub[runner[r].cur].status # "none"
          BY <3>2, PassOf, CurrentRow DEF ActivatePending, Charging, IsPass
        <4> QED BY <3>1, <3>2, <4>1 DEF ActivatePending, OthersActive, SubRows
      <3>3. CASE \E s \in Subs, d \in Nat : sub' = [sub EXCEPT ![s].next = d]
        BY <3>1, <3>3 DEF SubRows
      <3>4. ASSUME NEW s \in Subs, ClaimPeriod(r, s)
            PROVE  sub' = sub \/ \E t \in Subs, d \in Nat : sub' = [sub EXCEPT ![t].next = d]
        <4>1. runner[r].read[s].next \in Nat
          BY <3>4, PassClaims DEF IsPass, SubRows
        <4>2. runner[r].read[s].next + 1 \in Nat
          BY <4>1
        <4> QED BY <3>4, <4>2, PassClaims
      <3>5. ASSUME RollbackClaim(r)
            PROVE  sub' = sub \/ \E t \in Subs, d \in Nat : sub' = [sub EXCEPT ![t].next = d]
        <4>1. runner[r].cur \in Subs /\ DueDate(r) \in Nat
          BY <3>5, CurrentRow DEF RollbackClaim, Charging, Periods
        <4> QED BY <3>5, <4>1 DEF RollbackClaim
      <3> QED BY <1>5, <3>2, <3>3, <3>4, <3>5
              DEF RunnerStep, ListDue, ChargeSucceeds, ChargeFails, BookPayment, PassDies, tables
    <2>3. \A s \in Subs : sub'[s].status = "none" => \A p \in Periods : captures'[s][p] = 0
      <3>1. CASE ChargeSucceeds(r)
        <4>1. sub[runner[r].cur].status # "none" /\ runner[r].cur \in Subs
          BY <3>1, PassOf, CurrentRow DEF ChargeSucceeds, Charging, IsPass
        <4>2. \A s \in Subs \ {runner[r].cur} : captures'[s] = captures[s]
          BY <1>2, <3>1 DEF ChargeSucceeds
        <4> QED BY <1>1, <4>1, <4>2 DEF AbsentRows, RowsStay
      <3>2. CASE captures' = captures
        BY <1>3, <3>2
      <3> QED BY <1>5, <3>1, <3>2
              DEF RunnerStep, ListDue, ClaimPeriod, ChargeFails, BookPayment, ActivatePending,
                  RollbackClaim, PassDies, billingHistory
    <2> QED BY <1>4, <2>1, <2>2, <2>3
  <1>6. ASSUME NEW c \in Subscribers, SubscriberStep(c) PROVE AbsentRows'
    <2>1. captures' = captures
      BY <1>6 DEF SubscriberStep, BeginSubscribe, CommitSubscribe, SyncRevoke, SyncGrant,
                  SubscribeDies, billingHistory
    <2> DEFINE Uncharged == \A s \in Subs : sub[s].status = "none" =>
                               \A p \in Periods : captures[s][p] = 0
               Writing == \A d \in Subscribers : subscriber[d].at = "write" =>
                             sub[subscriber[d].id].status = "none"
               OneEach == \A d, e \in Subscribers :
                             subscriber[d].at # "idle" /\ subscriber[e].at # "idle"
                                /\ subscriber[d].id = subscriber[e].id => d = e
    <2>2. Uncharged'
      BY <1>3, <2>1
    <2>3. Writing /\ OneEach
      BY DEF AbsentRows
    <2>4. ASSUME NEW s \in Subs, BeginSubscribe(c, s) PROVE Writing' /\ OneEach'
      <3>1. sub' = sub
        BY <2>4 DEF BeginSubscribe, tables
      <3> QED BY <2>3, <2>4, <3>1, CallBegins DEF OnlyCall
    <2>5. ASSUME CommitSubscribe(c) PROVE Writing' /\ OneEach'
      <3>1. Writing'
        <4> SUFFICES ASSUME NEW d \in Subscribers, subscriber'[d].at = "write"
                     PROVE  sub'[subscriber'[d].id].status = "none"
          OBVIOUS
        <4>1. d # c /\ subscriber'[d] = subscriber[d]
          BY <2>5, CallWrites DEF OnlyCall
        <4>2. subscriber[d].id \in Subs /\ subscriber[d].id # subscriber[c].id
          BY <2>3, <2>5, <4>1, CallOf, CallWrites
        <4> QED BY <2>3, <2>5, <4>1, <4>2, CallWrites
      <3>2. OneEach'
        BY <2>3, <2>5, CallWrites DEF OnlyCall
      <3> QED BY <3>1, <3>2
    <2>6. ASSUME SyncRevoke(c) PROVE Writing' /\ OneEach'
      <3>1. subscriber[c].at = "revoke" /\ sub' = sub /\ OnlyCall(c)
            /\ subscriber'[c].at = "grant" /\ subscriber'[c].id = subscriber[c].id
        BY <2>6, CallMoves DEF SyncRevoke
      <3> QED BY <2>3, <3>1 DEF OnlyCall
    <2>7. ASSUME SyncGrant(c) \/ SubscribeDies(c) PROVE Writing' /\ OneEach'
      <3>1. sub' = sub /\ OnlyCall(c) /\ subscriber'[c].at = "idle"
        BY <2>7, CallEnds DEF SyncGrant, SubscribeDies, tables
      <3> QED BY <2>3, <3>1 DEF OnlyCall
    <2>8. Writing' /\ OneEach'
      BY <1>6, <2>4, <2>5, <2>6, <2>7 DEF SubscriberStep
    <2> QED BY <2>2, <2>8 DEF AbsentRows
  <1>7. CASE NextPeriod
    BY <1>7 DEF NextPeriod, AbsentRows, tables, billingHistory
  <1> QED BY <1>5, <1>6, <1>7 DEF SubscriptionsNext

\* Of a period that is not over, the claim is one pass's, and the charge its only one.
SingleClaim(s, d) ==
    /\ \A q, r \in Runners : Claims(q, s, d) /\ Claims(r, s, d) => q = r
    /\ captures[s][d] > 0 => \A r \in Runners : Claims(r, s, d) => runner[r].at = "charged"
    /\ captures[s][d] > 0 \/ (\E r \in Runners : Claims(r, s, d)) => sub[s].next > d

\* A step of a pass keeps it so: what it claims has no claim and no charge yet.
LEMMA PassClaimsOnce ==
    ASSUME BillingTypeOK, ClaimedOnce, NEW r \in Runners, RunnerStep(r)
    PROVE  ClaimedOnce'
  <1> SUFFICES ASSUME NEW s \in Subs, NEW d \in Periods, period <= d
               PROVE  SingleClaim(s, d)'
    <2>1. period' = period
      BY DEF RunnerStep, ListDue, ClaimPeriod, ChargeSucceeds, ChargeFails, BookPayment,
           ActivatePending, RollbackClaim, PassDies
    <2> QED BY <2>1 DEF ClaimedOnce, SingleClaim
  <1>1. SingleClaim(s, d)
    BY DEF ClaimedOnce, SingleClaim
  <1>2. /\ sub \in [Subs -> SubRows] /\ captures \in [Subs -> [Periods -> Nat]]
        /\ d \in Nat /\ period \in Nat /\ sub[s].next \in Nat
    BY DEF BillingTypeOK, Periods, SubRows
  <1>3. ASSUME OnlyPass(r) PROVE \A q \in Runners \ {r} : /\ Claims(q, s, d)' <=> Claims(q, s, d)
                                                          /\ runner'[q] = runner[q]
    BY <1>3 DEF OnlyPass, Claims, At, CurrentPeriod, DueDate
  <1>4. ASSUME OnlyPass(r), ~Claims(r, s, d)', captures' = captures,
               sub'[s].next = sub[s].next
        PROVE  SingleClaim(s, d)'
    BY <1>1, <1>3, <1>4 DEF SingleClaim
  <1>5. CASE ListDue(r)
    <2>1. OnlyPass(r) /\ ~Claims(r, s, d)'
      BY <1>5, PassLists DEF Claims, At
    <2> QED BY <1>4, <1>5, <2>1 DEF ListDue, tables, billingHistory
  <1>6. ASSUME NEW t \in Subs, ClaimPeriod(r, t) PROVE SingleClaim(s, d)'
    <2>1. captures' = captures /\ ~Claims(r, s, d) /\ OnlyPass(r)
      BY <1>6, PassClaims DEF ClaimPeriod, Claims, At, MovesTo, GoesOn
    <2>2. CASE GoesOn(r) /\ UNCHANGED sub
      <3>1. ~Claims(r, s, d)'
        BY <2>2 DEF GoesOn, MovesTo, Claims, At, Resting
      <3> QED BY <1>4, <2>1, <2>2, <3>1
    <2>3. CASE /\ StillDue(t, runner[r].now) /\ MovesTo(r, "charge") /\ runner'[r].cur = t
               /\ sub' = [sub EXCEPT ![t].next = runner[r].read[t].next + 1]
      <3>1. CASE s # t
        <4>1. ~Claims(r, s, d)'
          BY <2>3, <3>1 DEF Claims, CurrentPeriod
        <4> QED BY <1>2, <1>4, <2>1, <2>3, <3>1, <4>1
      <3>2. CASE s = t
        <4>1. sub[s].next <= d
          <5>1. sub[s].next <= runner[r].now /\ runner[r].now <= period /\ runner[r].now \in Nat
            <6>1. IsPass(runner[r])
              BY <1>6, PassClaims
            <6> QED BY <2>3, <3>2, <6>1 DEF StillDue, IsPass, Periods
          <5> QED BY <1>2, <5>1
        <4>2. ~(captures[s][d] > 0) /\ \A q \in Runners : ~Claims(q, s, d)
          BY <1>1, <1>2, <4>1 DEF SingleClaim
        <4>3. runner[r].read[s].next \in Nat
          BY <1>6, <3>2, PassClaims DEF IsPass, SubRows
        <4>4. sub'[s].next = runner[r].read[s].next + 1
          BY <1>2, <2>3, <3>2 DEF SubRows
        <4>5. Claims(r, s, d)' => runner[r].read[s].next = d
          BY <2>3, <3>2 DEF Claims, CurrentPeriod, DueDate, MovesTo
        <4>6. Claims(r, s, d)' => sub'[s].next > d
          BY <1>2, <4>3, <4>4, <4>5
        <4> QED BY <1>3, <2>1, <4>2, <4>6 DEF SingleClaim
      <3> QED BY <3>1, <3>2
    <2> QED BY <1>6, <2>2, <2>3, PassClaims
  <1>7. CASE ChargeSucceeds(r)
    <2>1. MovesTo(r, "charged") /\ SameRow(r) /\ runner[r].at = "charge" /\ OnlyPass(r)
      BY <1>7, PassMoves DEF ChargeSucceeds, Charging, MovesTo
    <2>2. Claims(r, s, d)' <=> Claims(r, s, d)
      BY <2>1 DEF Claims, At, CurrentPeriod, DueDate, MovesTo, SameRow
    <2>3. sub' = sub /\ captures' = [captures EXCEPT ![runner[r].cur][DueDate(r)] = @ + 1]
      BY <1>7 DEF ChargeSucceeds, tables
    <2>4. CASE Claims(r, s, d)
      <3>1. \A q \in Runners \ {r} : ~Claims(q, s, d)'
        BY <1>1, <1>3, <2>1, <2>4 DEF SingleClaim
      <3>2. runner'[r].at = "charged" /\ sub'[s].next > d
        BY <1>1, <2>1, <2>3, <2>4 DEF SingleClaim, MovesTo
      <3> QED BY <3>1, <3>2 DEF SingleClaim
    <2>5. CASE ~Claims(r, s, d)
      <3>1. captures'[s][d] = captures[s][d]
        BY <1>2, <2>1, <2>3, <2>5 DEF Claims, CurrentPeriod, At
      <3> QED BY <1>1, <1>3, <2>1, <2>2, <2>3, <2>5, <3>1 DEF SingleClaim
    <2> QED BY <2>4, <2>5
  <1>8. CASE ChargeFails(r)
    <2>1. MovesTo(r, "failed") /\ SameRow(r) /\ runner[r].at = "charge" /\ OnlyPass(r)
      BY <1>8, PassMoves DEF ChargeFails, Charging, MovesTo
    <2>2. Claims(r, s, d)' <=> Claims(r, s, d)
      BY <2>1 DEF Claims, At, CurrentPeriod, DueDate, MovesTo, SameRow
    <2>3. sub' = sub /\ captures' = captures
      BY <1>8 DEF ChargeFails, tables, billingHistory
    <2>4. Claims(r, s, d) => ~(captures[s][d] > 0)
      BY <1>1, <2>1 DEF SingleClaim
    <2> QED BY <1>1, <1>3, <2>1, <2>2, <2>3, <2>4 DEF SingleClaim
  <1>9. CASE BookPayment(r)
    <2>1. OnlyPass(r) /\ ~Claims(r, s, d)'
      BY <1>9, PassMoves, PassContinues
         DEF BookPayment, Charging, MovesTo, GoesOn, Claims, At, Resting
    <2> QED BY <1>4, <1>9, <2>1 DEF BookPayment, billingHistory
  <1>10. CASE ActivatePending(r)
    <2>1. OnlyPass(r) /\ ~Claims(r, s, d)'
      BY <1>10, PassContinues DEF ActivatePending, MovesTo, GoesOn, Claims, At, Resting
    <2>2. sub'[s].next = sub[s].next
      BY <1>2, <1>10 DEF ActivatePending, OthersActive, SubRows
    <2> QED BY <1>4, <1>10, <2>1, <2>2 DEF ActivatePending, billingHistory
  <1>11. CASE RollbackClaim(r)
    <2>1. OnlyPass(r) /\ ~Claims(r, s, d)'
      BY <1>11, PassContinues DEF RollbackClaim, MovesTo, GoesOn, Claims, At, Resting
    <2>2. captures' = captures /\ runner[r].at = "failed"
      BY <1>11 DEF RollbackClaim
    <2>3. DueDate(r) \in Nat /\ DueDate(r) <= period
      BY <1>11, CurrentRow DEF RollbackClaim, Charging, Periods
    <2>4. CASE runner[r].cur = s /\ sub[s].next = DueDate(r) + 1
      <3>1. CASE DueDate(r) = d
        <4>1. Claims(r, s, d)
          BY <2>2, <2>4, <3>1 DEF Claims, At, CurrentPeriod
        <4>2. ~(captures[s][d] > 0) /\ \A q \in Runners \ {r} : ~Claims(q, s, d)
          BY <1>1, <2>2, <4>1 DEF SingleClaim
        <4> QED BY <1>3, <2>1, <2>2, <4>2 DEF SingleClaim
      <3>2. CASE DueDate(r) # d
        <4>1. ~(sub[s].next > d)
          BY <1>2, <2>3, <2>4, <3>2
        <4>2. ~(captures[s][d] > 0) /\ \A q \in Runners : ~Claims(q, s, d)
          BY <1>1, <4>1 DEF SingleClaim
        <4> QED BY <1>3, <2>1, <2>2, <4>2 DEF SingleClaim
      <3> QED BY <3>1, <3>2
    <2>5. CASE ~(runner[r].cur = s /\ sub[s].next = DueDate(r) + 1)
      <3>1. sub'[s] = sub[s]
        BY <1>2, <1>11, <2>5 DEF RollbackClaim, GiveBackPeriod, NextBilling
      <3> QED BY <1>4, <2>1, <2>2, <3>1
    <2> QED BY <2>4, <2>5
  <1>12. CASE PassDies(r)
    <2>1. OnlyPass(r) /\ ~Claims(r, s, d)'
      BY <1>12, PassStops DEF Claims, At, Resting
    <2> QED BY <1>4, <1>12, <2>1 DEF PassDies, tables
  <1> QED BY <1>5, <1>6, <1>7, <1>8, <1>9, <1>10, <1>11, <1>12 DEF RunnerStep

\* A call writes a row that nobody claims or charged; the clock ends periods.
LEMMA CallClaimsNothing ==
    ASSUME BillingTypeOK, AbsentRows, ClaimedOnce,
           NextPeriod \/ \E c \in Subscribers : SubscriberStep(c)
    PROVE  ClaimedOnce'
  <1>1. runner' = runner /\ captures' = captures
    BY DEF SubscriberStep, BeginSubscribe, CommitSubscribe, SyncRevoke, SyncGrant, SubscribeDies,
           NextPeriod, billingHistory
  <1>2. \A r \in Runners, s \in Subs, d \in Periods : Claims(r, s, d)' <=> Claims(r, s, d)
    BY <1>1 DEF Claims, At, CurrentPeriod, DueDate
  <1>3. CASE NextPeriod
    <2>1. sub' = sub /\ \A d \in Periods : period' <= d => period <= d
      BY <1>3 DEF NextPeriod, tables, BillingTypeOK, Periods
    <2> QED BY <1>1, <1>2, <2>1 DEF ClaimedOnce
  <1>4. ASSUME NEW c \in Subscribers, SubscriberStep(c) PROVE ClaimedOnce'
    <2>1. period' = period
      BY <1>4 DEF SubscriberStep, BeginSubscribe, CommitSubscribe, SyncRevoke, SyncGrant,
                  SubscribeDies
    <2>2. CASE UNCHANGED sub
      BY <1>1, <1>2, <2>1, <2>2 DEF ClaimedOnce
    <2>3. CASE CommitSubscribe(c)
      <3>1. sub[subscriber[c].id].status = "none" /\ subscriber[c].id \in Subs
        BY <2>3, CallWrites DEF AbsentRows
      <3>2. \A r \in Runners, d \in Periods : ~Claims(r, subscriber[c].id, d)
        BY <3>1, PassOf DEF Claims, At, CurrentPeriod, IsPass, Charging
      <3>3. \A d \in Periods : ~(captures[subscriber[c].id][d] > 0)
        BY <3>1 DEF AbsentRows
      <3>4. \A s \in Subs \ {subscriber[c].id} : sub'[s].next = sub[s].next
        BY <2>3, CallWrites
      <3> QED BY <1>1, <1>2, <2>1, <3>2, <3>3, <3>4 DEF ClaimedOnce
    <2> QED BY <1>4, <2>2, <2>3 DEF SubscriberStep, BeginSubscribe, SyncRevoke, SyncGrant,
                                    SubscribeDies, tables
  <1> QED BY <1>3, <1>4

\* Passes of runDue that overlap charge a period twice only when it is over.
THEOREM ChargedOnceInTime == SubscriptionsSpec => ChargedTwiceOnlyInArrears
  <1>1. SubscriptionsInit => AbsentRows /\ ClaimedOnce
    <2> SUFFICES ASSUME SubscriptionsInit PROVE AbsentRows /\ ClaimedOnce
      OBVIOUS
    <2>1. \A r \in Runners : runner[r].at = "idle"
      BY DEF SubscriptionsInit, Resting
    <2>2. \A c \in Subscribers : subscriber[c].at = "idle"
      BY DEF SubscriptionsInit, Resting
    <2>3. \A s \in Subs, p \in Periods : captures[s][p] = 0
      BY DEF SubscriptionsInit
    <2> QED BY <2>1, <2>2, <2>3 DEF AbsentRows, ClaimedOnce, Claims, At
  <1>2. BillingTypeOK /\ AbsentRows /\ ClaimedOnce /\ [SubscriptionsNext]_subscriptionsVars
           => (AbsentRows /\ ClaimedOnce)'
    <2>1. AbsentRows /\ ClaimedOnce /\ UNCHANGED subscriptionsVars => (AbsentRows /\ ClaimedOnce)'
      BY DEF AbsentRows, ClaimedOnce, Claims, At, CurrentPeriod, DueDate,
             subscriptionsVars, tables, billingHistory
    <2> QED BY <2>1, AbsentRowsStay, PassClaimsOnce, CallClaimsNothing DEF SubscriptionsNext
  <1>3. BillingTypeOK /\ ClaimedOnce /\ [SubscriptionsNext]_subscriptionsVars
           => [\A r \in Runners : ChargeSucceeds(r) /\ captures[runner[r].cur][DueDate(r)] > 0
                  => period > DueDate(r)]_subscriptionsVars
    <2> SUFFICES ASSUME BillingTypeOK, ClaimedOnce, NEW r \in Runners, ChargeSucceeds(r),
                        captures[runner[r].cur][DueDate(r)] > 0
                 PROVE  period > DueDate(r)
      OBVIOUS
    <2>1. runner[r].at = "charge"
      BY DEF ChargeSucceeds
    <2>2. runner[r].cur \in Subs /\ DueDate(r) \in Periods /\ DueDate(r) <= period /\ period \in Periods
      BY <2>1, CurrentRow DEF Charging, BillingTypeOK
    <2>3. Claims(r, runner[r].cur, DueDate(r))
      BY <2>1 DEF Claims, At, CurrentPeriod
    <2>4. ~(period <= DueDate(r))
      BY <2>1, <2>2, <2>3 DEF ClaimedOnce
    <2> QED BY <2>2, <2>4 DEF Periods
  <1> QED BY <1>1, <1>2, <1>3, BillingTypeCorrect, PTL
          DEF SubscriptionsSpec, ChargedTwiceOnlyInArrears
=============================================================================
