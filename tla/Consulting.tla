------------------------------- MODULE Consulting -------------------------------
(****************************************************************************)
(* One application for university consulting: submitted, paid for in won,   *)
(* assigned to a consultant, analysed.  The status of the application and   *)
(* the row of its payment are written by different requests, each of which  *)
(* reads first; the payment service outside takes a charge per call.        *)
(****************************************************************************)
EXTENDS Integers, FiniteSets

CONSTANTS
    Officers,     \* requests of the applicant and of staff in flight
    MaxCharges    \* bound: charges opened at the payment service

ASSUME ConsultingAssumption == IsFiniteSet(Officers) /\ MaxCharges \in Nat \ {0}

VARIABLES
    application,   \* consulting_application.status
    fee,           \* consulting_payment.status, or "none"
    analysis,      \* consulting_analysis.status, or "none"
    officer,       \* what each request is doing
    charges,       \* charges opened at the payment service
    early          \* history: a confirmation read the application still submitted

consultingVars == <<application, fee, analysis, officer, charges, early>>

AtDesk == [at |-> "desk"]

\* The life cycle, in the order of status.ts; no handler goes beyond in_review.
Progress == [submitted |-> 0, awaiting_payment |-> 1, paid |-> 2, in_review |-> 3]

ConsultingInit ==
    /\ application = "submitted" /\ fee = "none" /\ analysis = "none"
    /\ officer = [o \in Officers |-> AtDesk]
    /\ charges = 0 /\ early = FALSE

Turns(o, record) == officer' = [officer EXCEPT ![o] = record]

(****************************************************************************)
(* submit.                                                                  *)
(****************************************************************************)
ReadSubmit(o) ==
    /\ officer[o] = AtDesk
    /\ application = "submitted"
    /\ Turns(o, [at |-> "submit"])
    /\ UNCHANGED <<application, fee, analysis, charges, early>>

Submit(o) ==
    /\ officer[o].at = "submit"
    /\ application' = IF application = "submitted" THEN "awaiting_payment" ELSE application
    /\ Turns(o, AtDesk)
    /\ UNCHANGED <<fee, analysis, charges, early>>

(****************************************************************************)
(* createPayment: the checks, the charge, the row, the status.              *)
(****************************************************************************)
ReadCreatePayment(o) ==
    /\ officer[o] = AtDesk
    /\ application \in {"submitted", "awaiting_payment"}
    /\ fee = "none"
    /\ Turns(o, [at |-> "charge", read |-> application])
    /\ UNCHANGED <<application, fee, analysis, charges, early>>

CreateCharge(o) ==
    /\ officer[o].at = "charge"
    /\ charges < MaxCharges
    /\ charges' = charges + 1
    /\ Turns(o, [officer[o] EXCEPT !.at = "row"])
    /\ UNCHANGED <<application, fee, analysis, early>>

\* consulting_payment.application_id is unique: of two rows one is refused, and its
\* charge stays open.
CreatePaymentRow(o) ==
    /\ officer[o].at = "row"
    /\ IF fee = "none"
       THEN /\ fee' = "pending"
            /\ Turns(o, IF officer[o].read = "submitted" THEN [at |-> "submit"] ELSE AtDesk)
       ELSE /\ Turns(o, AtDesk)
            /\ UNCHANGED fee
    /\ UNCHANGED <<application, analysis, charges, early>>

(****************************************************************************)
(* confirmPayment: payment and application in one transaction, the latter   *)
(* only if it was not read as submitted.                                    *)
(****************************************************************************)
ReadConfirm(o) ==
    /\ officer[o] = AtDesk
    /\ fee = "pending"
    /\ Turns(o, [at |-> "confirm", read |-> application])
    /\ UNCHANGED <<application, fee, analysis, charges, early>>

\* Mutant: moved to paid by id.
StillAwaiting_ById == TRUE
StillAwaiting == application = "awaiting_payment"

ConfirmPayment(o) ==
    /\ officer[o].at = "confirm"
    /\ fee' = "paid"
    /\ application' = IF officer[o].read = "awaiting_payment" /\ StillAwaiting
                      THEN "paid" ELSE application
    /\ early' = (early \/ officer[o].read = "submitted")
    /\ Turns(o, AtDesk)
    /\ UNCHANGED <<analysis, charges>>

(****************************************************************************)
(* assignConsultant and runAnalysis.                                        *)
(****************************************************************************)
\* The consultant is written by id before the status; who he is is left out.
ReadAssign(o) ==
    /\ officer[o] = AtDesk
    /\ Turns(o, [at |-> "assign", read |-> application])
    /\ UNCHANGED <<application, fee, analysis, charges, early>>

AssignConsultant(o) ==
    /\ officer[o].at = "assign"
    /\ application' = IF officer[o].read = "paid" /\ application = "paid"
                      THEN "in_review" ELSE application
    /\ Turns(o, AtDesk)
    /\ UNCHANGED <<fee, analysis, charges, early>>

StartAnalysis(o) ==
    /\ officer[o] = AtDesk
    /\ fee = "paid"
    /\ analysis' = "running"
    /\ Turns(o, [at |-> "analysis"])
    /\ UNCHANGED <<application, fee, charges, early>>

\* A second run may overwrite what the first one stored.
EndAnalysis(o, result) ==
    /\ officer[o].at = "analysis"
    /\ analysis' = result
    /\ Turns(o, AtDesk)
    /\ UNCHANGED <<application, fee, charges, early>>

\* The process stops, or the payment service or the model refuses.
OfficerDies(o) ==
    /\ officer[o] # AtDesk
    /\ Turns(o, AtDesk)
    /\ UNCHANGED <<application, fee, analysis, charges, early>>

ConsultingNext ==
    \E o \in Officers :
        \/ ReadSubmit(o) \/ Submit(o)
        \/ ReadCreatePayment(o) \/ CreateCharge(o) \/ CreatePaymentRow(o)
        \/ ReadConfirm(o) \/ ConfirmPayment(o)
        \/ ReadAssign(o) \/ AssignConsultant(o) \/ StartAnalysis(o) \/ OfficerDies(o)
        \/ \E result \in {"done", "failed"} : EndAnalysis(o, result)

ConsultingSpec == ConsultingInit /\ [][ConsultingNext]_consultingVars

(****************************************************************************)
(* Properties.                                                              *)
(****************************************************************************)
\* Whatever confirmations, assignments and second payments overlap: an application
\* never goes back, it is paid, reviewed or analysed only on a confirmed payment, and
\* a confirmed payment takes it out of the queue of the unpaid, unless the
\* confirmation had read it before its payment made it wait for one.
PaidBeforeReview ==
    [][/\ Progress[application'] >= Progress[application]
       /\ application' \in {"paid", "in_review"} \/ analysis' # "none" => fee' = "paid"
       /\ fee' = "paid" /\ ~early' => application' \in {"paid", "in_review"}]_consultingVars
=============================================================================
