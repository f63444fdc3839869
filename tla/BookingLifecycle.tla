--------------------------- MODULE BookingLifecycle ---------------------------
(****************************************************************************)
(* What a booking promises, without slots, teachers, locks or requests: the *)
(* state machine of booking/domain/state-machine.ts together with the       *)
(* credits the platform holds for the booking.  A booking that ends by      *)
(* cancellation or rejection holds nothing; every other change keeps what   *)
(* is held, except the acceptance of a proposal, which may take the fee.    *)
(****************************************************************************)
EXTENDS Integers

CONSTANTS Bookings,
          Fees       \* what a booking may cost

VARIABLES stage, held

Stages == {"none", "new", "confirmed", "done", "cancelled", "rejected", "noshow"}

Init == stage = [b \in Bookings |-> "none"] /\ held = [b \in Bookings |-> 0]

Become(b, st) == stage' = [stage EXCEPT ![b] = st]

Open(b) ==
    /\ stage[b] = "none"
    /\ Become(b, "new") \/ Become(b, "confirmed")
    /\ \E fee \in Fees : held' = [held EXCEPT ![b] = fee]

Confirm(b) ==
    /\ stage[b] = "new"
    /\ Become(b, "confirmed")
    /\ UNCHANGED held

AcceptProposal(b) ==
    /\ stage[b] = "new" /\ held[b] = 0
    /\ Become(b, "confirmed")
    /\ \E fee \in Fees : held' = [held EXCEPT ![b] = fee]

Move(b) ==
    /\ stage[b] \in {"new", "confirmed"}
    /\ Become(b, "new")
    /\ UNCHANGED held

GiveBack(b) ==
    /\ \/ stage[b] = "new" /\ (Become(b, "rejected") \/ Become(b, "cancelled"))
       \/ stage[b] = "confirmed" /\ Become(b, "cancelled")
    /\ held' = [held EXCEPT ![b] = 0]

Keep(b) ==
    /\ stage[b] = "confirmed"
    /\ Become(b, "done") \/ Become(b, "noshow")
    /\ UNCHANGED held

Next == \E b \in Bookings :
    Open(b) \/ Confirm(b) \/ AcceptProposal(b) \/ Move(b) \/ GiveBack(b) \/ Keep(b)

Spec == Init /\ [][Next]_<<stage, held>>
=============================================================================
