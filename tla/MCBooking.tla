------------------------------ MODULE MCBooking ------------------------------
(****************************************************************************)
(* Constants of the TLC runs of Booking.  Windows are one slot long, next   *)
(* to each other, so that windows may be equal, adjacent (the buffer is     *)
(* violated) or apart.                                                      *)
(****************************************************************************)
EXTENDS BookingProps, TLC

CONSTANTS t1, t2

Window(d, i) == [date |-> d, start |-> i, end |-> i + 1]

\* Two adjacent slots of one day.
AdjacentWindows == {Window(1, 0), Window(1, 1)}
\* The same slot on two days.
SpreadWindows == {Window(0, 0), Window(1, 0)}

FeeOne == [t \in Teachers |-> 1]

\* Every operation but the two whose update does not look at the status.
CasOps == Operations \ {"reschedule", "respond"}
\* Every operation but the acknowledgement.
SerialOps == Operations \ {"ack"}
Everything == Operations
MintOps == {"propose", "transition"}
MoveOps == {"create", "transition", "reschedule"}
ReassignOps == {"create", "teacherCancel", "priority"}

Symmetry == Permutations(Bookings) \cup Permutations(Requests)
=============================================================================
