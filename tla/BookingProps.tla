----------------------------- MODULE BookingProps -----------------------------
(****************************************************************************)
(* What the booking engine has to guarantee.  Some guarantees stand under   *)
(* every interleaving of every operation; others only while certain         *)
(* operations are not called or requests do not overlap.  The runs and the  *)
(* theorems say which.                                                      *)
(****************************************************************************)
EXTENDS Booking

\* A booking whose slots and credits the student's own request put in place.
Ordinary(b) == booking[b].direction = "student"

\* One of them that was placed under the teacher's lock.
Protected(b) == Ordinary(b) /\ booking[b].origin # "priority"

\* Every ordinary booking that is new or confirmed has a time_slot row for
\* each slot of its window, whatever requests overlapped: the rows are what
\* the unique index guards, so a window without its rows is unguarded
\* (create, createAssigned, reschedule, transition in booking.service.ts).
SlotsHeld ==
    \A b \in Active :
        Ordinary(b) => SlotRows(b, booking[b].teacher, booking[b].win) \subseteq slots

\* No teacher has two ordinary live bookings in overlapping windows, even
\* when a reassignment books without the teacher's lock and a move races a
\* cancellation (README: time_slot UNIQUE prevents a double booking).
NoDoubleBooking ==
    \A b, c \in Active :
        /\ b # c
        /\ booking[b].teacher = booking[c].teacher
        /\ Ordinary(b) /\ Ordinary(c)
        => ~Overlap(booking[b].win, booking[c].win)

\* The rest buffer separates any two live bookings of one teacher that were
\* placed under the (teacher, date) lock and went through no proposal: what
\* lockTeacherDate and the recheck under it are for.
RestBufferUnderLock ==
    \A b, c \in Active :
        /\ b # c
        /\ booking[b].teacher = booking[c].teacher
        /\ Protected(b) /\ Protected(c)
        => Apart(booking[b].win, booking[c].win)

\* The rest buffer between any two live bookings of one teacher, however they
\* were placed (the first invariant of the domain, availability/domain/slots.ts).
RestBuffer ==
    \A b, c \in Active :
        b # c /\ booking[b].teacher = booking[c].teacher
        => Apart(booking[b].win, booking[c].win)

\* No consultation room is given to two live bookings at the same time
\* (assignRoom, called from create, createAssigned and reschedule).
RoomExclusive ==
    \A b, c \in Active :
        b # c /\ booking[b].room = booking[c].room /\ booking[b].room # NoRoom
        => ~Overlap(booking[b].win, booking[c].win)

\* At no moment are more live zoom consultations scheduled in the center than
\* its limit, among those whose placement checks it (assertZoomCapacity; the
\* reassignment does not, and an answer may bring a proposal back).
ZoomWithinLimit ==
    \A w \in Windows :
        Cardinality({b \in Active :
            /\ booking[b].mode = "zoom"
            /\ Protected(b)
            /\ booking[b].win.date = w.date
            /\ booking[b].win.start <= w.start /\ w.start < booking[b].win.end})
          <= ZoomLimit

\* Nothing is given back for a booking beyond what was taken for it
\* (transition: no refund of an unaccepted proposal, no refund twice).
RefundAtMostSpent == \A b \in Bookings : refunded[b] <= spent[b]

\* A cancelled or rejected booking has all its credits back, and one that
\* took place or was missed keeps them.
SettledInFull ==
    \A b \in DOMAIN booking :
        /\ booking[b].status \in {"cancelled", "rejected"} => refunded[b] = spent[b]
        /\ booking[b].status \in {"done", "noshow"} => refunded[b] = 0

\* Why the two invariants above are kept when proposals are free and nothing is
\* moved: each booking was charged its fee once and given it back once if it
\* was cancelled or rejected, and each request that will charge or give back
\* holds the fee of its booking.
RowsSettled ==
    \A b \in Bookings :
        IF b \in DOMAIN booking
        THEN /\ spent[b] = booking[b].fee
             /\ refunded[b] = IF booking[b].status \in {"cancelled", "rejected"}
                              THEN booking[b].fee ELSE 0
        ELSE spent[b] = 0 /\ refunded[b] = 0

FreeIfReverse(row) == row.direction = "reverse" => row.fee = 0

RequestSettled(x) ==
    /\ x.op # "reschedule"
    /\ x.op \in {"create", "assign", "propose", "priority"} =>
         /\ x.charge = x.row.fee
         /\ x.row.status \in ActiveStatuses
         /\ FreeIfReverse(x.row)
    /\ x.op \in {"transition", "teacherCancel", "unacked"} =>
         /\ x.b \in DOMAIN booking
         /\ x.row.fee = booking[x.b].fee
         /\ x.row.status \in ActiveStatuses
         /\ FreeIfReverse(x.row)
    /\ x.op = "respond" =>
         /\ x.b \in DOMAIN booking
         /\ x.row.fee = 0 /\ booking[x.b].fee = 0

Settlement ==
    /\ RowsSettled
    /\ \A b \in DOMAIN booking : FreeIfReverse(booking[b])
    /\ \A r \in Requests : RequestSettled(req[r])

\* Why the calendar stays in order whatever overlaps, as an inductive
\* invariant.  What the rows keep: only a session in a room has one, and only
\* proposals wait for an answer; they have no room.
RowsPlaced ==
    \A b \in DOMAIN booking :
        LET row == booking[b] IN
        /\ row.mode # "offline" => row.room = NoRoom
        /\ row.origin = "proposal" => row.direction = "reverse" /\ row.room = NoRoom
        /\ row.direction = "reverse" /\ row.status = "new" => row.origin = "proposal"

\* What a request in flight still knows rightly of its booking, although the
\* row it read may be stale.
RequestPlaced(x) ==
    /\ x.op \in {"create", "assign", "propose", "priority"} =>
         /\ x.row.room = NoRoom
         /\ x.row.origin = "proposal" <=> x.op = "propose"
         /\ x.row.origin = "priority" <=> x.op = "priority"
         /\ x.op = "propose" => x.row.direction = "reverse"
         /\ x.row.direction = "reverse" /\ x.row.status = "new" => x.op = "propose"
    /\ x.op \in {"transition", "teacherCancel", "unacked"} =>
         /\ x.b \in DOMAIN booking
         /\ x.row.status \in ActiveStatuses
         /\ x.to # "new"
    /\ x.op = "respond" => x.b \in DOMAIN booking /\ booking[x.b].origin = "proposal"
    /\ x.op = "reschedule" =>
         /\ x.b \in DOMAIN booking
         /\ Ordinary(x.b)
         /\ x.row.teacher = booking[x.b].teacher
         /\ x.row.mode = booking[x.b].mode
         /\ x.row.mode # "offline" => x.row.room = NoRoom
         /\ \A s \in x.old : s.booking = x.b

\* The unique index of time_slot.
UniqueSlots ==
    \A x, y \in slots :
        x.teacher = y.teacher /\ x.date = y.date /\ x.index = y.index => x.booking = y.booking

\* The window the holder of a lock is about to take.
Target(x) == IF x.op = "reschedule" THEN x.win ELSE x.row.win

Holds(r) == LockedBy(r, req[r].row.teacher, Target(req[r]).date)

LockExclusive ==
    \A q, r \in Requests :
        /\ Holds(q) /\ Holds(r)
        /\ req[q].row.teacher = req[r].row.teacher
        /\ Target(req[q]).date = Target(req[r]).date
        => q = r

\* What a request found free under its lock stays free until it commits.
StillClear ==
    \A r \in Requests :
        Holds(r) =>
            \A c \in Active :
                /\ Protected(c)
                /\ booking[c].teacher = req[r].row.teacher
                => Apart(booking[c].win, Target(req[r]))

Placement ==
    /\ RowsPlaced
    /\ \A r \in Requests : RequestPlaced(req[r])
    /\ SlotsHeld
    /\ UniqueSlots
    /\ LockExclusive
    /\ StillClear
    /\ RestBufferUnderLock
    /\ RoomExclusive

\* However many requests close a booking at the same time, it is counted once: at
\* most one cancellation event, and then it is cancelled; each missed or rejected
\* booking once in the student's penalty counters.
CountedOnce ==
    /\ \A b \in Bookings :
          /\ cancelEvents[b] <= 1
          /\ cancelEvents[b] = 1 => booking[b].status = "cancelled"
    /\ \A s \in Students :
          LET with(st) == {b \in DOMAIN booking : /\ booking[b].student = s
                                                  /\ booking[b].status = st}
          IN /\ offences[s].noshow = Cardinality(with("noshow"))
             /\ offences[s].rejected = Cardinality(with("rejected"))
             /\ offences[s].sameDay <= Cardinality(with("cancelled"))

\* A booking that is done, cancelled, rejected or missed stays so
\* (state-machine.ts gives these states no successor).
TerminalIsFinal ==
    [][\A b \in DOMAIN booking :
          booking[b].status \notin ActiveStatuses => booking'[b].status = booking[b].status]_vars

\* The slot rows of a booking are exactly those of its window while it is
\* live, and none once it was cancelled or rejected.
NoStraySlots ==
    \A b \in DOMAIN booking :
        /\ b \in Active => SlotsOf(b) = SlotRows(b, booking[b].teacher, booking[b].win)
        /\ booking[b].status \in {"cancelled", "rejected"} => SlotsOf(b) = {}

\* The engine implements the life cycle of BookingLifecycle, the credits it
\* holds for a booking being those spent and not given back.
Lifecycle == INSTANCE BookingLifecycle WITH
    Fees  <- {0} \cup {Fee[t] : t \in Teachers},
    stage <- [b \in Bookings |-> IF b \in DOMAIN booking THEN booking[b].status ELSE "none"],
    held  <- [b \in Bookings |-> spent[b] - refunded[b]]
ImplementsLifecycle == Lifecycle!Spec

\* Fairness: the calendar moves, a request that was started is worked on, and
\* the sweep, run every half hour, does not find its row and fail forever.
CommitUnacked(r, b) == req[r].op = "unacked" /\ req[r].b = b /\ CommitCas(r)
Fairness ==
    /\ WF_vars(NextDay)
    /\ \A r \in Requests : WF_vars(Work(r) \/ Abort(r))
    /\ \A b \in Bookings :
         /\ SF_vars(\E r \in Requests : BeginUnacked(r, b))
         /\ SF_vars(\E r \in Requests : CommitUnacked(r, b))
LiveSpec == Spec /\ Fairness

\* A booking put in the calendar by a batch or by a reassignment that its day
\* has passed over without a sign of the teacher.
Forgotten(b) ==
    /\ b \in DOMAIN booking
    /\ booking[b].status = "confirmed" /\ booking[b].origin \in {"batch", "priority"}
    /\ ~booking[b].acked /\ booking[b].win.date < today

\* No such booking stays forgotten: the sweep closes and refunds it, unless
\* somebody acknowledges, moves or closes it first (processUnackedNoshow).
UnackedIsSwept == \A b \in Bookings : Forgotten(b) ~> ~Forgotten(b)
=============================================================================
