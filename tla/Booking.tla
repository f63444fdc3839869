------------------------------- MODULE Booking -------------------------------
(****************************************************************************)
(* The booking engine of the mentoring platform: BookingService and         *)
(* CancellationService over the Postgres tables booking, time_slot,         *)
(* cancellation_event, payment_request and the spendable credit of a        *)
(* student.                                                                 *)
(*                                                                          *)
(* Every HTTP call or cron pass is a request of its own.  It first reads    *)
(* outside any transaction (its early returns are the guards of the Begin   *)
(* actions), keeps the row it read, and writes later in a READ COMMITTED    *)
(* transaction.  Between the two other requests may commit.  A transaction  *)
(* that takes the (teacher, date) advisory lock has two steps, Check and    *)
(* Commit; one that does not is atomic at its commit, because the rows it   *)
(* writes stay locked to its end.                                           *)
(*                                                                          *)
(* A window is [date, start, end] in slots of ten minutes.  All teachers    *)
(* and rooms belong to one center.                                          *)
(****************************************************************************)
EXTENDS Integers, FiniteSets

CONSTANTS
    Students, Teachers, Rooms,
    Bookings,        \* the ids rows may get: bounds the number of bookings
    Requests,        \* requests in flight at once
    Windows,         \* the windows inside working hours and stay
    Modes,           \* subset of {"offline", "zoom", "chat"}
    FullTime,        \* teachers whose bookings are confirmed at once
    ReverseListed,   \* students with reverse_admin or reverse_self set
    Fee,             \* credits of a session, by teacher
    InitialCredit,
    Buffer,          \* REST_BUFFER_MINUTES, in slots
    ZoomLimit,       \* zoom_policy.concurrent_limit
    ReverseFree,     \* the "free" switch of the reverse policy
    LastDay,         \* bound on the clock
    MaxCalls,        \* bound on the number of client calls
    Ops,             \* the operations clients and crons may call
    NoRoom, NoTeacher

Operations == {"create", "assign", "propose", "respond", "transition", "ack",
               "reschedule", "teacherCancel", "priority", "unacked"}

ASSUME WindowsAssumption ==
    Windows \subseteq {w \in [date : Nat, start : Nat, end : Nat] : w.start < w.end}
ASSUME NumbersAssumption ==
    /\ Fee \in [Teachers -> Nat]
    /\ InitialCredit \in Nat
    /\ Buffer \in Nat
    /\ ZoomLimit \in Nat
    /\ LastDay \in Nat
    /\ MaxCalls \in Nat
ASSUME NamesAssumption ==
    /\ NoRoom \notin Rooms
    /\ NoTeacher \notin Teachers
    /\ FullTime \subseteq Teachers
    /\ ReverseFree \in BOOLEAN
    /\ Modes \subseteq {"offline", "zoom", "chat"}

VARIABLES
    booking,        \* table booking: a function on the ids in use
    slots,          \* table time_slot
    credit,         \* spendable credits of each student
    spent,          \* history: credits SPEND rows took for each booking
    refunded,       \* history: credits REFUND rows gave back for each booking
    cancelEvents,   \* number of cancellation_event rows of each booking
    payRequests,    \* open payment requests the shortfalls raised
    offences,       \* penalty counters of student_profile
    cancelCount,    \* teacher_profile.cancel_count
    today,          \* KST date
    calls,          \* client calls made so far, only there to bound them
    req             \* what each request in flight has read and decided

vars == <<booking, slots, credit, spent, refunded, cancelEvents, payRequests,
          offences, cancelCount, today, calls, req>>

money    == <<credit, spent, refunded>>
counters == <<cancelEvents, payRequests, offences, cancelCount>>

(****************************************************************************)
(* Rows.                                                                    *)
(****************************************************************************)
ActiveStatuses == {"new", "confirmed"}
Status == ActiveStatuses \cup {"done", "cancelled", "rejected", "noshow"}

\* booking.origin: how the booking came to be.
Origins == {"direct", "fulltime", "batch", "priority", "proposal"}

Row == [student : Students, teacher : Teachers, direction : {"student", "reverse"},
        win : Windows, mode : Modes, room : Rooms \cup {NoRoom}, status : Status,
        fee : Nat, origin : Origins, acked : BOOLEAN]

TimeSlot == [teacher : Teachers, date : Nat, index : Nat, booking : Bookings]

OffenceKinds == {"noshow", "rejected", "sameDay"}
Offences == [OffenceKinds -> Nat]

PayRequest == [student : Students, needed : Int, ref : SUBSET Bookings]

\* A request that inserts a booking: the row it will insert (its room still
\* open), the credits it takes, and whether it has done its locked recheck.
PlaceReq == [op : {"create", "assign", "propose", "priority"}, row : Row,
             charge : Nat, checked : BOOLEAN]
\* A request that moves booking b to another window; old is the set of slot
\* rows its DELETE saw.
MoveReq == [op : {"reschedule"}, b : Bookings, row : Row, win : Windows,
            checked : BOOLEAN, old : SUBSET TimeSlot]
\* A request that sets a status conditionally on the one it read in row.
CasReq == [op : {"transition", "teacherCancel", "unacked"}, b : Bookings, row : Row,
           to : Status, by : {"student", "staff", "system"},
           sub : Teachers \cup {NoTeacher}]
RespondReq == [op : {"respond"}, b : Bookings, row : Row, accept : BOOLEAN]

Idle == [op |-> "idle"]
Request == {Idle} \cup PlaceReq \cup MoveReq \cup CasReq \cup RespondReq

TypeOK ==
    /\ DOMAIN booking \subseteq Bookings
    /\ booking \in [DOMAIN booking -> Row]
    /\ slots \subseteq TimeSlot
    /\ credit \in [Students -> Nat]
    /\ spent \in [Bookings -> Nat]
    /\ refunded \in [Bookings -> Nat]
    /\ cancelEvents \in [Bookings -> Nat]
    /\ payRequests \subseteq PayRequest
    /\ offences \in [Students -> Offences]
    /\ cancelCount \in [Teachers -> Nat]
    /\ today \in 0 .. LastDay
    /\ calls \in 0 .. MaxCalls
    /\ req \in [Requests -> Request]

(****************************************************************************)
(* The domain rules (booking/domain, availability/domain).                  *)
(****************************************************************************)
\* Mutant: a booking nobody confirmed may be marked as missed.
BookingTransitions_NoshowFromNew ==
    [s \in Status |-> CASE s = "new"       -> {"confirmed", "rejected", "cancelled", "noshow"}
                        [] s = "confirmed" -> {"done", "cancelled", "noshow"}
                        [] OTHER           -> {}]

BookingTransitions ==
    [s \in Status |-> CASE s = "new"       -> {"confirmed", "rejected", "cancelled"}
                        [] s = "confirmed" -> {"done", "cancelled", "noshow"}
                        [] OTHER           -> {}]

CanTransition(from, to) == to \in BookingTransitions[from]

ShouldRefund(from, to) == to \in {"cancelled", "rejected"} /\ from \in ActiveStatuses

\* A reverse proposal the student has not accepted yet took no credits.
Consumed(row) == ~(row.direction = "reverse" /\ row.status = "new")

RefundDue(row, to) ==
    IF ShouldRefund(row.status, to) /\ Consumed(row) THEN row.fee ELSE 0

Active == {b \in DOMAIN booking : booking[b].status \in ActiveStatuses}

\* Two windows of one teacher with the rest buffer between them.
Apart(v, w) == \/ v.date # w.date
               \/ v.end + Buffer <= w.start
               \/ w.end + Buffer <= v.start

Overlap(v, w) == v.date = w.date /\ v.start < w.end /\ w.start < v.end

\* bookableReason = null: no slot of the window is booked or rest.
Bookable(t, w) == \A b \in Active : booking[b].teacher = t => Apart(booking[b].win, w)

\* Mutant: one consultation beyond the limit.
ZoomFull_OffByOne(w) ==
    Cardinality({b \in Active : booking[b].mode = "zoom" /\ Overlap(booking[b].win, w)})
        > ZoomLimit

ZoomFull(w) ==
    Cardinality({b \in Active : booking[b].mode = "zoom" /\ Overlap(booking[b].win, w)})
        >= ZoomLimit

\* Mutant: a booking waiting for its confirmation does not occupy its room.
FreeRooms_ConfirmedOnly(w) ==
    {rm \in Rooms : \A b \in Active :
        booking[b].room = rm /\ booking[b].status = "confirmed" => ~Overlap(booking[b].win, w)}

FreeRooms(w) ==
    {rm \in Rooms : \A b \in Active : booking[b].room = rm => ~Overlap(booking[b].win, w)}

\* The rooms a placement may take: the first free one, in no given order; no
\* choice at all when the mode takes none, and none left when all are taken.
AssignRoom(mode, w) == IF mode = "offline" THEN FreeRooms(w) ELSE {NoRoom}

SlotRows(b, t, w) ==
    {[teacher |-> t, date |-> w.date, index |-> i, booking |-> b] : i \in w.start .. w.end - 1}

SlotsOf(b) == {s \in slots : s.booking = b}

\* Mutant: a move that forgets to release.
MovedSlots_KeepOld(old, new) == slots \cup new

\* deleteMany of the rows seen, createMany of the new ones.
MovedSlots(old, new) == (slots \ old) \cup new

\* Mutant: no unique index.
Clash_NoIndex(n, o) == FALSE

\* UNIQUE (teacher_id, slot_date, slot_index): inserting n beside o is P2002.
Clash(n, o) ==
    \E x \in n, y \in o : x.teacher = y.teacher /\ x.date = y.date /\ x.index = y.index

\* The transaction that holds the advisory lock of (teacher, date).
LockedBy(r, t, d) ==
    \/ /\ req[r].op \in {"create", "assign", "propose"}
       /\ req[r].checked
       /\ req[r].row.teacher = t /\ req[r].row.win.date = d
    \/ /\ req[r].op = "reschedule"
       /\ req[r].checked
       /\ req[r].row.teacher = t /\ req[r].win.date = d

\* Mutant: no advisory lock.
LockFree_NoLock(t, d) == TRUE

LockFree(t, d) == \A r \in Requests : ~LockedBy(r, t, d)

(****************************************************************************)
(* Steps every request shares.                                              *)
(****************************************************************************)
Take(r, op, call) ==
    /\ op \in Ops
    /\ req[r] = Idle
    /\ req' = [req EXCEPT ![r] = call]

Call(r, op, call) ==
    /\ calls < MaxCalls
    /\ calls' = calls + 1
    /\ Take(r, op, call)

End(r) == req' = [req EXCEPT ![r] = Idle]

\* The transaction rolls back: a recheck, a limit, a room, the unique index or
\* the conditional update refuses it, it times out, or its process dies.
Abort(r) ==
    /\ req[r] # Idle
    /\ End(r)
    /\ UNCHANGED <<booking, slots, money, counters, today, calls>>

\* Mutant: the shortfall is not looked at.
Consume_Unchecked(s, b, amount) ==
    /\ credit' = [credit EXCEPT ![s] = @ - amount]
    /\ spent' = [spent EXCEPT ![b] = @ + amount]
    /\ UNCHANGED refunded

\* CreditService.consumeWithin: nothing is written on a shortfall.
Consume(s, b, amount) ==
    /\ credit[s] >= amount
    /\ credit' = [credit EXCEPT ![s] = @ - amount]
    /\ spent' = [spent EXCEPT ![b] = @ + amount]
    /\ UNCHANGED refunded

\* CreditService.refundWithin: it gives back what it is told to.
Refund(s, b, amount) ==
    /\ credit' = [credit EXCEPT ![s] = @ + amount]
    /\ refunded' = [refunded EXCEPT ![b] = @ + amount]
    /\ UNCHANGED spent

(****************************************************************************)
(* Placing a booking: create, createAssigned, proposeReverse and the        *)
(* priority reassignment of a cancelled one.                                *)
(****************************************************************************)
NewRow(s, t, dir, w, m, st, fee, org) ==
    [student |-> s, teacher |-> t, direction |-> dir, win |-> w, mode |-> m,
     room |-> NoRoom, status |-> st, fee |-> fee, origin |-> org, acked |-> FALSE]

\* POST /bookings by a student.  A full-time teacher's booking is confirmed at
\* once, with an origin of its own.
BeginCreate(r) ==
    \E s \in Students, t \in Teachers, w \in Windows, m \in Modes :
        /\ Bookable(t, w)
        /\ Call(r, "create",
             [op |-> "create", checked |-> FALSE, charge |-> Fee[t],
              row |-> NewRow(s, t, "student", w, m,
                             IF t \in FullTime THEN "confirmed" ELSE "new", Fee[t],
                             IF t \in FullTime THEN "fulltime" ELSE "direct")])
        /\ UNCHANGED <<booking, slots, money, counters, today>>

\* createAssigned, called by the batch fillers, the reverse scan and the
\* escalation of a question: confirmed at once, charged or free.
BeginAssign(r) ==
    \E s \in Students, t \in Teachers, w \in Windows, m \in Modes,
       dir \in {"student", "reverse"}, free \in BOOLEAN :
        /\ dir = "reverse" => free = ReverseFree
        /\ LET fee == IF free THEN 0 ELSE Fee[t] IN
           Call(r, "assign",
             [op |-> "assign", checked |-> FALSE, charge |-> fee,
              row |-> NewRow(s, t, dir, w, m, "confirmed", fee, "batch")])
        /\ UNCHANGED <<booking, slots, money, counters, today>>

\* A first consultation, or a student listed for more.
ReverseEligible(s, t) ==
    \/ s \in ReverseListed
    \/ ~\E b \in DOMAIN booking : /\ booking[b].teacher = t
                                  /\ booking[b].student = s
                                  /\ booking[b].status \in {"confirmed", "done"}

\* proposeReverse by a teacher: the fee is written down but not taken.
BeginPropose(r) ==
    \E s \in Students, t \in Teachers, w \in Windows, m \in Modes :
        /\ ReverseEligible(s, t)
        /\ Bookable(t, w)
        /\ LET fee == IF ReverseFree THEN 0 ELSE Fee[t] IN
           Call(r, "propose",
             [op |-> "propose", checked |-> FALSE, charge |-> 0,
              row |-> NewRow(s, t, "reverse", w, m, "new", fee, "proposal")])
        /\ UNCHANGED <<booking, slots, money, counters, today>>

\* lockTeacherDate, then the recheck under the lock.  The priority
\* reassignment rechecks without the lock.
CheckPlace(r) ==
    /\ req[r].op \in {"create", "assign", "propose", "priority"}
    /\ ~req[r].checked
    /\ LET row == req[r].row IN
       /\ req[r].op # "priority" => LockFree(row.teacher, row.win.date)
       /\ Bookable(row.teacher, row.win)
    /\ req' = [req EXCEPT ![r].checked = TRUE]
    /\ UNCHANGED <<booking, slots, money, counters, today, calls>>

\* Zoom limit and room, the booking row, the credits, the slot rows, commit.
\* A proposal takes no room; a reassignment looks at neither limit nor rooms.
CommitPlace(r) ==
    /\ req[r].op \in {"create", "assign", "propose", "priority"}
    /\ req[r].checked
    /\ LET op  == req[r].op
           row == req[r].row
       IN
       /\ op # "priority" /\ row.mode = "zoom" => ~ZoomFull(row.win)
       /\ \E b \in Bookings \ DOMAIN booking,
             rm \in IF op \in {"create", "assign"} THEN AssignRoom(row.mode, row.win)
                                                   ELSE {NoRoom} :
            LET new == SlotRows(b, row.teacher, row.win) IN
            /\ booking' = [x \in DOMAIN booking \cup {b} |->
                             IF x = b THEN [row EXCEPT !.room = rm] ELSE booking[x]]
            /\ Consume(row.student, b, req[r].charge)
            /\ ~Clash(new, slots)
            /\ slots' = slots \cup new
    /\ End(r)
    /\ UNCHANGED <<counters, today, calls>>

\* consumeWithin came back short: create raises a payment request (402), the
\* batch and the reassignment give up.
ShortPlace(r) ==
    /\ req[r].op \in {"create", "assign", "priority"}
    /\ req[r].checked
    /\ LET row == req[r].row IN
       /\ credit[row.student] < req[r].charge
       /\ payRequests' =
            IF req[r].op = "create"
            THEN payRequests \cup {[student |-> row.student, ref |-> {},
                                    needed |-> req[r].charge - credit[row.student]]}
            ELSE payRequests
    /\ End(r)
    /\ UNCHANGED <<booking, slots, money, cancelEvents, offences, cancelCount, today, calls>>

(****************************************************************************)
(* The student's answer to a reverse proposal.                              *)
(****************************************************************************)
BeginRespond(r) ==
    \E b \in DOMAIN booking, accept \in BOOLEAN :
        /\ booking[b].direction = "reverse"
        /\ booking[b].status = "new"
        /\ Call(r, "respond",
                 [op |-> "respond", b |-> b, row |-> booking[b], accept |-> accept])
        /\ UNCHANGED <<booking, slots, money, counters, today>>

\* Neither update looks at the status again.
CommitRespond(r) ==
    /\ req[r].op = "respond"
    /\ LET b == req[r].b
           row == req[r].row
       IN
       IF req[r].accept
       THEN /\ Consume(row.student, b, row.fee)
            /\ booking' = [booking EXCEPT ![b].status = "confirmed"]
            /\ UNCHANGED slots
       ELSE /\ booking' = [booking EXCEPT ![b].status = "rejected"]
            /\ slots' = slots \ SlotsOf(b)
            /\ UNCHANGED money
    /\ End(r)
    /\ UNCHANGED <<counters, today, calls>>

ShortRespond(r) ==
    /\ req[r].op = "respond"
    /\ LET row == req[r].row IN
       /\ req[r].accept
       /\ credit[row.student] < row.fee
       /\ payRequests' = payRequests \cup
            {[student |-> row.student, ref |-> {req[r].b},
              needed |-> row.fee - credit[row.student]]}
    /\ End(r)
    /\ UNCHANGED <<booking, slots, money, cancelEvents, offences, cancelCount, today, calls>>

(****************************************************************************)
(* Conditional status changes: transition (accept, confirm, reject,         *)
(* complete, noshow, cancel), the cancellation with a reason, and the       *)
(* sweep of unacknowledged automatic bookings.                              *)
(****************************************************************************)
\* allowedRoles, the teacher and the admin of the center being one: only a
\* cancellation is open to the student.
AllowedRoles(to) == IF to = "cancelled" THEN {"student", "staff"} ELSE {"staff"}

CasCall(op, b, to, by, sub) ==
    [op |-> op, b |-> b, row |-> booking[b], to |-> to, by |-> by, sub |-> sub]

BeginTransition(r) ==
    \E b \in DOMAIN booking, to \in Status \ {"new"} :
        \E by \in AllowedRoles(to) :
            /\ CanTransition(booking[b].status, to)
            /\ Call(r, "transition", CasCall("transition", b, to, by, NoTeacher))
            /\ UNCHANGED <<booking, slots, money, counters, today>>

\* findSubstitutes: another teacher free in the same window.
Substitutes(row) == {t \in Teachers \ {row.teacher} : Bookable(t, row.win)}

\* The route decides whether the first substitute found will be booked.
BeginTeacherCancel(r) ==
    \E b \in DOMAIN booking :
        \E sub \in {NoTeacher} \cup (IF "priority" \in Ops THEN Substitutes(booking[b]) ELSE {}) :
            /\ CanTransition(booking[b].status, "cancelled")
            /\ Call(r, "teacherCancel",
                     CasCall("teacherCancel", b, "cancelled", "staff", sub))
            /\ UNCHANGED <<booking, slots, money, counters, today>>

\* Mutant: the reassigned bookings are not swept.
AutoOrigins_BatchOnly == {"batch"}

\* AUTO_ORIGINS: "batch" stands for the origins the fillers, the reverse scan
\* and the escalation pass to createAssigned.
AutoOrigins == {"batch", "priority"}

\* The rows processUnackedNoshow reads: past, confirmed, of an automatic
\* origin, never acknowledged.
UnackedRows == {b \in DOMAIN booking : /\ booking[b].status = "confirmed"
                                       /\ booking[b].origin \in AutoOrigins
                                       /\ ~booking[b].acked
                                       /\ booking[b].win.date < today}

BeginUnacked(r, b) ==
    /\ b \in UnackedRows
    /\ Take(r, "unacked", CasCall("unacked", b, "cancelled", "system", NoTeacher))
    /\ UNCHANGED <<booking, slots, money, counters, today, calls>>

\* Mutant: an unconditional update.
StillAsRead_Unconditional(b, from) == TRUE

\* updateMany where status = the one read: count 1 or the call is refused.
StillAsRead(b, from) == booking[b].status = from

Offence(to, by, row) ==
    CASE to = "noshow"   -> "noshow"
      [] to = "rejected" -> "rejected"
      [] to = "cancelled" /\ by = "student" /\ row.win.date = today -> "sameDay"
      [] OTHER -> "none"

\* What follows a committed change: the priority route tries to book the
\* substitute, at the substitute's fee; every other request is over.
AfterCas(r) ==
    LET row == req[r].row
        sub == req[r].sub
    IN IF sub = NoTeacher THEN Idle
       ELSE [op |-> "priority", checked |-> FALSE, charge |-> Fee[sub],
             row |-> NewRow(row.student, sub, "student", row.win, row.mode,
                            "confirmed", Fee[sub], "priority")]

CommitCas(r) ==
    /\ req[r].op \in {"transition", "teacherCancel", "unacked"}
    /\ LET b   == req[r].b
           row == req[r].row
           to  == req[r].to
           why == Offence(to, req[r].by, row)
       IN
       /\ StillAsRead(b, row.status)
       /\ booking' = [booking EXCEPT ![b].status = to]
       /\ slots' = IF to \in {"cancelled", "rejected"} THEN slots \ SlotsOf(b) ELSE slots
       /\ Refund(row.student, b, RefundDue(row, to))
       /\ offences' = IF req[r].op = "transition" /\ why # "none"
                      THEN [offences EXCEPT ![row.student][why] = @ + 1]
                      ELSE offences
       /\ cancelCount' = IF req[r].op # "transition"
                         THEN [cancelCount EXCEPT ![row.teacher] = @ + 1]
                         ELSE cancelCount
       /\ cancelEvents' = IF req[r].op = "teacherCancel"
                          THEN [cancelEvents EXCEPT ![b] = @ + 1]
                          ELSE cancelEvents
    /\ req' = [req EXCEPT ![r] = AfterCas(r)]
    /\ UNCHANGED <<payRequests, today, calls>>

(****************************************************************************)
(* Moving a booking (student).                                              *)
(****************************************************************************)
BeginReschedule(r) ==
    \E b \in Active, w \in Windows :
        LET row == booking[b] IN
        /\ row.direction = "student"
        /\ w.end - w.start = row.win.end - row.win.start
        /\ Call(r, "reschedule",
                 [op |-> "reschedule", b |-> b, row |-> row, win |-> w,
                  checked |-> FALSE, old |-> {}])
        /\ UNCHANGED <<booking, slots, money, counters, today>>

\* The lock is that of the new date.  The DELETE sees the slot rows committed
\* when it starts; the recheck reads through another connection, so the
\* booking still blocks its old window.
CheckReschedule(r) ==
    /\ req[r].op = "reschedule"
    /\ ~req[r].checked
    /\ LockFree(req[r].row.teacher, req[r].win.date)
    /\ Bookable(req[r].row.teacher, req[r].win)
    /\ req' = [req EXCEPT ![r].checked = TRUE, ![r].old = SlotsOf(req[r].b)]
    /\ UNCHANGED <<booking, slots, money, counters, today, calls>>

\* The update sets status new whatever the status has become.
CommitReschedule(r) ==
    /\ req[r].op = "reschedule"
    /\ req[r].checked
    /\ LET b   == req[r].b
           row == req[r].row
           w   == req[r].win
           new == SlotRows(b, row.teacher, w)
       IN
       /\ row.mode = "zoom" => ~ZoomFull(w)
       /\ \E rm \in IF row.mode = "offline" THEN FreeRooms(w) ELSE {row.room} :
            booking' = [booking EXCEPT ![b].win = w, ![b].room = rm, ![b].status = "new"]
       /\ ~Clash(new, slots \ req[r].old)
       /\ slots' = MovedSlots(req[r].old, new)
    /\ End(r)
    /\ UNCHANGED <<money, counters, today, calls>>

(****************************************************************************)
(* The teacher's acknowledgement, and the calendar.                         *)
(****************************************************************************)
AckByTeacher(b) ==
    /\ "ack" \in Ops
    /\ ~booking[b].acked
    /\ booking' = [booking EXCEPT ![b].acked = TRUE]
    /\ UNCHANGED <<slots, money, counters, today, calls, req>>

NextDay ==
    /\ today < LastDay
    /\ today' = today + 1
    /\ UNCHANGED <<booking, slots, money, counters, calls, req>>

(****************************************************************************)
(* The specification.                                                       *)
(****************************************************************************)
Init ==
    /\ booking = [b \in {} |-> {}]
    /\ slots = {}
    /\ credit = [s \in Students |-> InitialCredit]
    /\ spent = [b \in Bookings |-> 0]
    /\ refunded = [b \in Bookings |-> 0]
    /\ cancelEvents = [b \in Bookings |-> 0]
    /\ payRequests = {}
    /\ offences = [s \in Students |-> [k \in OffenceKinds |-> 0]]
    /\ cancelCount = [t \in Teachers |-> 0]
    /\ today = 0
    /\ calls = 0
    /\ req = [r \in Requests |-> Idle]

Begin(r) ==
    \/ BeginCreate(r) \/ BeginAssign(r) \/ BeginPropose(r) \/ BeginRespond(r)
    \/ BeginTransition(r) \/ BeginTeacherCancel(r) \/ BeginReschedule(r)
    \/ \E b \in Bookings : BeginUnacked(r, b)

Work(r) ==
    \/ CheckPlace(r) \/ CommitPlace(r) \/ ShortPlace(r)
    \/ CommitRespond(r) \/ ShortRespond(r)
    \/ CommitCas(r)
    \/ CheckReschedule(r) \/ CommitReschedule(r)

Next ==
    \/ \E r \in Requests : Begin(r) \/ Work(r) \/ Abort(r)
    \/ \E b \in DOMAIN booking : AckByTeacher(b)
    \/ NextDay

Spec == Init /\ [][Next]_vars
=============================================================================
