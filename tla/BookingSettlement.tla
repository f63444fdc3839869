--------------------------- MODULE BookingSettlement ---------------------------
(****************************************************************************)
(* What becomes of a booking, for every number of students, teachers,       *)
(* bookings and overlapping requests:                                       *)
(* - its credits are settled exactly, as long as reverse proposals are free *)
(*   and no booking is moved (the runs booking_mint and booking_revive show *)
(*   that neither condition can go);                                        *)
(* - its end is final and counted once, unless an operation runs that does  *)
(*   not repeat the status it read;                                         *)
(* - with one request at a time, and every operation, its slot rows are its *)
(*   own and its stages are those of BookingLifecycle.                      *)
(****************************************************************************)
EXTENDS BookingProofs, FiniteSetTheorems

\* An idle request moves nothing.
LEMMA IdleSettled == RequestSettled(Idle)
  BY DEF RequestSettled, Idle

\* A step that changes one request and no row keeps the settlement.
LEMMA SettledRequestStep ==
    ASSUME TypeOK, Settlement, NEW r \in Requests, NEW x, RequestSettled(x),
           req' = [req EXCEPT ![r] = x], UNCHANGED <<booking, money>>
    PROVE  Settlement'
  BY DEF TypeOK, Settlement, RowsSettled, RequestSettled, money

\* A step that keeps the fee of every row keeps every other request settled.
LEMMA OtherRequests ==
    ASSUME TypeOK, Settlement, NEW r \in Requests, NEW x,
           req' = [req EXCEPT ![r] = x],
           DOMAIN booking \subseteq DOMAIN booking',
           \A b \in DOMAIN booking : booking'[b].fee = booking[b].fee,
           RequestSettled(x)'
    PROVE  \A q \in Requests : RequestSettled(req[q])'
  <1> SUFFICES ASSUME NEW q \in Requests PROVE RequestSettled(req[q])'
    OBVIOUS
  <1>1. CASE q = r
    <2>1. req'[q] = x
      BY <1>1 DEF TypeOK
    <2> QED BY <2>1 DEF RequestSettled
  <1>2. CASE q # r
    <2>1. req'[q] = req[q]
      BY <1>2 DEF TypeOK
    <2>2. RequestSettled(req[q])
      BY DEF Settlement
    <2> QED BY <2>1, <2>2 DEF RequestSettled
  <1> QED BY <1>1, <1>2

\* Every request that starts holds the fee it will move.
LEMMA SettledBegin ==
    ASSUME ReverseFree, "reschedule" \notin Ops, TypeOK, Settlement,
           NEW r \in Requests, Begin(r)
    PROVE  Settlement'
  <1>1. CASE BeginCreate(r)
    <2>1. PICK s \in Students, t \in Teachers, w \in Windows, m \in Modes,
               st \in ActiveStatuses, org \in {"direct", "fulltime"} :
            /\ req' = [req EXCEPT ![r] =
                 [op |-> "create", checked |-> FALSE, charge |-> Fee[t],
                  row |-> NewRow(s, t, "student", w, m, st, Fee[t], org)]]
            /\ UNCHANGED <<booking, money>>
      <3>1. PICK s \in Students, t \in Teachers, w \in Windows, m \in Modes :
              /\ req' = [req EXCEPT ![r] =
                   [op |-> "create", checked |-> FALSE, charge |-> Fee[t],
                    row |-> NewRow(s, t, "student", w, m,
                                   IF t \in FullTime THEN "confirmed" ELSE "new", Fee[t],
                                   IF t \in FullTime THEN "fulltime" ELSE "direct")]]
              /\ UNCHANGED <<booking, money>>
        BY <1>1 DEF BeginCreate, Call, Take
      <3>2. CASE t \in FullTime
        BY <3>1, <3>2 DEF ActiveStatuses
      <3>3. CASE t \notin FullTime
        BY <3>1, <3>3 DEF ActiveStatuses
      <3> QED BY <3>2, <3>3
    <2> DEFINE x == [op |-> "create", checked |-> FALSE, charge |-> Fee[t],
                     row |-> NewRow(s, t, "student", w, m, st, Fee[t], org)]
    <2>2. RequestSettled(x)
      BY DEF RequestSettled, FreeIfReverse, NewRow
    <2> HIDE DEF x
    <2> QED BY <2>1, <2>2, SettledRequestStep DEF x
  <1>2. CASE BeginAssign(r)
    <2>0. PICK s \in Students, t \in Teachers, w \in Windows, m \in Modes,
               dir \in {"student", "reverse"} : \E fee \in {0, Fee[t]} :
            /\ ReverseFree /\ dir = "reverse" => fee = 0
            /\ req' = [req EXCEPT ![r] =
                 [op |-> "assign", checked |-> FALSE, charge |-> fee,
                  row |-> NewRow(s, t, dir, w, m, "confirmed", fee, "batch")]]
            /\ UNCHANGED <<booking, slots, money, counters, today>>
      BY <1>2, AssignBegins
    <2>1. PICK fee \in {0, Fee[t]} :
            /\ dir = "reverse" => fee = 0
            /\ req' = [req EXCEPT ![r] =
                 [op |-> "assign", checked |-> FALSE, charge |-> fee,
                  row |-> NewRow(s, t, dir, w, m, "confirmed", fee, "batch")]]
            /\ UNCHANGED <<booking, money>>
      BY <2>0
    <2> DEFINE x == [op |-> "assign", checked |-> FALSE, charge |-> fee,
                     row |-> NewRow(s, t, dir, w, m, "confirmed", fee, "batch")]
    <2>2. RequestSettled(x)
      BY <2>1 DEF RequestSettled, FreeIfReverse, NewRow, ActiveStatuses
    <2> HIDE DEF x
    <2> QED BY <2>1, <2>2, SettledRequestStep DEF x
  <1>3. CASE BeginPropose(r)
    <2>1. PICK s \in Students, t \in Teachers, w \in Windows, m \in Modes :
            /\ req' = [req EXCEPT ![r] =
                 [op |-> "propose", checked |-> FALSE, charge |-> 0,
                  row |-> NewRow(s, t, "reverse", w, m, "new", 0, "proposal")]]
            /\ UNCHANGED <<booking, money>>
      BY <1>3 DEF BeginPropose, Call, Take
    <2> DEFINE x == [op |-> "propose", checked |-> FALSE, charge |-> 0,
                     row |-> NewRow(s, t, "reverse", w, m, "new", 0, "proposal")]
    <2>2. RequestSettled(x)
      BY DEF RequestSettled, FreeIfReverse, NewRow, ActiveStatuses
    <2> HIDE DEF x
    <2> QED BY <2>1, <2>2, SettledRequestStep DEF x
  <1>4. CASE BeginRespond(r)
    <2>1. PICK b \in DOMAIN booking, accept \in BOOLEAN :
            /\ booking[b].direction = "reverse"
            /\ req' = [req EXCEPT ![r] =
                 [op |-> "respond", b |-> b, row |-> booking[b], accept |-> accept]]
            /\ UNCHANGED <<booking, money>>
      BY <1>4 DEF BeginRespond, Call, Take
    <2> DEFINE x == [op |-> "respond", b |-> b, row |-> booking[b], accept |-> accept]
    <2>2. RequestSettled(x)
      BY <2>1 DEF RequestSettled, Settlement, FreeIfReverse
    <2> HIDE DEF x
    <2> QED BY <2>1, <2>2, SettledRequestStep DEF x
  <1>5. ASSUME NEW op \in {"transition", "teacherCancel", "unacked"},
               NEW b \in DOMAIN booking, NEW to, NEW by, NEW sub,
               booking[b].status \in ActiveStatuses,
               req' = [req EXCEPT ![r] = CasCall(op, b, to, by, sub)],
               UNCHANGED <<booking, money>>
        PROVE  Settlement'
    <2>1. RequestSettled(CasCall(op, b, to, by, sub))
      BY <1>5 DEF RequestSettled, CasCall, Settlement, FreeIfReverse
    <2> QED BY <1>5, <2>1, SettledRequestStep
  <1>6. \A from \in Status, to \in Status : CanTransition(from, to) => from \in ActiveStatuses
    BY DEF CanTransition, BookingTransitions, Status, ActiveStatuses
  <1>7. \A b \in DOMAIN booking : booking[b].status \in Status
    BY DEF TypeOK, Row
  <1>8. CASE BeginTransition(r)
    <2>1. PICK b \in DOMAIN booking, to \in Status \ {"new"} :
            \E by \in AllowedRoles(to) :
              /\ CanTransition(booking[b].status, to)
              /\ req' = [req EXCEPT ![r] = CasCall("transition", b, to, by, NoTeacher)]
              /\ UNCHANGED <<booking, money>>
      BY <1>8 DEF BeginTransition, Call, Take
    <2> QED BY <1>5, <1>6, <1>7, <2>1
  <1>9. CASE BeginTeacherCancel(r)
    <2>1. PICK b \in DOMAIN booking : \E sub :
            /\ CanTransition(booking[b].status, "cancelled")
            /\ req' = [req EXCEPT ![r] =
                         CasCall("teacherCancel", b, "cancelled", "staff", sub)]
            /\ UNCHANGED <<booking, money>>
      BY <1>9 DEF BeginTeacherCancel, Call, Take
    <2>2. "cancelled" \in Status
      BY DEF Status
    <2> QED BY <1>5, <1>6, <1>7, <2>1, <2>2
  <1>10. CASE BeginReschedule(r)
    BY <1>10 DEF BeginReschedule, Call, Take
  <1>11. ASSUME NEW b \in Bookings, BeginUnacked(r, b) PROVE Settlement'
    <2>1. b \in DOMAIN booking /\ booking[b].status \in ActiveStatuses
      BY <1>11 DEF BeginUnacked, UnackedRows, ActiveStatuses
    <2>2. /\ req' = [req EXCEPT ![r] = CasCall("unacked", b, "cancelled", "system", NoTeacher)]
          /\ UNCHANGED <<booking, money>>
      BY <1>11 DEF BeginUnacked, Take
    <2> QED BY <1>5, <2>1, <2>2
  <1> QED BY <1>1, <1>2, <1>3, <1>4, <1>8, <1>9, <1>10, <1>11 DEF Begin

\* A placement that commits is charged exactly its fee.
LEMMA SettledCommitPlace ==
    ASSUME TypeOK, Settlement, NEW r \in Requests, CommitPlace(r)
    PROVE  Settlement'
  <1> DEFINE row == req[r].row
  <1>1. req[r] \in PlaceReq /\ row \in Row /\ row.student \in Students
    BY RequestByOp DEF CommitPlace, TypeOK, PlaceReq, Row
  <1>2. /\ req[r].charge = row.fee
        /\ row.status \in ActiveStatuses
        /\ FreeIfReverse(row)
    BY DEF Settlement, RequestSettled, CommitPlace
  <1>3. PICK b \in Bookings \ DOMAIN booking, rm \in Rooms \cup {NoRoom} :
          /\ booking' = [x \in DOMAIN booking \cup {b} |->
                           IF x = b THEN [row EXCEPT !.room = rm] ELSE booking[x]]
          /\ Consume(row.student, b, req[r].charge)
    BY DEF CommitPlace, AssignRoom, FreeRooms
  <1>4. /\ booking'[b].fee = row.fee
        /\ booking'[b].status = row.status
        /\ booking'[b].direction = row.direction
        /\ \A x \in DOMAIN booking : booking'[x] = booking[x]
        /\ DOMAIN booking' = DOMAIN booking \cup {b}
    <2>1. booking'[b] = [row EXCEPT !.room = rm]
      BY <1>3
    <2> QED BY <1>1, <1>3, <2>1 DEF Row
  <1>5. /\ spent'[b] = row.fee /\ refunded' = refunded
        /\ \A x \in Bookings \ {b} : spent'[x] = spent[x]
    <2>1. spent[b] = 0 /\ row.fee \in Nat
      BY <1>1, <1>3 DEF Settlement, RowsSettled, Row
    <2> QED BY <1>2, <1>3, <2>1 DEF Consume, TypeOK
  <1>6. RowsSettled'
    <2> SUFFICES ASSUME NEW x \in Bookings
                 PROVE  IF x \in DOMAIN booking'
                        THEN /\ spent'[x] = booking'[x].fee
                             /\ refunded'[x] =
                                  IF booking'[x].status \in {"cancelled", "rejected"}
                                  THEN booking'[x].fee ELSE 0
                        ELSE spent'[x] = 0 /\ refunded'[x] = 0
      BY DEF RowsSettled
    <2> QED BY <1>2, <1>3, <1>4, <1>5 DEF Settlement, RowsSettled, ActiveStatuses
  <1>7. \A x \in DOMAIN booking' : FreeIfReverse(booking'[x])
    BY <1>2, <1>4 DEF Settlement, FreeIfReverse
  <1>8. \A q \in Requests : RequestSettled(req[q])'
    <2>1. req' = [req EXCEPT ![r] = Idle]
      BY DEF CommitPlace, End
    <2>2. RequestSettled(Idle)'
      BY IdleSettled DEF RequestSettled, Idle
    <2> QED BY <1>4, <2>1, <2>2, OtherRequests
  <1> QED BY <1>6, <1>7, <1>8 DEF Settlement, FreeIfReverse

\* An answer to a free proposal moves no credits.
LEMMA SettledCommitRespond ==
    ASSUME TypeOK, Settlement, NEW r \in Requests, CommitRespond(r)
    PROVE  Settlement'
  <1> DEFINE b == req[r].b
             row == req[r].row
  <1>1. /\ req[r] \in RespondReq /\ row.student \in Students
        /\ b \in DOMAIN booking /\ b \in Bookings
    BY RequestByOp DEF CommitRespond, TypeOK, RespondReq, Row, Settlement, RequestSettled
  <1>2. row.fee = 0 /\ booking[b].fee = 0
    BY DEF Settlement, RequestSettled, CommitRespond
  <1>3. PICK st \in Status : booking' = [booking EXCEPT ![b] = [booking[b] EXCEPT !.status = st]]
    BY DEF CommitRespond, Status, ActiveStatuses
  <1>4. /\ DOMAIN booking' = DOMAIN booking
        /\ \A x \in DOMAIN booking : /\ booking'[x].fee = booking[x].fee
                                     /\ booking'[x].direction = booking[x].direction
                                     /\ x # b => booking'[x] = booking[x]
    <2>1. booking'[b] = [booking[b] EXCEPT !.status = st]
      BY <1>1, <1>3
    <2>2. booking[b] \in Row
      BY <1>1 DEF TypeOK
    <2> QED BY <1>1, <1>3, <2>1, <2>2 DEF Row
  <1>5. refunded' = refunded /\ spent' = spent
    <2>1. CASE req[r].accept
      <3>1. spent' = [spent EXCEPT ![b] = @ + 0] /\ refunded' = refunded
        BY <1>2, <2>1 DEF CommitRespond, Consume
      <3> QED BY <3>1 DEF TypeOK
    <2>2. CASE ~req[r].accept
      BY <2>2 DEF CommitRespond, money
    <2> QED BY <2>1, <2>2
  <1>6. RowsSettled'
    BY <1>1, <1>2, <1>4, <1>5 DEF Settlement, RowsSettled
  <1>7. \A x \in DOMAIN booking' : FreeIfReverse(booking'[x])
    BY <1>4 DEF Settlement, FreeIfReverse
  <1>8. \A q \in Requests : RequestSettled(req[q])'
    <2>1. req' = [req EXCEPT ![r] = Idle]
      BY DEF CommitRespond, End
    <2>2. RequestSettled(Idle)'
      BY IdleSettled DEF RequestSettled, Idle
    <2>3. \A x \in DOMAIN booking : booking'[x].fee = booking[x].fee
      BY <1>4
    <2> QED BY <1>4, <2>1, <2>2, <2>3, OtherRequests
  <1> QED BY <1>6, <1>7, <1>8 DEF Settlement, FreeIfReverse

\* A conditional status change gives back the fee exactly when it cancels or
\* rejects: the update finds the row as it was read, so nothing was given back
\* before.
LEMMA SettledCommitCas ==
    ASSUME TypeOK, Settlement, NEW r \in Requests, CommitCas(r)
    PROVE  Settlement'
  <1> DEFINE b   == req[r].b
             row == req[r].row
             to  == req[r].to
             due == RefundDue(row, to)
  <1>1. /\ req[r] \in CasReq /\ row.student \in Students
        /\ row.fee \in Nat /\ row.direction \in {"student", "reverse"} /\ to \in Status
    BY RequestByOp DEF CommitCas, TypeOK, CasReq, Row
  <1>2. /\ b \in DOMAIN booking /\ b \in Bookings
        /\ row.fee = booking[b].fee
        /\ row.status \in ActiveStatuses
        /\ FreeIfReverse(row)
    BY <1>1 DEF Settlement, RequestSettled, CommitCas, CasReq
  <1>3. booking[b].status = row.status /\ refunded[b] = 0 /\ spent[b] = row.fee
    BY <1>2 DEF CommitCas, StillAsRead, Settlement, RowsSettled, ActiveStatuses
  <1>4. due = IF to \in {"cancelled", "rejected"} THEN row.fee ELSE 0
    BY <1>1, <1>2 DEF RefundDue, ShouldRefund, Consumed, FreeIfReverse
  <1>5. /\ DOMAIN booking' = DOMAIN booking
        /\ booking'[b].status = to
        /\ \A x \in DOMAIN booking : /\ booking'[x].fee = booking[x].fee
                                     /\ booking'[x].direction = booking[x].direction
                                     /\ x # b => booking'[x] = booking[x]
    <2>1. booking' = [booking EXCEPT ![b] = [booking[b] EXCEPT !.status = to]]
      BY DEF CommitCas
    <2>2. booking'[b] = [booking[b] EXCEPT !.status = to]
      BY <1>2, <2>1
    <2>3. booking[b] \in Row
      BY <1>2 DEF TypeOK
    <2> QED BY <1>2, <2>1, <2>2, <2>3 DEF Row
  <1>6. /\ spent' = spent /\ refunded'[b] = due
        /\ \A x \in Bookings \ {b} : refunded'[x] = refunded[x]
    <2>1. refunded' = [refunded EXCEPT ![b] = @ + due] /\ spent' = spent
      BY DEF CommitCas, Refund
    <2> HIDE DEF due
    <2>2. due \in Nat
      BY <1>1, <1>4
    <2> QED BY <1>2, <1>3, <2>1, <2>2 DEF TypeOK
  <1>7. RowsSettled'
    <2> HIDE DEF due
    <2> SUFFICES ASSUME NEW x \in Bookings
                 PROVE  IF x \in DOMAIN booking'
                        THEN /\ spent'[x] = booking'[x].fee
                             /\ refunded'[x] =
                                  IF booking'[x].status \in {"cancelled", "rejected"}
                                  THEN booking'[x].fee ELSE 0
                        ELSE spent'[x] = 0 /\ refunded'[x] = 0
      BY DEF RowsSettled
    <2>1. CASE x = b
      BY <1>2, <1>3, <1>4, <1>5, <1>6, <2>1
    <2>2. CASE x # b
      BY <1>2, <1>5, <1>6, <2>2 DEF Settlement, RowsSettled
    <2> QED BY <2>1, <2>2
  <1>8. \A x \in DOMAIN booking' : FreeIfReverse(booking'[x])
    BY <1>5 DEF Settlement, FreeIfReverse
  <1>9. PICK next : next = AfterCas(r)
    OBVIOUS
  <1>10. RequestSettled(next)'
    BY <1>9 DEF AfterCas, RequestSettled, Idle, NewRow, FreeIfReverse, ActiveStatuses
  <1>11. \A q \in Requests : RequestSettled(req[q])'
    BY <1>5, <1>9, <1>10, OtherRequests DEF CommitCas
  <1> QED BY <1>7, <1>8, <1>11 DEF Settlement, FreeIfReverse

\* Every step a request takes after it began keeps the settlement.
LEMMA SettledWork ==
    ASSUME TypeOK, Settlement, NEW r \in Requests, Work(r) \/ Abort(r)
    PROVE  Settlement'
  <1>1. CASE CheckPlace(r)
    <2> DEFINE x == [req[r] EXCEPT !.checked = TRUE]
    <2>1. req[r] \in PlaceReq
      BY <1>1, RequestByOp DEF CheckPlace, TypeOK
    <2>2. x.op = req[r].op /\ x.charge = req[r].charge /\ x.row = req[r].row
      BY <2>1 DEF PlaceReq
    <2>3. RequestSettled(req[r]) /\ req[r].op \in {"create", "assign", "propose", "priority"}
      BY <1>1 DEF Settlement, CheckPlace
    <2>4. req' = [req EXCEPT ![r] = x] /\ UNCHANGED <<booking, money>>
      BY <1>1 DEF CheckPlace
    <2> HIDE DEF x
    <2>5. RequestSettled(x)
      BY <2>2, <2>3 DEF RequestSettled
    <2> QED BY <2>4, <2>5, SettledRequestStep
  <1>2. CASE CommitPlace(r)
    BY <1>2, SettledCommitPlace
  <1>3. CASE ShortPlace(r) \/ ShortRespond(r) \/ Abort(r)
    BY <1>3, IdleSettled, SettledRequestStep DEF ShortPlace, ShortRespond, Abort, End
  <1>4. CASE CommitRespond(r)
    BY <1>4, SettledCommitRespond
  <1>5. CASE CommitCas(r)
    BY <1>5, SettledCommitCas
  <1>6. CASE CheckReschedule(r) \/ CommitReschedule(r)
    BY <1>6 DEF CheckReschedule, CommitReschedule, Settlement, RequestSettled
  <1> QED BY <1>1, <1>2, <1>3, <1>4, <1>5, <1>6 DEF Work

\* An acknowledgement touches no fee and no status.
LEMMA SettledAck ==
    ASSUME TypeOK, Settlement, NEW b \in DOMAIN booking, AckByTeacher(b)
    PROVE  Settlement'
  <1>1. booking' = [booking EXCEPT ![b] = [booking[b] EXCEPT !.acked = TRUE]]
    BY DEF AckByTeacher
  <1>2. /\ DOMAIN booking' = DOMAIN booking
        /\ \A x \in DOMAIN booking : /\ booking'[x].fee = booking[x].fee
                                     /\ booking'[x].status = booking[x].status
                                     /\ booking'[x].direction = booking[x].direction
    <2>1. booking[b] \in Row
      BY DEF TypeOK
    <2> QED BY <1>1, <2>1 DEF Row
  <1>3. UNCHANGED <<spent, refunded, req>>
    BY DEF AckByTeacher, money
  <1> QED BY <1>2, <1>3 DEF Settlement, RowsSettled, RequestSettled, FreeIfReverse

\* With free proposals and no moves, every booking is charged its fee once and
\* given it back once if it was cancelled or rejected, whichever creations,
\* assignments, answers, transitions, cancellations and sweeps overlap.
THEOREM SettlementHolds ==
    ASSUME ReverseFree, "reschedule" \notin Ops
    PROVE  Spec => []Settlement
  <1>1. Init => Settlement
    BY IdleSettled DEF Init, Settlement, RowsSettled
  <1>2. TypeOK /\ Settlement /\ [Next]_vars => Settlement'
    <2> SUFFICES ASSUME TypeOK, Settlement, [Next]_vars PROVE Settlement'
      OBVIOUS
    <2>1. ASSUME NEW r \in Requests, Begin(r) \/ Work(r) \/ Abort(r) PROVE Settlement'
      BY <2>1, SettledBegin, SettledWork
    <2>2. ASSUME NEW b \in DOMAIN booking, AckByTeacher(b) PROVE Settlement'
      BY <2>2, SettledAck
    <2>3. CASE NextDay \/ UNCHANGED vars
      BY <2>3 DEF NextDay, vars, money, Settlement, RowsSettled, RequestSettled
    <2> QED BY <2>1, <2>2, <2>3 DEF Next
  <1> QED BY <1>1, <1>2, TypeCorrect, PTL DEF Spec

\* Under the same conditions no request ever gives back more than was taken,
\* and a booking that ended by cancellation or rejection has everything back.
THEOREM CreditsSettled ==
    ASSUME ReverseFree, "reschedule" \notin Ops
    PROVE  Spec => [](RefundAtMostSpent /\ SettledInFull)
  <1>1. TypeOK /\ Settlement => RefundAtMostSpent /\ SettledInFull
    <2> SUFFICES ASSUME TypeOK, Settlement PROVE RefundAtMostSpent /\ SettledInFull
      OBVIOUS
    <2>1. \A b \in DOMAIN booking : b \in Bookings /\ booking[b].fee \in Nat
      BY DEF TypeOK, Row
    <2> QED BY <2>1 DEF Settlement, RowsSettled, RefundAtMostSpent, SettledInFull
  <1> QED BY <1>1, TypeCorrect, SettlementHolds, PTL

(****************************************************************************)
(* Closing a booking is counted once, while nothing is moved and no         *)
(* proposal is answered: those two updates do not look at the status again  *)
(* (the runs booking_mint and booking_revive).                              *)
(****************************************************************************)
\* The bookings of a student that ended one way.
Ended(s, st) == {b \in DOMAIN booking : booking[b].student = s /\ booking[b].status = st}

CountedEnds == {"noshow", "rejected", "cancelled"}

\* What a request still knows rightly of the booking it is about to close.
RequestCounted(x) ==
    /\ x.op \notin {"respond", "reschedule"}
    /\ x.op \in {"create", "assign", "propose", "priority"} => x.row.status \in ActiveStatuses
    /\ x.op \in {"transition", "teacherCancel", "unacked"} =>
         /\ x.b \in DOMAIN booking
         /\ x.row.status \in ActiveStatuses
         /\ x.row.student = booking[x.b].student
         /\ x.op # "transition" => x.to = "cancelled"

EventsCounted ==
    \A b \in Bookings : /\ cancelEvents[b] <= 1
                        /\ cancelEvents[b] = 1 => /\ b \in DOMAIN booking
                                                  /\ booking[b].status = "cancelled"

OffencesCounted ==
    \A s \in Students : /\ offences[s].noshow = Cardinality(Ended(s, "noshow"))
                        /\ offences[s].rejected = Cardinality(Ended(s, "rejected"))
                        /\ offences[s].sameDay <= Cardinality(Ended(s, "cancelled"))

CountedInv ==
    /\ IsFiniteSet(DOMAIN booking)
    /\ \A r \in Requests : RequestCounted(req[r])
    /\ EventsCounted
    /\ OffencesCounted

\* An idle request closes nothing.
LEMMA IdleCounted == RequestCounted(Idle)
  BY DEF RequestCounted, Idle

\* A step that changes one request and no row keeps the counts.
LEMMA CountedRequestStep ==
    ASSUME TypeOK, CountedInv, NEW r \in Requests, NEW x, RequestCounted(x),
           req' = [req EXCEPT ![r] = x], UNCHANGED <<booking, cancelEvents, offences>>
    PROVE  CountedInv'
  <1>1. \A q \in Requests : RequestCounted(req'[q])
    BY DEF TypeOK, CountedInv
  <1>2. \A q \in Requests : RequestCounted(req[q])'
    BY <1>1 DEF RequestCounted
  <1>3. EventsCounted' /\ OffencesCounted'
    BY DEF CountedInv, EventsCounted, OffencesCounted, Ended
  <1> QED BY <1>2, <1>3 DEF CountedInv

\* A step that keeps the student of every row keeps every other request.
LEMMA OthersCounted ==
    ASSUME TypeOK, CountedInv, NEW r \in Requests, NEW x, req' = [req EXCEPT ![r] = x],
           DOMAIN booking \subseteq DOMAIN booking',
           \A b \in DOMAIN booking : booking'[b].student = booking[b].student,
           RequestCounted(x)'
    PROVE  \A q \in Requests : RequestCounted(req[q])'
  <1> SUFFICES ASSUME NEW q \in Requests PROVE RequestCounted(req[q])'
    OBVIOUS
  <1>1. CASE q = r
    <2>1. req'[q] = x
      BY <1>1 DEF TypeOK
    <2> QED BY <2>1 DEF RequestCounted
  <1>2. CASE q # r
    <2>1. req'[q] = req[q] /\ RequestCounted(req[q])
      BY <1>2 DEF TypeOK, CountedInv
    <2> QED BY <2>1 DEF RequestCounted
  <1> QED BY <1>1, <1>2

\* A step after which the same bookings are missed, rejected and cancelled.
LEMMA CountedSameEnds ==
    ASSUME TypeOK, CountedInv, DOMAIN booking \subseteq DOMAIN booking',
           \A b \in DOMAIN booking : /\ booking'[b].student = booking[b].student
                                     /\ booking'[b].status = booking[b].status,
           \A b \in DOMAIN booking' \ DOMAIN booking : booking'[b].status \in ActiveStatuses,
           UNCHANGED <<cancelEvents, offences>>
    PROVE  EventsCounted' /\ OffencesCounted'
  <1>1. \A s \in Students, st \in CountedEnds : Ended(s, st)' = Ended(s, st)
    BY DEF Ended, CountedEnds, ActiveStatuses
  <1>2. EventsCounted'
    BY DEF CountedInv, EventsCounted
  <1>3. OffencesCounted'
    BY <1>1 DEF CountedInv, OffencesCounted, CountedEnds
  <1> QED BY <1>2, <1>3

\* Every request that starts to close a booking found it live.
LEMMA CountedBegin ==
    ASSUME "reschedule" \notin Ops, "respond" \notin Ops, TypeOK, CountedInv,
           NEW r \in Requests, Begin(r)
    PROVE  CountedInv'
  <1>1. ASSUME NEW op \in {"create", "assign", "propose"}, NEW row, NEW charge,
               row.status \in ActiveStatuses,
               req' = [req EXCEPT ![r] =
                         [op |-> op, checked |-> FALSE, charge |-> charge, row |-> row]],
               UNCHANGED <<booking, cancelEvents, offences>>
        PROVE  CountedInv'
    <2> DEFINE x == [op |-> op, checked |-> FALSE, charge |-> charge, row |-> row]
    <2>1. RequestCounted(x)
      BY <1>1 DEF RequestCounted
    <2> HIDE DEF x
    <2> QED BY <1>1, <2>1, CountedRequestStep DEF x
  <1>2. ASSUME NEW op \in {"transition", "teacherCancel", "unacked"},
               NEW b \in DOMAIN booking, NEW to, NEW by, NEW sub,
               booking[b].status \in ActiveStatuses, op # "transition" => to = "cancelled",
               req' = [req EXCEPT ![r] = CasCall(op, b, to, by, sub)],
               UNCHANGED <<booking, cancelEvents, offences>>
        PROVE  CountedInv'
    <2>1. RequestCounted(CasCall(op, b, to, by, sub))
      BY <1>2 DEF RequestCounted, CasCall
    <2> QED BY <1>2, <2>1, CountedRequestStep
  <1>3. \A from \in Status, to \in Status : CanTransition(from, to) => from \in ActiveStatuses
    BY DEF CanTransition, BookingTransitions, Status, ActiveStatuses
  <1>4. \A b \in DOMAIN booking : booking[b].status \in Status
    BY DEF TypeOK, Row
  <1>5. CASE BeginCreate(r)
    <2>1. PICK s \in Students, t \in Teachers, w \in Windows, m \in Modes :
            /\ req' = [req EXCEPT ![r] =
                 [op |-> "create", checked |-> FALSE, charge |-> Fee[t],
                  row |-> NewRow(s, t, "student", w, m,
                                 IF t \in FullTime THEN "confirmed" ELSE "new", Fee[t],
                                 IF t \in FullTime THEN "fulltime" ELSE "direct")]]
            /\ UNCHANGED <<booking, cancelEvents, offences>>
      BY <1>5 DEF BeginCreate, Call, Take, counters
    <2> DEFINE row == NewRow(s, t, "student", w, m,
                             IF t \in FullTime THEN "confirmed" ELSE "new", Fee[t],
                             IF t \in FullTime THEN "fulltime" ELSE "direct")
    <2>2. row.status \in ActiveStatuses
      BY DEF NewRow, ActiveStatuses
    <2> HIDE DEF row
    <2> QED BY <1>1, <2>1, <2>2 DEF row
  <1>6. CASE BeginAssign(r)
    <2>0. PICK s \in Students, t \in Teachers, w \in Windows, m \in Modes,
               dir \in {"student", "reverse"} : \E fee \in {0, Fee[t]} :
            /\ ReverseFree /\ dir = "reverse" => fee = 0
            /\ req' = [req EXCEPT ![r] =
                 [op |-> "assign", checked |-> FALSE, charge |-> fee,
                  row |-> NewRow(s, t, dir, w, m, "confirmed", fee, "batch")]]
            /\ UNCHANGED <<booking, slots, money, counters, today>>
      BY <1>6, AssignBegins
    <2>1. PICK fee \in {0, Fee[t]} :
            /\ req' = [req EXCEPT ![r] =
                 [op |-> "assign", checked |-> FALSE, charge |-> fee,
                  row |-> NewRow(s, t, dir, w, m, "confirmed", fee, "batch")]]
            /\ UNCHANGED <<booking, cancelEvents, offences>>
      BY <2>0 DEF counters
    <2> DEFINE row == NewRow(s, t, dir, w, m, "confirmed", fee, "batch")
    <2>2. row.status \in ActiveStatuses
      BY DEF NewRow, ActiveStatuses
    <2> HIDE DEF row
    <2> QED BY <1>1, <2>1, <2>2 DEF row
  <1>7. CASE BeginPropose(r)
    <2>1. PICK s \in Students, t \in Teachers, w \in Windows, m \in Modes : \E fee :
            /\ req' = [req EXCEPT ![r] =
                 [op |-> "propose", checked |-> FALSE, charge |-> 0,
                  row |-> NewRow(s, t, "reverse", w, m, "new", fee, "proposal")]]
            /\ UNCHANGED <<booking, cancelEvents, offences>>
      BY <1>7 DEF BeginPropose, Call, Take, counters
    <2>2. PICK fee :
            /\ req' = [req EXCEPT ![r] =
                 [op |-> "propose", checked |-> FALSE, charge |-> 0,
                  row |-> NewRow(s, t, "reverse", w, m, "new", fee, "proposal")]]
            /\ UNCHANGED <<booking, cancelEvents, offences>>
      BY <2>1
    <2> DEFINE row == NewRow(s, t, "reverse", w, m, "new", fee, "proposal")
    <2>3. row.status \in ActiveStatuses
      BY DEF NewRow, ActiveStatuses
    <2> HIDE DEF row
    <2> QED BY <1>1, <2>2, <2>3 DEF row
  <1>8. CASE BeginTransition(r)
    <2>1. PICK b \in DOMAIN booking, to \in Status \ {"new"} :
            \E by \in AllowedRoles(to) :
              /\ CanTransition(booking[b].status, to)
              /\ req' = [req EXCEPT ![r] = CasCall("transition", b, to, by, NoTeacher)]
              /\ UNCHANGED <<booking, cancelEvents, offences>>
      BY <1>8 DEF BeginTransition, Call, Take, counters
    <2> QED BY <1>2, <1>3, <1>4, <2>1
  <1>9. CASE BeginTeacherCancel(r)
    <2>1. PICK b \in DOMAIN booking : \E sub :
            /\ CanTransition(booking[b].status, "cancelled")
            /\ req' = [req EXCEPT ![r] =
                         CasCall("teacherCancel", b, "cancelled", "staff", sub)]
            /\ UNCHANGED <<booking, cancelEvents, offences>>
      BY <1>9 DEF BeginTeacherCancel, Call, Take, counters
    <2>2. "cancelled" \in Status
      BY DEF Status
    <2> QED BY <1>2, <1>3, <1>4, <2>1, <2>2
  <1>10. CASE BeginRespond(r) \/ BeginReschedule(r)
    BY <1>10 DEF BeginRespond, BeginReschedule, Call, Take
  <1>11. ASSUME NEW b \in Bookings, BeginUnacked(r, b) PROVE CountedInv'
    <2>1. b \in DOMAIN booking /\ booking[b].status \in ActiveStatuses
      BY <1>11 DEF BeginUnacked, UnackedRows, ActiveStatuses
    <2>2. /\ req' = [req EXCEPT ![r] = CasCall("unacked", b, "cancelled", "system", NoTeacher)]
          /\ UNCHANGED <<booking, cancelEvents, offences>>
      BY <1>11 DEF BeginUnacked, Take, counters
    <2> QED BY <1>2, <2>1, <2>2
  <1> QED BY <1>5, <1>6, <1>7, <1>8, <1>9, <1>10, <1>11 DEF Begin

\* A new booking is live, and its id had no event.
LEMMA CountedCommitPlace ==
    ASSUME TypeOK, CountedInv, NEW r \in Requests, CommitPlace(r)
    PROVE  CountedInv'
  <1> DEFINE row == req[r].row
  <1>1. /\ req[r].op \in {"create", "assign", "propose", "priority"}
        /\ row \in Row /\ row.status \in ActiveStatuses
    BY RequestByOp DEF CommitPlace, TypeOK, PlaceReq, CountedInv, RequestCounted
  <1>2. PICK b \in Bookings \ DOMAIN booking, rm \in Rooms \cup {NoRoom} :
          booking' = [x \in DOMAIN booking \cup {b} |->
                        IF x = b THEN [row EXCEPT !.room = rm] ELSE booking[x]]
    BY DEF CommitPlace, AssignRoom, FreeRooms
  <1> DEFINE new == [row EXCEPT !.room = rm]
  <1>3. new.status = row.status
    BY <1>1 DEF Row
  <1>4. /\ DOMAIN booking' = DOMAIN booking \cup {b}
        /\ booking'[b] = new
        /\ \A c \in DOMAIN booking : booking'[c] = booking[c]
    BY <1>2
  <1> HIDE DEF new
  <1>5. \A c \in DOMAIN booking' \ DOMAIN booking : booking'[c].status \in ActiveStatuses
    BY <1>1, <1>3, <1>4
  <1>6. UNCHANGED <<cancelEvents, offences>> /\ req' = [req EXCEPT ![r] = Idle]
    BY DEF CommitPlace, counters, End
  <1>7. EventsCounted' /\ OffencesCounted'
    BY <1>4, <1>5, <1>6, CountedSameEnds
  <1>8. RequestCounted(Idle)'
    BY DEF RequestCounted, Idle
  <1>9. \A q \in Requests : RequestCounted(req[q])'
    BY <1>4, <1>6, <1>8, OthersCounted
  <1>10. IsFiniteSet(DOMAIN booking')
    BY <1>4, FS_AddElement DEF CountedInv
  <1> QED BY <1>7, <1>9, <1>10 DEF CountedInv

\* The counters after a booking of a student, live before, ended with status
\* to and the offence why was written down, or none.
LEMMA CountedOneMore ==
    ASSUME TypeOK, CountedInv, NEW b \in DOMAIN booking, NEW to,
           booking[b].status \in ActiveStatuses,
           DOMAIN booking' = DOMAIN booking,
           booking'[b].status = to,
           \A c \in DOMAIN booking : /\ booking'[c].student = booking[c].student
                                     /\ c # b => booking'[c] = booking[c],
           NEW why,
           to = "noshow" => why = "noshow",
           to = "rejected" => why = "rejected",
           to = "cancelled" => why \in {"none", "sameDay"},
           to \notin CountedEnds => why = "none",
           offences' = IF why # "none"
                       THEN [offences EXCEPT ![booking[b].student][why] = @ + 1]
                       ELSE offences
    PROVE  OffencesCounted'
  <1> DEFINE s0 == booking[b].student
  <1>1. s0 \in Students
    BY DEF TypeOK, Row
  <1>2. why \in OffenceKinds \cup {"none"}
    BY DEF OffenceKinds, CountedEnds
  <1>3. \A s \in Students, st \in CountedEnds :
          /\ b \notin Ended(s, st)
          /\ IsFiniteSet(Ended(s, st))
          /\ Cardinality(Ended(s, st)) \in Nat
    <2> SUFFICES ASSUME NEW s \in Students, NEW st \in CountedEnds
                 PROVE  /\ b \notin Ended(s, st)
                        /\ IsFiniteSet(Ended(s, st))
                        /\ Cardinality(Ended(s, st)) \in Nat
      OBVIOUS
    <2>1. b \notin Ended(s, st)
      BY DEF Ended, CountedEnds, ActiveStatuses
    <2>2. Ended(s, st) \subseteq DOMAIN booking
      BY DEF Ended
    <2>3. IsFiniteSet(Ended(s, st))
      BY <2>2, FS_Subset DEF CountedInv
    <2> QED BY <2>1, <2>3, FS_CardinalityType
  <1>4. ASSUME NEW s \in Students, NEW st \in CountedEnds
        PROVE  Cardinality(Ended(s, st)') = IF s = s0 /\ st = to
                                            THEN Cardinality(Ended(s, st)) + 1
                                            ELSE Cardinality(Ended(s, st))
    <2>1. CASE s = s0 /\ st = to
      <3>1. Ended(s, st)' = Ended(s, st) \cup {b}
        BY <2>1 DEF Ended
      <3>2. IsFiniteSet(Ended(s, st)) /\ b \notin Ended(s, st)
        BY <1>3
      <3>3. Cardinality(Ended(s, st) \cup {b}) = Cardinality(Ended(s, st)) + 1
        BY <3>2, FS_AddElement
      <3> QED BY <2>1, <3>1, <3>3
    <2>2. CASE ~(s = s0 /\ st = to)
      <3>1. Ended(s, st)' = Ended(s, st)
        BY <1>3, <2>2 DEF Ended
      <3> QED BY <2>2, <3>1
    <2> QED BY <2>1, <2>2
  <1>5. \A s \in Students, k \in OffenceKinds :
          /\ offences[s][k] \in Nat
          /\ offences'[s][k] = IF s = s0 /\ k = why THEN offences[s][k] + 1 ELSE offences[s][k]
    <2>1. offences \in [Students -> [OffenceKinds -> Nat]]
      BY DEF TypeOK, Offences
    <2>2. CASE why = "none"
      <3>1. offences' = offences
        BY <2>2
      <3>2. "none" \notin OffenceKinds
        BY DEF OffenceKinds
      <3> QED BY <2>1, <2>2, <3>1, <3>2
    <2>3. CASE why # "none"
      <3>1. why \in OffenceKinds
        BY <1>2, <2>3
      <3>2. offences' = [offences EXCEPT ![s0] = [offences[s0] EXCEPT ![why] = @ + 1]]
        BY <2>3
      <3> HIDE DEF s0
      <3> QED BY <1>1, <2>1, <3>1, <3>2
    <2> QED BY <2>2, <2>3
  <1> HIDE DEF s0
  <1> SUFFICES ASSUME NEW s \in Students
               PROVE  /\ offences'[s].noshow = Cardinality(Ended(s, "noshow")')
                      /\ offences'[s].rejected = Cardinality(Ended(s, "rejected")')
                      /\ offences'[s].sameDay <= Cardinality(Ended(s, "cancelled")')
    BY DEF OffencesCounted
  <1>6. /\ offences[s].noshow = Cardinality(Ended(s, "noshow"))
        /\ offences[s].rejected = Cardinality(Ended(s, "rejected"))
        /\ offences[s].sameDay <= Cardinality(Ended(s, "cancelled"))
    BY DEF CountedInv, OffencesCounted
  <1>7. /\ Cardinality(Ended(s, "noshow")') =
             IF s = s0 /\ "noshow" = to THEN Cardinality(Ended(s, "noshow")) + 1
                                        ELSE Cardinality(Ended(s, "noshow"))
        /\ Cardinality(Ended(s, "rejected")') =
             IF s = s0 /\ "rejected" = to THEN Cardinality(Ended(s, "rejected")) + 1
                                          ELSE Cardinality(Ended(s, "rejected"))
        /\ Cardinality(Ended(s, "cancelled")') =
             IF s = s0 /\ "cancelled" = to THEN Cardinality(Ended(s, "cancelled")) + 1
                                           ELSE Cardinality(Ended(s, "cancelled"))
    BY <1>4 DEF CountedEnds
  <1>8. /\ offences'[s].noshow = IF s = s0 /\ "noshow" = why
                                 THEN offences[s].noshow + 1 ELSE offences[s].noshow
        /\ offences'[s].rejected = IF s = s0 /\ "rejected" = why
                                   THEN offences[s].rejected + 1 ELSE offences[s].rejected
        /\ offences'[s].sameDay = IF s = s0 /\ "sameDay" = why
                                  THEN offences[s].sameDay + 1 ELSE offences[s].sameDay
        /\ offences[s].sameDay \in Nat
    BY <1>5 DEF OffenceKinds
  <1>9. /\ "noshow" = why <=> "noshow" = to
        /\ "rejected" = why <=> "rejected" = to
        /\ "sameDay" = why => "cancelled" = to
    BY DEF CountedEnds
  <1>10. Cardinality(Ended(s, "cancelled")) \in Nat
    BY <1>3 DEF CountedEnds
  <1> QED BY <1>6, <1>7, <1>8, <1>9, <1>10

\* A conditional change ends a live booking: nothing was counted for it yet,
\* and what is counted now is what it became.
LEMMA CountedCommitCas ==
    ASSUME TypeOK, CountedInv, NEW r \in Requests, CommitCas(r)
    PROVE  /\ CountedInv'
           /\ booking[req[r].b].status \in ActiveStatuses
           /\ \A c \in DOMAIN booking : c # req[r].b => booking'[c] = booking[c]
  <1>1. PICK b, to, why : /\ b = req[r].b /\ to = req[r].to
                          /\ why = IF req[r].op = "transition"
                                   THEN Offence(req[r].to, req[r].by, req[r].row) ELSE "none"
    OBVIOUS
  <1>2. /\ req[r].op \in {"transition", "teacherCancel", "unacked"}
        /\ to \in Status
        /\ b \in DOMAIN booking
        /\ req[r].row.student = booking[b].student
        /\ req[r].op # "transition" => to = "cancelled"
    BY <1>1, RequestByOp DEF CommitCas, TypeOK, CasReq, CountedInv, RequestCounted
  <1>3. booking[b].status \in ActiveStatuses
    BY <1>1 DEF CommitCas, StillAsRead, CountedInv, RequestCounted
  <1>4. /\ booking' = [booking EXCEPT ![b].status = to]
        /\ req' = [req EXCEPT ![r] = AfterCas(r)]
        /\ cancelEvents' = IF req[r].op = "teacherCancel"
                           THEN [cancelEvents EXCEPT ![b] = @ + 1] ELSE cancelEvents
        /\ offences' = IF why # "none"
                       THEN [offences EXCEPT ![booking[b].student][why] = @ + 1]
                       ELSE offences
    BY <1>1, <1>2 DEF CommitCas
  <1>5. /\ DOMAIN booking' = DOMAIN booking
        /\ booking'[b].status = to
        /\ \A c \in DOMAIN booking : /\ booking'[c].student = booking[c].student
                                     /\ c # b => booking'[c] = booking[c]
    <2>1. booking' = [booking EXCEPT ![b] = [booking[b] EXCEPT !.status = to]]
      BY <1>4
    <2>2. booking'[b] = [booking[b] EXCEPT !.status = to]
      BY <1>2, <2>1
    <2>3. booking[b] \in Row
      BY <1>2 DEF TypeOK
    <2> QED BY <1>2, <2>1, <2>2, <2>3 DEF Row
  <1>6. /\ to = "noshow" => why = "noshow"
        /\ to = "rejected" => why = "rejected"
        /\ to = "cancelled" => why \in {"none", "sameDay"}
        /\ to \notin CountedEnds => why = "none"
    <2>1. CASE req[r].op # "transition"
      BY <1>1, <1>2, <2>1 DEF CountedEnds
    <2>2. CASE req[r].op = "transition"
      BY <1>1, <2>2 DEF CountedEnds, Offence
    <2> QED BY <2>1, <2>2
  <1>7. OffencesCounted'
    BY <1>2, <1>3, <1>4, <1>5, <1>6, CountedOneMore
  <1>8. EventsCounted'
    <2>1. b \in Bookings /\ cancelEvents \in [Bookings -> Nat]
      BY <1>2 DEF TypeOK
    <2>2. cancelEvents[b] = 0
      BY <1>3, <2>1 DEF CountedInv, EventsCounted, ActiveStatuses
    <2>3. \A c \in Bookings \ {b} : cancelEvents'[c] = cancelEvents[c]
      BY <1>4, <2>1
    <2>4. cancelEvents'[b] = IF req[r].op = "teacherCancel" THEN 1 ELSE 0
      BY <1>4, <2>1, <2>2
    <2>5. req[r].op = "teacherCancel" => to = "cancelled"
      BY <1>2
    <2> QED BY <1>2, <1>5, <2>3, <2>4, <2>5 DEF CountedInv, EventsCounted
  <1>9. PICK next : next = AfterCas(r)
    OBVIOUS
  <1>10. RequestCounted(next)'
    BY <1>9 DEF AfterCas, RequestCounted, Idle, NewRow, ActiveStatuses
  <1>11. \A q \in Requests : RequestCounted(req[q])'
    BY <1>4, <1>5, <1>9, <1>10, OthersCounted
  <1>12. CountedInv'
    BY <1>5, <1>7, <1>8, <1>11 DEF CountedInv
  <1> QED BY <1>1, <1>3, <1>5, <1>12

\* Every step a request takes after it began keeps the counts.
LEMMA CountedWork ==
    ASSUME TypeOK, CountedInv, NEW r \in Requests, Work(r) \/ Abort(r)
    PROVE  CountedInv'
  <1>1. CASE CheckPlace(r)
    <2> DEFINE x == [req[r] EXCEPT !.checked = TRUE]
    <2>1. req[r] \in PlaceReq
      BY <1>1, RequestByOp DEF CheckPlace, TypeOK
    <2>2. x.op = req[r].op /\ x.row = req[r].row
      BY <2>1 DEF PlaceReq
    <2>3. RequestCounted(req[r]) /\ req[r].op \in {"create", "assign", "propose", "priority"}
      BY <1>1 DEF CountedInv, CheckPlace
    <2>4. req' = [req EXCEPT ![r] = x] /\ UNCHANGED <<booking, cancelEvents, offences>>
      BY <1>1 DEF CheckPlace, counters
    <2> HIDE DEF x
    <2>5. RequestCounted(x)
      BY <2>2, <2>3 DEF RequestCounted
    <2> QED BY <2>4, <2>5, CountedRequestStep
  <1>2. CASE CommitPlace(r)
    BY <1>2, CountedCommitPlace
  <1>3. CASE ShortPlace(r) \/ Abort(r)
    BY <1>3, IdleCounted, CountedRequestStep DEF ShortPlace, Abort, End, counters
  <1>4. CASE CommitCas(r)
    BY <1>4, CountedCommitCas
  <1>5. CASE CommitRespond(r) \/ ShortRespond(r) \/ CheckReschedule(r) \/ CommitReschedule(r)
    BY <1>5 DEF CommitRespond, ShortRespond, CheckReschedule, CommitReschedule,
                CountedInv, RequestCounted
  <1> QED BY <1>1, <1>2, <1>3, <1>4, <1>5 DEF Work

\* An acknowledgement closes nothing.
LEMMA CountedAck ==
    ASSUME TypeOK, CountedInv, NEW b \in DOMAIN booking, AckByTeacher(b)
    PROVE  CountedInv' /\ \A c \in DOMAIN booking : booking'[c].status = booking[c].status
  <1>1. booking' = [booking EXCEPT ![b] = [booking[b] EXCEPT !.acked = TRUE]]
    BY DEF AckByTeacher
  <1>2. /\ DOMAIN booking' = DOMAIN booking
        /\ \A c \in DOMAIN booking : /\ booking'[c].student = booking[c].student
                                     /\ booking'[c].status = booking[c].status
    <2>1. booking[b] \in Row
      BY DEF TypeOK
    <2> QED BY <1>1, <2>1 DEF Row
  <1>3. UNCHANGED <<cancelEvents, offences, req>>
    BY DEF AckByTeacher, counters
  <1>4. EventsCounted' /\ OffencesCounted'
    BY <1>2, <1>3, CountedSameEnds
  <1>5. \A q \in Requests : RequestCounted(req[q])'
    BY <1>2, <1>3 DEF CountedInv, RequestCounted
  <1> QED BY <1>2, <1>4, <1>5 DEF CountedInv

\* Every step of the engine keeps the counts.
LEMMA CountedNext ==
    ASSUME "reschedule" \notin Ops, "respond" \notin Ops, TypeOK, CountedInv, [Next]_vars
    PROVE  CountedInv'
  <1>1. ASSUME NEW r \in Requests, Begin(r) \/ Work(r) \/ Abort(r) PROVE CountedInv'
    BY <1>1, CountedBegin, CountedWork
  <1>2. ASSUME NEW b \in DOMAIN booking, AckByTeacher(b) PROVE CountedInv'
    BY <1>2, CountedAck
  <1>3. CASE NextDay \/ UNCHANGED vars
    <2>1. UNCHANGED <<booking, req, cancelEvents, offences>>
      BY <1>3 DEF NextDay, vars, counters
    <2>2. EventsCounted' /\ OffencesCounted'
      BY <2>1 DEF CountedInv, EventsCounted, OffencesCounted, Ended
    <2> QED BY <2>1, <2>2 DEF CountedInv, RequestCounted
  <1> QED BY <1>1, <1>2, <1>3 DEF Next

\* Nothing is counted before the first booking.
LEMMA CountedInit == Init => CountedInv
  <1> SUFFICES ASSUME Init PROVE CountedInv
    OBVIOUS
  <1>1. DOMAIN booking = {} /\ IsFiniteSet(DOMAIN booking)
    BY FS_EmptySet DEF Init
  <1>2. \A r \in Requests : RequestCounted(req[r])
    BY IdleCounted DEF Init
  <1>3. EventsCounted
    BY DEF Init, EventsCounted
  <1>4. \A s, st : Ended(s, st) = {}
    BY <1>1 DEF Ended
  <1>5. \A s \in Students : /\ offences[s].noshow = 0 /\ offences[s].rejected = 0
                            /\ offences[s].sameDay = 0
    BY DEF Init, OffenceKinds
  <1>6. OffencesCounted
    BY <1>4, <1>5, FS_EmptySet DEF OffencesCounted
  <1> QED BY <1>1, <1>2, <1>3, <1>6 DEF CountedInv

\* However many transitions, cancellations with a reason and sweeps close one
\* booking at the same time, one of them does: one cancellation event at most,
\* and one offence for each booking missed or rejected.
THEOREM CountedOnceHolds ==
    ASSUME "reschedule" \notin Ops, "respond" \notin Ops
    PROVE  Spec => []CountedOnce
  <1>1. TypeOK /\ CountedInv /\ [Next]_vars => CountedInv'
    BY CountedNext
  <1>2. CountedInv => CountedOnce
    BY DEF CountedInv, EventsCounted, OffencesCounted, Ended, CountedOnce
  <1> QED BY CountedInit, <1>1, <1>2, TypeCorrect, PTL DEF Spec

\* Under the same conditions a booking that ended stays as it ended: every
\* update that remains is conditional on the live status its request read.
THEOREM TerminalHolds ==
    ASSUME "reschedule" \notin Ops, "respond" \notin Ops
    PROVE  Spec => TerminalIsFinal
  <1>1. TypeOK /\ CountedInv /\ [Next]_vars => CountedInv'
    BY CountedNext
  <1>2. TypeOK /\ CountedInv /\ [Next]_vars
        => [\A b \in DOMAIN booking :
              booking[b].status \notin ActiveStatuses
              => booking'[b].status = booking[b].status]_vars
    <2> SUFFICES ASSUME TypeOK, CountedInv, Next, NEW b \in DOMAIN booking,
                        booking[b].status \notin ActiveStatuses
                 PROVE  booking'[b].status = booking[b].status
      OBVIOUS
    <2>1. ASSUME NEW r \in Requests, Begin(r) PROVE booking' = booking
      BY <2>1 DEF Begin, BeginCreate, BeginAssign, BeginPropose, BeginRespond,
                  BeginTransition, BeginTeacherCancel, BeginReschedule, BeginUnacked
    <2>2. ASSUME NEW r \in Requests, Work(r) PROVE booking'[b].status = booking[b].status
      <3>1. CASE CommitPlace(r)
        BY <3>1 DEF CommitPlace
      <3>2. CASE CommitCas(r)
        BY <3>2, CountedCommitCas
      <3>3. CASE CommitRespond(r) \/ CommitReschedule(r)
        BY <3>3 DEF CommitRespond, CommitReschedule, CountedInv, RequestCounted
      <3>4. CASE CheckPlace(r) \/ ShortPlace(r) \/ ShortRespond(r) \/ CheckReschedule(r)
        BY <3>4 DEF CheckPlace, ShortPlace, ShortRespond, CheckReschedule
      <3> QED BY <2>2, <3>1, <3>2, <3>3, <3>4 DEF Work
    <2>3. ASSUME NEW c \in DOMAIN booking, AckByTeacher(c)
          PROVE  booking'[b].status = booking[b].status
      BY <2>3, CountedAck
    <2>4. CASE NextDay \/ \E r \in Requests : Abort(r)
      BY <2>4 DEF NextDay, Abort
    <2> QED BY <2>1, <2>2, <2>3, <2>4 DEF Next
  <1> QED BY CountedInit, <1>1, <1>2, TypeCorrect, PTL DEF Spec, TerminalIsFinal

(****************************************************************************)
(* One request at a time.  Nothing then lies between what a request reads   *)
(* and what it writes but an acknowledgement or a new day, so every         *)
(* operation does what its reader expects.                                  *)
(****************************************************************************)
Closing == {"transition", "teacherCancel", "unacked"}
Placing == {"create", "assign", "propose", "priority"}

\* What two readings of a row agree on when only an acknowledgement lies
\* between them.
SameRow(x, y) ==
    /\ x.student = y.student /\ x.teacher = y.teacher /\ x.direction = y.direction
    /\ x.win = y.win /\ x.status = y.status /\ x.fee = y.fee

\* The request still knows the row as it is.
RequestCurrent(x) ==
    /\ x.op \in Placing => x.row.status \in ActiveStatuses
    /\ x.op \in Closing \cup {"respond", "reschedule"} =>
         x.b \in DOMAIN booking /\ SameRow(x.row, booking[x.b])
    /\ x.op \in Closing => CanTransition(x.row.status, x.to)
    /\ x.op = "respond" => x.row.status = "new" /\ x.row.direction = "reverse"
    /\ x.op = "reschedule" =>
         /\ x.row.status \in ActiveStatuses
         /\ x.row.direction = "student"
         /\ x.checked => x.old = SlotsOf(x.b)

PossibleFees == {0} \cup {Fee[t] : t \in Teachers}

\* The credits it takes are the fee of its row, one a booking may cost.
RequestPriced(x) ==
    x.op \in Placing => /\ x.charge = x.row.fee
                        /\ x.row.fee \in PossibleFees
                        /\ FreeIfReverse(x.row)

SlotsInv ==
    /\ \A r \in Requests : RequestCurrent(req[r])
    /\ NoStraySlots
    /\ \A b \in Bookings \ DOMAIN booking : SlotsOf(b) = {}

PricedInv ==
    /\ RowsSettled
    /\ \A r \in Requests : RequestPriced(req[r])
    /\ \A b \in DOMAIN booking : FreeIfReverse(booking[b]) /\ booking[b].fee \in PossibleFees

\* How a request starts: what it keeps is the row it has just read, and it
\* takes the fee it writes down.
LEMMA BeginReads ==
    ASSUME TypeOK, NEW r \in Requests, Begin(r)
    PROVE  /\ UNCHANGED <<booking, slots, money>>
           /\ \E x : /\ req' = [req EXCEPT ![r] = x]
                     /\ RequestCurrent(x)
                     /\ ReverseFree => RequestPriced(x)
  <1> DEFINE Goal == /\ UNCHANGED <<booking, slots, money>>
                     /\ \E x : /\ req' = [req EXCEPT ![r] = x]
                               /\ RequestCurrent(x)
                               /\ ReverseFree => RequestPriced(x)
  <1>1. ASSUME NEW op \in {"create", "assign", "propose"}, NEW row, NEW charge,
               row.status \in ActiveStatuses,
               ReverseFree => /\ charge = row.fee
                              /\ row.fee \in PossibleFees
                              /\ FreeIfReverse(row),
               req' = [req EXCEPT ![r] =
                         [op |-> op, checked |-> FALSE, charge |-> charge, row |-> row]],
               UNCHANGED <<booking, slots, money>>
        PROVE  Goal
    <2> DEFINE x == [op |-> op, checked |-> FALSE, charge |-> charge, row |-> row]
    <2>1. /\ RequestCurrent(x)
          /\ ReverseFree => RequestPriced(x)
      BY <1>1 DEF RequestCurrent, RequestPriced, Placing, Closing
    <2>2. req' = [req EXCEPT ![r] = x]
      BY <1>1
    <2> HIDE DEF x
    <2> QED BY <1>1, <2>1, <2>2
  <1>2. ASSUME NEW op \in Closing, NEW b \in DOMAIN booking, NEW to, NEW by, NEW sub,
               CanTransition(booking[b].status, to),
               req' = [req EXCEPT ![r] = CasCall(op, b, to, by, sub)],
               UNCHANGED <<booking, slots, money>>
        PROVE  Goal
    <2>1. RequestCurrent(CasCall(op, b, to, by, sub)) /\ RequestPriced(CasCall(op, b, to, by, sub))
      BY <1>2 DEF RequestCurrent, RequestPriced, CasCall, Placing, Closing, SameRow
    <2> QED BY <1>2, <2>1
  <1>3. CASE BeginCreate(r)
    <2>1. PICK s \in Students, t \in Teachers, w \in Windows, m \in Modes :
            /\ req' = [req EXCEPT ![r] =
                 [op |-> "create", checked |-> FALSE, charge |-> Fee[t],
                  row |-> NewRow(s, t, "student", w, m,
                                 IF t \in FullTime THEN "confirmed" ELSE "new", Fee[t],
                                 IF t \in FullTime THEN "fulltime" ELSE "direct")]]
            /\ UNCHANGED <<booking, slots, money>>
      BY <1>3 DEF BeginCreate, Call, Take
    <2> DEFINE row == NewRow(s, t, "student", w, m,
                             IF t \in FullTime THEN "confirmed" ELSE "new", Fee[t],
                             IF t \in FullTime THEN "fulltime" ELSE "direct")
    <2>2. row.status \in ActiveStatuses /\ row.fee = Fee[t] /\ row.direction = "student"
      BY DEF NewRow, ActiveStatuses
    <2> HIDE DEF row
    <2>3. row.fee \in PossibleFees /\ FreeIfReverse(row)
      BY <2>2 DEF PossibleFees, FreeIfReverse
    <2> QED BY <1>1, <2>1, <2>2, <2>3 DEF row
  <1>4. CASE BeginAssign(r)
    <2>0. PICK s \in Students, t \in Teachers, w \in Windows, m \in Modes,
               dir \in {"student", "reverse"} : \E fee \in {0, Fee[t]} :
            /\ ReverseFree /\ dir = "reverse" => fee = 0
            /\ req' = [req EXCEPT ![r] =
                 [op |-> "assign", checked |-> FALSE, charge |-> fee,
                  row |-> NewRow(s, t, dir, w, m, "confirmed", fee, "batch")]]
            /\ UNCHANGED <<booking, slots, money, counters, today>>
      BY <1>4, AssignBegins
    <2>1. PICK fee \in {0, Fee[t]} :
            /\ ReverseFree => (dir = "reverse" => fee = 0)
            /\ req' = [req EXCEPT ![r] =
                 [op |-> "assign", checked |-> FALSE, charge |-> fee,
                  row |-> NewRow(s, t, dir, w, m, "confirmed", fee, "batch")]]
            /\ UNCHANGED <<booking, slots, money>>
      BY <2>0
    <2>4. fee \in PossibleFees
      BY DEF PossibleFees
    <2> DEFINE row == NewRow(s, t, dir, w, m, "confirmed", fee, "batch")
    <2>2. row.status \in ActiveStatuses /\ row.fee = fee /\ row.direction = dir
      BY DEF NewRow, ActiveStatuses
    <2> HIDE DEF row
    <2>3. row.fee \in PossibleFees /\ (ReverseFree => FreeIfReverse(row))
      BY <2>1, <2>2, <2>4 DEF FreeIfReverse
    <2> QED BY <1>1, <2>1, <2>2, <2>3 DEF row
  <1>5. CASE BeginPropose(r)
    <2>1. PICK s \in Students, t \in Teachers, w \in Windows, m \in Modes :
            \E fee : /\ ReverseFree => fee = 0
                     /\ req' = [req EXCEPT ![r] =
                          [op |-> "propose", checked |-> FALSE, charge |-> 0,
                           row |-> NewRow(s, t, "reverse", w, m, "new", fee, "proposal")]]
                     /\ UNCHANGED <<booking, slots, money>>
      BY <1>5 DEF BeginPropose, Call, Take
    <2>2. PICK fee :
            /\ ReverseFree => fee = 0
            /\ req' = [req EXCEPT ![r] =
                 [op |-> "propose", checked |-> FALSE, charge |-> 0,
                  row |-> NewRow(s, t, "reverse", w, m, "new", fee, "proposal")]]
            /\ UNCHANGED <<booking, slots, money>>
      BY <2>1
    <2> DEFINE row == NewRow(s, t, "reverse", w, m, "new", fee, "proposal")
    <2>3. row.status \in ActiveStatuses /\ row.fee = fee
      BY DEF NewRow, ActiveStatuses
    <2> HIDE DEF row
    <2>4. ReverseFree => 0 = row.fee /\ row.fee \in PossibleFees /\ FreeIfReverse(row)
      BY <2>2, <2>3 DEF PossibleFees, FreeIfReverse
    <2> QED BY <1>1, <2>2, <2>3, <2>4 DEF row
  <1>6. CASE BeginRespond(r)
    <2>1. PICK b \in DOMAIN booking, accept \in BOOLEAN :
            /\ booking[b].direction = "reverse" /\ booking[b].status = "new"
            /\ req' = [req EXCEPT ![r] =
                 [op |-> "respond", b |-> b, row |-> booking[b], accept |-> accept]]
            /\ UNCHANGED <<booking, slots, money>>
      BY <1>6 DEF BeginRespond, Call, Take
    <2> DEFINE x == [op |-> "respond", b |-> b, row |-> booking[b], accept |-> accept]
    <2>2. RequestCurrent(x) /\ RequestPriced(x)
      BY <2>1 DEF RequestCurrent, RequestPriced, Placing, Closing, SameRow
    <2>3. req' = [req EXCEPT ![r] = x]
      BY <2>1
    <2> HIDE DEF x
    <2> QED BY <2>1, <2>2, <2>3
  <1>7. CASE BeginTransition(r)
    <2>1. PICK b \in DOMAIN booking, to \in Status \ {"new"} :
            \E by \in AllowedRoles(to) :
              /\ CanTransition(booking[b].status, to)
              /\ req' = [req EXCEPT ![r] = CasCall("transition", b, to, by, NoTeacher)]
              /\ UNCHANGED <<booking, slots, money>>
      BY <1>7 DEF BeginTransition, Call, Take
    <2> QED BY <1>2, <2>1 DEF Closing
  <1>8. CASE BeginTeacherCancel(r)
    <2>1. PICK b \in DOMAIN booking : \E sub :
            /\ CanTransition(booking[b].status, "cancelled")
            /\ req' = [req EXCEPT ![r] =
                         CasCall("teacherCancel", b, "cancelled", "staff", sub)]
            /\ UNCHANGED <<booking, slots, money>>
      BY <1>8 DEF BeginTeacherCancel, Call, Take
    <2> QED BY <1>2, <2>1 DEF Closing
  <1>9. CASE BeginReschedule(r)
    <2>1. PICK b \in Active, w \in Windows :
            /\ booking[b].direction = "student"
            /\ req' = [req EXCEPT ![r] =
                 [op |-> "reschedule", b |-> b, row |-> booking[b], win |-> w,
                  checked |-> FALSE, old |-> {}]]
            /\ UNCHANGED <<booking, slots, money>>
      BY <1>9 DEF BeginReschedule, Call, Take
    <2> DEFINE x == [op |-> "reschedule", b |-> b, row |-> booking[b], win |-> w,
                     checked |-> FALSE, old |-> {}]
    <2>2. RequestCurrent(x) /\ RequestPriced(x)
      BY <2>1 DEF RequestCurrent, RequestPriced, Placing, Closing, SameRow, Active
    <2>3. req' = [req EXCEPT ![r] = x]
      BY <2>1
    <2> HIDE DEF x
    <2> QED BY <2>1, <2>2, <2>3
  <1>10. ASSUME NEW b \in Bookings, BeginUnacked(r, b) PROVE Goal
    <2>1. b \in DOMAIN booking /\ CanTransition(booking[b].status, "cancelled")
      BY <1>10 DEF BeginUnacked, UnackedRows, CanTransition, BookingTransitions, Status,
                   ActiveStatuses
    <2>2. /\ req' = [req EXCEPT ![r] = CasCall("unacked", b, "cancelled", "system", NoTeacher)]
          /\ UNCHANGED <<booking, slots, money>>
      BY <1>10 DEF BeginUnacked, Take
    <2> QED BY <1>2, <2>1, <2>2 DEF Closing
  <1> QED BY <1>3, <1>4, <1>5, <1>6, <1>7, <1>8, <1>9, <1>10 DEF Begin

\* A change of one booking, whose row keeps all fields but those named.
LEMMA OneRowChanges ==
    ASSUME TypeOK, NEW b \in DOMAIN booking, NEW row,
           booking' = [booking EXCEPT ![b] = row]
    PROVE  /\ DOMAIN booking' = DOMAIN booking
           /\ booking'[b] = row
           /\ \A c \in DOMAIN booking : c # b => booking'[c] = booking[c]
           /\ booking[b] \in Row
  BY DEF TypeOK

\* The only request is the one that makes the step.
LEMMA AloneCurrent ==
    ASSUME TypeOK, NEW r \in Requests, \A q \in Requests : q = r, NEW x,
           req' = [req EXCEPT ![r] = x], RequestCurrent(x)'
    PROVE  \A q \in Requests : RequestCurrent(req[q])'
  <1>1. req'[r] = x
    BY DEF TypeOK
  <1>2. RequestCurrent(req[r])'
    BY <1>1 DEF RequestCurrent, SameRow, SlotsOf
  <1> QED BY <1>2

\* A request that starts, rechecks, gives up or fails moves no slot.
LEMMA SlotsRequestStep ==
    ASSUME TypeOK, SlotsInv, NEW r \in Requests, \A q \in Requests : q = r, NEW x,
           req' = [req EXCEPT ![r] = x], RequestCurrent(x), UNCHANGED <<booking, slots>>
    PROVE  SlotsInv'
  <1>1. RequestCurrent(x)'
    BY DEF RequestCurrent, SameRow, SlotsOf
  <1>2. \A q \in Requests : RequestCurrent(req[q])'
    BY <1>1, AloneCurrent
  <1>3. NoStraySlots'
    BY DEF SlotsInv, NoStraySlots, Active, SlotsOf, SlotRows
  <1> QED BY <1>2, <1>3 DEF SlotsInv, SlotsOf

\* A new booking gets the rows of its window, and had none.
LEMMA SlotsCommitPlace ==
    ASSUME TypeOK, SlotsInv, NEW r \in Requests, \A q \in Requests : q = r, CommitPlace(r)
    PROVE  SlotsInv'
  <1> DEFINE row == req[r].row
  <1>1. req[r].op \in Placing /\ row \in Row
    BY RequestByOp DEF CommitPlace, TypeOK, PlaceReq, Placing
  <1>2. PICK b \in Bookings \ DOMAIN booking, rm \in Rooms \cup {NoRoom} :
          /\ booking' = [x \in DOMAIN booking \cup {b} |->
                           IF x = b THEN [row EXCEPT !.room = rm] ELSE booking[x]]
          /\ slots' = slots \cup SlotRows(b, row.teacher, row.win)
    BY DEF CommitPlace, AssignRoom, FreeRooms
  <1> DEFINE new == [row EXCEPT !.room = rm]
  <1>3. new.status = row.status /\ new.teacher = row.teacher /\ new.win = row.win
    BY <1>1 DEF Row
  <1>4. /\ DOMAIN booking' = DOMAIN booking \cup {b}
        /\ booking'[b] = new
        /\ \A c \in DOMAIN booking : c # b /\ booking'[c] = booking[c]
    BY <1>2
  <1> HIDE DEF new
  <1>5. row.status \in ActiveStatuses
    BY <1>1 DEF SlotsInv, RequestCurrent
  <1>6. \A s \in SlotRows(b, row.teacher, row.win) : s.booking = b
    BY DEF SlotRows
  <1>7. /\ SlotsOf(b)' = SlotRows(b, row.teacher, row.win)
        /\ \A c \in Bookings \ {b} : SlotsOf(c)' = SlotsOf(c)
    <2>1. SlotsOf(b) = {}
      BY <1>2 DEF SlotsInv
    <2> QED BY <1>2, <1>6, <2>1 DEF SlotsOf
  <1>8. NoStraySlots'
    <2> SUFFICES ASSUME NEW c \in DOMAIN booking'
                 PROVE  /\ c \in Active' => SlotsOf(c)' = SlotRows(c, booking'[c].teacher, booking'[c].win)
                        /\ booking'[c].status \in {"cancelled", "rejected"} => SlotsOf(c)' = {}
      BY DEF NoStraySlots, SlotRows
    <2>1. CASE c = b
      BY <1>3, <1>4, <1>5, <1>7, <2>1 DEF ActiveStatuses
    <2>2. CASE c # b
      <3>1. /\ c \in DOMAIN booking /\ c \in Bookings /\ booking'[c] = booking[c]
            /\ SlotsOf(c)' = SlotsOf(c)
            /\ c \in Active' => c \in Active
        BY <1>4, <1>7, <2>2 DEF Active, TypeOK
      <3> QED BY <3>1 DEF SlotsInv, NoStraySlots
    <2> QED BY <2>1, <2>2
  <1>9. RequestCurrent(Idle)'
    BY DEF RequestCurrent, Idle, Placing, Closing
  <1>10. \A q \in Requests : RequestCurrent(req[q])'
    BY <1>9, AloneCurrent DEF CommitPlace, End
  <1>11. \A c \in Bookings \ DOMAIN booking' : SlotsOf(c)' = {}
    BY <1>4, <1>7 DEF SlotsInv
  <1> QED BY <1>8, <1>10, <1>11 DEF SlotsInv

\* A live booking changes its status and loses its rows if it is cancelled or
\* rejected.
LEMMA SlotsStatusStep ==
    ASSUME TypeOK, SlotsInv, NEW r \in Requests, \A q \in Requests : q = r, NEW x,
           req' = [req EXCEPT ![r] = x], RequestCurrent(x)',
           NEW b \in DOMAIN booking, NEW st, booking[b].status \in ActiveStatuses,
           booking' = [booking EXCEPT ![b].status = st],
           slots' = IF st \in {"cancelled", "rejected"} THEN slots \ SlotsOf(b) ELSE slots
    PROVE  SlotsInv'
  <1> DEFINE new == [booking[b] EXCEPT !.status = st]
  <1>1. booking' = [booking EXCEPT ![b] = new]
    OBVIOUS
  <1>2. /\ DOMAIN booking' = DOMAIN booking
        /\ booking'[b] = new
        /\ \A c \in DOMAIN booking : c # b => booking'[c] = booking[c]
        /\ booking[b] \in Row
    <2> HIDE DEF new
    <2> QED BY <1>1, OneRowChanges
  <1>3. new.status = st /\ new.teacher = booking[b].teacher /\ new.win = booking[b].win
    BY <1>2 DEF Row
  <1> HIDE DEF new
  <1>4. /\ \A c \in Bookings \ {b} : SlotsOf(c)' = SlotsOf(c)
        /\ SlotsOf(b)' = IF st \in {"cancelled", "rejected"} THEN {} ELSE SlotsOf(b)
    BY DEF SlotsOf
  <1>5. NoStraySlots'
    <2> SUFFICES ASSUME NEW c \in DOMAIN booking'
                 PROVE  /\ c \in Active' => SlotsOf(c)' = SlotRows(c, booking'[c].teacher, booking'[c].win)
                        /\ booking'[c].status \in {"cancelled", "rejected"} => SlotsOf(c)' = {}
      BY DEF NoStraySlots, SlotRows
    <2>1. CASE c = b
      <3>1. SlotsOf(b) = SlotRows(b, booking[b].teacher, booking[b].win)
        BY DEF SlotsInv, NoStraySlots, Active
      <3>2. b \in Active' => st \in ActiveStatuses
        BY <1>2, <1>3 DEF Active
      <3> QED BY <1>2, <1>3, <1>4, <2>1, <3>1, <3>2 DEF ActiveStatuses
    <2>2. CASE c # b
      <3>1. /\ c \in DOMAIN booking /\ c \in Bookings /\ booking'[c] = booking[c]
            /\ SlotsOf(c)' = SlotsOf(c)
            /\ c \in Active' => c \in Active
        BY <1>2, <1>4, <2>2 DEF Active, TypeOK
      <3> QED BY <3>1 DEF SlotsInv, NoStraySlots
    <2> QED BY <2>1, <2>2
  <1>6. \A c \in Bookings \ DOMAIN booking' : SlotsOf(c)' = {}
    BY <1>2, <1>4 DEF SlotsInv
  <1> QED BY <1>5, <1>6, AloneCurrent DEF SlotsInv

\* A move deletes the rows the booking has and inserts those of the new window.
LEMMA SlotsCommitReschedule ==
    ASSUME TypeOK, SlotsInv, NEW r \in Requests, \A q \in Requests : q = r, CommitReschedule(r)
    PROVE  SlotsInv'
  <1>1. PICK b, w : b = req[r].b /\ w = req[r].win
    OBVIOUS
  <1>2. /\ b \in DOMAIN booking /\ b \in Bookings
        /\ req[r].row.teacher = booking[b].teacher
        /\ req[r].old = SlotsOf(b)
    BY <1>1 DEF CommitReschedule, SlotsInv, RequestCurrent, SameRow, TypeOK
  <1>3. PICK rm : booking' = [booking EXCEPT ![b].win = w, ![b].room = rm, ![b].status = "new"]
    BY <1>1 DEF CommitReschedule
  <1> DEFINE new == [booking[b] EXCEPT !.win = w, !.room = rm, !.status = "new"]
  <1>4. booking' = [booking EXCEPT ![b] = new]
    BY <1>3 DEF TypeOK
  <1>5. /\ DOMAIN booking' = DOMAIN booking
        /\ booking'[b] = new
        /\ \A c \in DOMAIN booking : c # b => booking'[c] = booking[c]
        /\ booking[b] \in Row
    <2> HIDE DEF new
    <2> QED BY <1>2, <1>4, OneRowChanges
  <1>6. new.status = "new" /\ new.teacher = booking[b].teacher /\ new.win = w
    BY <1>5 DEF Row
  <1> HIDE DEF new
  <1>7. slots' = (slots \ SlotsOf(b)) \cup SlotRows(b, booking[b].teacher, w)
    BY <1>1, <1>2 DEF CommitReschedule, MovedSlots
  <1>8. /\ \A c \in Bookings \ {b} : SlotsOf(c)' = SlotsOf(c)
        /\ SlotsOf(b)' = SlotRows(b, booking[b].teacher, w)
    <2>1. \A s \in SlotRows(b, booking[b].teacher, w) : s.booking = b
      BY DEF SlotRows
    <2> QED BY <1>7, <2>1 DEF SlotsOf
  <1>9. NoStraySlots'
    <2> SUFFICES ASSUME NEW c \in DOMAIN booking'
                 PROVE  /\ c \in Active' => SlotsOf(c)' = SlotRows(c, booking'[c].teacher, booking'[c].win)
                        /\ booking'[c].status \in {"cancelled", "rejected"} => SlotsOf(c)' = {}
      BY DEF NoStraySlots, SlotRows
    <2>1. CASE c = b
      BY <1>5, <1>6, <1>8, <2>1
    <2>2. CASE c # b
      <3>1. /\ c \in DOMAIN booking /\ c \in Bookings /\ booking'[c] = booking[c]
            /\ SlotsOf(c)' = SlotsOf(c)
            /\ c \in Active' => c \in Active
        BY <1>5, <1>8, <2>2 DEF Active, TypeOK
      <3> QED BY <3>1 DEF SlotsInv, NoStraySlots
    <2> QED BY <2>1, <2>2
  <1>10. RequestCurrent(Idle)'
    BY DEF RequestCurrent, Idle, Placing, Closing
  <1>11. \A q \in Requests : RequestCurrent(req[q])'
    BY <1>10, AloneCurrent DEF CommitReschedule, End
  <1>12. \A c \in Bookings \ DOMAIN booking' : SlotsOf(c)' = {}
    BY <1>2, <1>5, <1>8 DEF SlotsInv
  <1> QED BY <1>9, <1>11, <1>12 DEF SlotsInv

\* What is left of a request after it closed a booking is nothing, or a
\* reassignment that has its price.
LEMMA AfterCasCurrent ==
    ASSUME TypeOK, NEW r \in Requests, CommitCas(r), NEW x, x = AfterCas(r)
    PROVE  /\ RequestCurrent(x)'
           /\ RequestPriced(x)
           /\ req' = [req EXCEPT ![r] = x]
  <1>1. req' = [req EXCEPT ![r] = x]
    BY DEF CommitCas
  <1>2. CASE req[r].sub = NoTeacher
    BY <1>1, <1>2 DEF AfterCas, Idle, RequestCurrent, RequestPriced, Placing, Closing
  <1>3. CASE req[r].sub # NoTeacher
    <2>1. req[r].sub \in Teachers
      BY <1>3, RequestByOp DEF CommitCas, TypeOK, CasReq
    <2>2. /\ x.op = "priority" /\ x.charge = Fee[req[r].sub] /\ x.row.fee = Fee[req[r].sub]
          /\ x.row.status = "confirmed" /\ x.row.direction = "student"
      BY <1>3 DEF AfterCas, NewRow
    <2> QED BY <1>1, <2>1, <2>2 DEF RequestCurrent, RequestPriced, Placing, Closing,
                                  ActiveStatuses, PossibleFees, FreeIfReverse
  <1> QED BY <1>2, <1>3

\* Every step keeps the slot rows what they should be.
LEMMA SlotsNext ==
    ASSUME TypeOK, SlotsInv, \A q, r \in Requests : q = r, [Next]_vars
    PROVE  SlotsInv'
  <1>1. ASSUME NEW r \in Requests, Begin(r) PROVE SlotsInv'
    BY <1>1, BeginReads, SlotsRequestStep
  <1>2. RequestCurrent(Idle) /\ RequestCurrent(Idle)'
    BY DEF RequestCurrent, Idle, Placing, Closing
  <1>3. ASSUME NEW r \in Requests, End(r), UNCHANGED <<booking, slots>> PROVE SlotsInv'
    BY <1>2, <1>3, SlotsRequestStep DEF End
  <1>4. ASSUME NEW r \in Requests, CheckPlace(r) PROVE SlotsInv'
    <2> DEFINE x == [req[r] EXCEPT !.checked = TRUE]
    <2>1. req[r] \in PlaceReq /\ req[r].op \in Placing
      BY <1>4, RequestByOp DEF CheckPlace, TypeOK, Placing
    <2>2. x.op = req[r].op /\ x.row = req[r].row
      BY <2>1 DEF PlaceReq
    <2>3. req' = [req EXCEPT ![r] = x] /\ UNCHANGED <<booking, slots>>
      BY <1>4 DEF CheckPlace
    <2> HIDE DEF x
    <2>4. RequestCurrent(x)
      BY <2>1, <2>2 DEF SlotsInv, RequestCurrent, Placing, Closing
    <2> QED BY <2>3, <2>4, SlotsRequestStep
  <1>5. ASSUME NEW r \in Requests, CheckReschedule(r) PROVE SlotsInv'
    <2> DEFINE x == [req[r] EXCEPT !.checked = TRUE, !.old = SlotsOf(req[r].b)]
    <2>1. req[r] \in MoveReq /\ req[r].op = "reschedule"
      BY <1>5, RequestByOp DEF CheckReschedule, TypeOK
    <2>2. x.op = req[r].op /\ x.row = req[r].row /\ x.b = req[r].b /\ x.old = SlotsOf(x.b)
      BY <2>1 DEF MoveReq
    <2>3. req' = [req EXCEPT ![r] = x] /\ UNCHANGED <<booking, slots>>
      BY <1>5 DEF CheckReschedule
    <2> HIDE DEF x
    <2>4. RequestCurrent(x)
      BY <2>1, <2>2 DEF SlotsInv, RequestCurrent, Placing, Closing
    <2> QED BY <2>3, <2>4, SlotsRequestStep
  <1>6. ASSUME NEW r \in Requests, CommitCas(r) PROVE SlotsInv'
    <2>1. /\ req[r].b \in DOMAIN booking
          /\ booking[req[r].b].status \in ActiveStatuses
      <3>1. /\ req[r].op \in Closing
            /\ req[r].row \in Row /\ req[r].to \in Status
        BY <1>6, RequestByOp DEF CommitCas, TypeOK, CasReq, Closing
      <3>2. /\ req[r].b \in DOMAIN booking
            /\ req[r].row.status = booking[req[r].b].status
            /\ CanTransition(req[r].row.status, req[r].to)
        BY <3>1 DEF SlotsInv, RequestCurrent, SameRow
      <3>3. req[r].row.status \in Status
        BY <3>1 DEF Row
      <3> QED BY <3>1, <3>2, <3>3 DEF CanTransition, BookingTransitions, Status, ActiveStatuses
    <2>2. PICK x : x = AfterCas(r)
      OBVIOUS
    <2>3. RequestCurrent(x)' /\ req' = [req EXCEPT ![r] = x]
      BY <1>6, <2>2, AfterCasCurrent
    <2>4. PICK b, st : b = req[r].b /\ st = req[r].to
      OBVIOUS
    <2>5. /\ booking' = [booking EXCEPT ![b].status = st]
          /\ slots' = IF st \in {"cancelled", "rejected"} THEN slots \ SlotsOf(b) ELSE slots
      BY <1>6, <2>4 DEF CommitCas
    <2> QED BY <2>1, <2>3, <2>4, <2>5, SlotsStatusStep
  <1>7. ASSUME NEW r \in Requests, CommitRespond(r) PROVE SlotsInv'
    <2>1. PICK b, st : b = req[r].b /\ st = IF req[r].accept THEN "confirmed" ELSE "rejected"
      OBVIOUS
    <2>2. b \in DOMAIN booking /\ booking[b].status \in ActiveStatuses
      BY <1>7, <2>1 DEF CommitRespond, SlotsInv, RequestCurrent, SameRow, ActiveStatuses
    <2>3. /\ booking' = [booking EXCEPT ![b].status = st]
          /\ slots' = IF st \in {"cancelled", "rejected"} THEN slots \ SlotsOf(b) ELSE slots
          /\ req' = [req EXCEPT ![r] = Idle]
      BY <1>7, <2>1 DEF CommitRespond, End
    <2> QED BY <1>2, <2>2, <2>3, SlotsStatusStep
  <1>8. ASSUME NEW r \in Requests, Work(r) PROVE SlotsInv'
    <2>1. CASE ShortPlace(r) \/ ShortRespond(r)
      BY <1>3, <2>1 DEF ShortPlace, ShortRespond
    <2> QED BY <1>4, <1>5, <1>6, <1>7, <1>8, <2>1, SlotsCommitPlace, SlotsCommitReschedule DEF Work
  <1>9. ASSUME NEW r \in Requests, Abort(r) PROVE SlotsInv'
    BY <1>3, <1>9 DEF Abort
  <1>10. ASSUME NEW b \in DOMAIN booking, AckByTeacher(b) PROVE SlotsInv'
    <2>1. booking' = [booking EXCEPT ![b] = [booking[b] EXCEPT !.acked = TRUE]]
      BY <1>10 DEF AckByTeacher
    <2>2. DOMAIN booking' = DOMAIN booking /\ \A c \in DOMAIN booking : SameRow(booking'[c], booking[c])
      BY <2>1, OneRowChanges DEF SameRow, Row
    <2>3. UNCHANGED <<slots, req>>
      BY <1>10 DEF AckByTeacher
    <2>4. \A c : SlotsOf(c)' = SlotsOf(c)
      BY <2>3 DEF SlotsOf
    <2>5. \A q \in Requests : RequestCurrent(req[q])'
      BY <2>2, <2>3, <2>4 DEF SlotsInv, RequestCurrent, SameRow
    <2>6. NoStraySlots'
      BY <2>2, <2>4 DEF SlotsInv, NoStraySlots, Active, SameRow, SlotRows
    <2> QED BY <2>2, <2>4, <2>5, <2>6 DEF SlotsInv
  <1>11. ASSUME UNCHANGED <<booking, slots, req>> PROVE SlotsInv'
    <2>1. NoStraySlots'
      BY <1>11 DEF SlotsInv, NoStraySlots, Active, SlotsOf, SlotRows
    <2>2. \A q \in Requests : RequestCurrent(req[q])'
      BY <1>11 DEF SlotsInv, RequestCurrent, SameRow, SlotsOf
    <2> QED BY <1>11, <2>1, <2>2 DEF SlotsInv, SlotsOf
  <1>12. CASE NextDay \/ UNCHANGED vars
    BY <1>11, <1>12 DEF NextDay, vars
  <1> QED BY <1>1, <1>8, <1>9, <1>10, <1>12 DEF Next

\* There are no slot rows before the first booking.
LEMMA SlotsInit == Init => SlotsInv
  BY DEF Init, SlotsInv, NoStraySlots, Active, SlotsOf, RequestCurrent, Idle, Placing, Closing

\* One request at a time, a live booking has the slot rows of its window and
\* no others, and none once it was cancelled or rejected: no operation leaves
\* a row behind or forgets one.
THEOREM NoStraySlotsHolds ==
    ASSUME \A q, r \in Requests : q = r
    PROVE  Spec => []NoStraySlots
  <1>1. TypeOK /\ SlotsInv /\ [Next]_vars => SlotsInv'
    BY SlotsNext
  <1>2. SlotsInv => NoStraySlots
    BY DEF SlotsInv
  <1> QED BY SlotsInit, <1>1, <1>2, TypeCorrect, PTL DEF Spec

(****************************************************************************)
(* The refinement.  In the life cycle a booking is its stage and the        *)
(* credits held for it; RowsSettled makes these a function of its row.      *)
(****************************************************************************)
StageOf(b) == IF b \in DOMAIN booking THEN booking[b].status ELSE "none"

HeldOf(b) ==
    IF b \in DOMAIN booking /\ booking[b].status \notin {"cancelled", "rejected"}
    THEN booking[b].fee ELSE 0

StageMap == [b \in Bookings |-> IF b \in DOMAIN booking THEN booking[b].status ELSE "none"]
HeldMap == [b \in Bookings |-> spent[b] - refunded[b]]

\* What the refinement maps to is what the rows tell.
LEMMA MapsAre ==
    ASSUME TypeOK, RowsSettled
    PROVE  /\ StageMap = [b \in Bookings |-> StageOf(b)]
           /\ HeldMap = [b \in Bookings |-> HeldOf(b)]
  <1>1. \A b \in Bookings : spent[b] - refunded[b] = HeldOf(b)
    <2> SUFFICES ASSUME NEW b \in Bookings PROVE spent[b] - refunded[b] = HeldOf(b)
      OBVIOUS
    <2>1. CASE b \in DOMAIN booking
      <3>1. booking[b].fee \in Nat
        BY <2>1 DEF TypeOK, Row
      <3> QED BY <2>1, <3>1 DEF RowsSettled, HeldOf
    <2>2. CASE b \notin DOMAIN booking
      BY <2>2 DEF RowsSettled, HeldOf
    <2> QED BY <2>1, <2>2
  <1> QED BY <1>1 DEF StageMap, HeldMap, StageOf

\* The same after a step.
LEMMA MapsAreNext == (TypeOK /\ RowsSettled
                      => /\ StageMap = [b \in Bookings |-> StageOf(b)]
                         /\ HeldMap = [b \in Bookings |-> HeldOf(b)])'
  BY MapsAre, PTL

\* A step that takes one booking along an edge of the state machine, with the
\* credits the life cycle holds for it, is a step of the life cycle.
LEMMA OneBookingMoves ==
    ASSUME TypeOK, TypeOK', RowsSettled, RowsSettled', NEW b \in Bookings,
           \A c \in Bookings : c # b => StageOf(c)' = StageOf(c) /\ HeldOf(c)' = HeldOf(c),
           \/ /\ StageOf(b) = "none" /\ StageOf(b)' \in ActiveStatuses
              /\ HeldOf(b)' \in PossibleFees
           \/ StageOf(b) = "new" /\ StageOf(b)' = "confirmed" /\ HeldOf(b)' = HeldOf(b)
           \/ StageOf(b) \in ActiveStatuses /\ StageOf(b)' = "new" /\ HeldOf(b)' = HeldOf(b)
           \/ /\ StageOf(b) \in ActiveStatuses /\ StageOf(b)' \in BookingTransitions[StageOf(b)]
              /\ StageOf(b)' \in {"cancelled", "rejected"} /\ HeldOf(b)' = 0
           \/ /\ StageOf(b) = "confirmed" /\ StageOf(b)' \in {"done", "noshow"}
              /\ HeldOf(b)' = HeldOf(b)
    PROVE  Lifecycle!Next
  <1>1. PICK st, h : st = StageOf(b)' /\ h = HeldOf(b)'
    OBVIOUS
  <1>2. StageMap[b] = StageOf(b) /\ HeldMap[b] = HeldOf(b)
    BY MapsAre
  <1>3. StageMap' = [StageMap EXCEPT ![b] = st] /\ HeldMap' = [HeldMap EXCEPT ![b] = h]
    <2>1. /\ StageMap = [c \in Bookings |-> StageOf(c)] /\ HeldMap = [c \in Bookings |-> HeldOf(c)]
          /\ StageMap' = [c \in Bookings |-> StageOf(c)'] /\ HeldMap' = [c \in Bookings |-> HeldOf(c)']
      BY MapsAre, MapsAreNext
    <2> QED BY <1>1, <2>1
  <1>4. h = HeldOf(b) => HeldMap' = HeldMap
    <2>1. HeldMap = [c \in Bookings |-> HeldOf(c)]
      BY MapsAre
    <2> QED BY <1>3, <2>1
  <1>5. CASE StageOf(b) = "none" /\ st \in ActiveStatuses /\ h \in PossibleFees
    <2>1. Lifecycle!Open(b)
      BY <1>2, <1>3, <1>5 DEF Lifecycle!Open, Lifecycle!Become, StageMap, HeldMap,
                              ActiveStatuses, PossibleFees
    <2> QED BY <2>1 DEF Lifecycle!Next
  <1>6. CASE StageOf(b) = "new" /\ st = "confirmed" /\ h = HeldOf(b)
    <2>1. Lifecycle!Confirm(b)
      BY <1>2, <1>3, <1>4, <1>6 DEF Lifecycle!Confirm, Lifecycle!Become, StageMap, HeldMap
    <2> QED BY <2>1 DEF Lifecycle!Next
  <1>7. CASE StageOf(b) \in ActiveStatuses /\ st = "new" /\ h = HeldOf(b)
    <2>1. Lifecycle!Move(b)
      BY <1>2, <1>3, <1>4, <1>7 DEF Lifecycle!Move, Lifecycle!Become, StageMap, HeldMap,
                                    ActiveStatuses
    <2> QED BY <2>1 DEF Lifecycle!Next
  <1>8. CASE /\ StageOf(b) \in ActiveStatuses /\ st \in BookingTransitions[StageOf(b)]
             /\ st \in {"cancelled", "rejected"} /\ h = 0
    <2>1. \/ StageOf(b) = "new" /\ st \in {"rejected", "cancelled"}
          \/ StageOf(b) = "confirmed" /\ st = "cancelled"
      BY <1>8 DEF BookingTransitions, ActiveStatuses, Status
    <2>2. Lifecycle!GiveBack(b)
      BY <1>2, <1>3, <1>8, <2>1 DEF Lifecycle!GiveBack, Lifecycle!Become, StageMap, HeldMap
    <2> QED BY <2>2 DEF Lifecycle!Next
  <1>9. CASE StageOf(b) = "confirmed" /\ st \in {"done", "noshow"} /\ h = HeldOf(b)
    <2>1. Lifecycle!Keep(b)
      BY <1>2, <1>3, <1>4, <1>9 DEF Lifecycle!Keep, Lifecycle!Become, StageMap, HeldMap
    <2> QED BY <2>1 DEF Lifecycle!Next
  <1> QED BY <1>1, <1>5, <1>6, <1>7, <1>8, <1>9

\* What is not b stays in its stage, with what is held for it.
OthersStay(b) ==
    \A c \in Bookings : c # b => StageOf(c)' = StageOf(c) /\ HeldOf(c)' = HeldOf(c)

\* The request that makes the step leaves the others' prices alone.
LEMMA PricedRequests ==
    ASSUME TypeOK, PricedInv, NEW r \in Requests, NEW x, RequestPriced(x),
           req' = [req EXCEPT ![r] = x]
    PROVE  \A q \in Requests : RequestPriced(req'[q])
  BY DEF TypeOK, PricedInv

\* A change of status of a live booking that gives its fee back if, and only
\* if, it is cancelled or rejected.
LEMMA PricedStatusStep ==
    ASSUME TypeOK, PricedInv, NEW b \in DOMAIN booking, NEW st,
           booking[b].status \in ActiveStatuses,
           booking' = [booking EXCEPT ![b].status = st],
           spent' = spent,
           \A c \in Bookings : refunded'[c] =
             IF c = b /\ st \in {"cancelled", "rejected"} THEN booking[b].fee ELSE refunded[c],
           \A q \in Requests : RequestPriced(req'[q])
    PROVE  /\ PricedInv'
           /\ OthersStay(b)
           /\ StageOf(b) = booking[b].status /\ StageOf(b)' = st
           /\ HeldOf(b)' = IF st \in {"cancelled", "rejected"} THEN 0 ELSE HeldOf(b)
  <1> DEFINE new == [booking[b] EXCEPT !.status = st]
  <1>1. booking' = [booking EXCEPT ![b] = new]
    OBVIOUS
  <1>2. /\ DOMAIN booking' = DOMAIN booking
        /\ booking'[b] = new
        /\ \A c \in DOMAIN booking : c # b => booking'[c] = booking[c]
        /\ booking[b] \in Row
    <2> HIDE DEF new
    <2> QED BY <1>1, OneRowChanges
  <1>3. new.status = st /\ new.fee = booking[b].fee /\ new.direction = booking[b].direction
    BY <1>2 DEF Row
  <1> HIDE DEF new
  <1>4. b \in Bookings
    BY DEF TypeOK
  <1>5. spent[b] = booking[b].fee /\ refunded[b] = 0
    BY <1>4 DEF PricedInv, RowsSettled, ActiveStatuses
  <1>6. RowsSettled'
    <2> SUFFICES ASSUME NEW c \in Bookings
                 PROVE  IF c \in DOMAIN booking'
                        THEN /\ spent'[c] = booking'[c].fee
                             /\ refunded'[c] =
                                  IF booking'[c].status \in {"cancelled", "rejected"}
                                  THEN booking'[c].fee ELSE 0
                        ELSE spent'[c] = 0 /\ refunded'[c] = 0
      BY DEF RowsSettled
    <2>1. CASE c = b
      BY <1>2, <1>3, <1>5, <2>1
    <2>2. CASE c # b
      BY <1>2, <2>2 DEF PricedInv, RowsSettled
    <2> QED BY <2>1, <2>2
  <1>7. \A c \in DOMAIN booking' : FreeIfReverse(booking'[c]) /\ booking'[c].fee \in PossibleFees
    BY <1>2, <1>3 DEF PricedInv, FreeIfReverse
  <1>8. PricedInv'
    BY <1>6, <1>7 DEF PricedInv, RequestPriced, FreeIfReverse, PossibleFees
  <1>9. OthersStay(b)
    BY <1>2 DEF OthersStay, StageOf, HeldOf
  <1>10. /\ StageOf(b) = booking[b].status /\ StageOf(b)' = st
         /\ HeldOf(b) = booking[b].fee
         /\ HeldOf(b)' = IF st \in {"cancelled", "rejected"} THEN 0 ELSE booking[b].fee
    BY <1>2, <1>3 DEF StageOf, HeldOf, ActiveStatuses
  <1> QED BY <1>8, <1>9, <1>10

\* A new booking opens with its fee held.
LEMMA PricedCommitPlace ==
    ASSUME TypeOK, TypeOK', SlotsInv, PricedInv, NEW r \in Requests, CommitPlace(r)
    PROVE  PricedInv' /\ Lifecycle!Next
  <1> DEFINE row == req[r].row
  <1>1. /\ req[r].op \in Placing /\ req[r].op \in {"create", "assign", "propose", "priority"}
        /\ row \in Row /\ row.student \in Students
    BY RequestByOp DEF CommitPlace, TypeOK, PlaceReq, Row, Placing
  <1>2. /\ row.status \in ActiveStatuses
        /\ req[r].charge = row.fee /\ row.fee \in PossibleFees /\ FreeIfReverse(row)
    BY <1>1 DEF SlotsInv, RequestCurrent, PricedInv, RequestPriced
  <1>3. PICK b \in Bookings \ DOMAIN booking, rm \in Rooms \cup {NoRoom} :
          /\ booking' = [x \in DOMAIN booking \cup {b} |->
                           IF x = b THEN [row EXCEPT !.room = rm] ELSE booking[x]]
          /\ Consume(row.student, b, req[r].charge)
    BY DEF CommitPlace, AssignRoom, FreeRooms
  <1> DEFINE new == [row EXCEPT !.room = rm]
  <1>4. new.status = row.status /\ new.fee = row.fee /\ new.direction = row.direction
    BY <1>1 DEF Row
  <1>5. /\ DOMAIN booking' = DOMAIN booking \cup {b}
        /\ booking'[b] = new
        /\ \A c \in DOMAIN booking : c # b /\ booking'[c] = booking[c]
    BY <1>3
  <1> HIDE DEF new
  <1>6. /\ spent'[b] = row.fee /\ refunded' = refunded /\ refunded[b] = 0
        /\ \A x \in Bookings \ {b} : spent'[x] = spent[x]
    <2>1. spent[b] = 0 /\ refunded[b] = 0 /\ row.fee \in Nat
      BY <1>1, <1>3 DEF PricedInv, RowsSettled, Row
    <2> QED BY <1>2, <1>3, <2>1 DEF Consume, TypeOK
  <1>7. RowsSettled'
    <2> SUFFICES ASSUME NEW x \in Bookings
                 PROVE  IF x \in DOMAIN booking'
                        THEN /\ spent'[x] = booking'[x].fee
                             /\ refunded'[x] =
                                  IF booking'[x].status \in {"cancelled", "rejected"}
                                  THEN booking'[x].fee ELSE 0
                        ELSE spent'[x] = 0 /\ refunded'[x] = 0
      BY DEF RowsSettled
    <2>1. CASE x = b
      BY <1>2, <1>4, <1>5, <1>6, <2>1 DEF ActiveStatuses
    <2>2. CASE x # b
      BY <1>5, <1>6, <2>2 DEF PricedInv, RowsSettled
    <2> QED BY <2>1, <2>2
  <1>8. \A x \in DOMAIN booking' : FreeIfReverse(booking'[x]) /\ booking'[x].fee \in PossibleFees
    BY <1>2, <1>4, <1>5 DEF PricedInv, FreeIfReverse
  <1>9. RequestPriced(Idle) /\ req' = [req EXCEPT ![r] = Idle]
    BY DEF RequestPriced, Idle, Placing, CommitPlace, End
  <1>10. \A q \in Requests : RequestPriced(req'[q])
    BY <1>9, PricedRequests
  <1>11. PricedInv'
    BY <1>7, <1>8, <1>10 DEF PricedInv, RequestPriced, FreeIfReverse, PossibleFees
  <1>12. OthersStay(b)
    BY <1>5 DEF OthersStay, StageOf, HeldOf
  <1>13. /\ StageOf(b) = "none" /\ StageOf(b)' \in ActiveStatuses
         /\ HeldOf(b)' \in PossibleFees
    BY <1>2, <1>3, <1>4, <1>5 DEF StageOf, HeldOf, ActiveStatuses
  <1>14. Lifecycle!Next
    BY <1>3, <1>7, <1>12, <1>13, OneBookingMoves DEF OthersStay, PricedInv
  <1> QED BY <1>11, <1>14

\* An answer to a free proposal confirms or rejects it.
LEMMA PricedCommitRespond ==
    ASSUME TypeOK, TypeOK', SlotsInv, PricedInv, NEW r \in Requests, CommitRespond(r)
    PROVE  PricedInv' /\ Lifecycle!Next
  <1>1. PICK b, st : b = req[r].b /\ st = IF req[r].accept THEN "confirmed" ELSE "rejected"
    OBVIOUS
  <1>2. /\ b \in DOMAIN booking /\ b \in Bookings /\ booking[b].status = "new"
        /\ req[r].row.fee = booking[b].fee /\ booking[b].direction = "reverse"
    BY <1>1 DEF CommitRespond, SlotsInv, RequestCurrent, SameRow, TypeOK
  <1>3. booking[b].fee = 0 /\ refunded[b] = 0
    BY <1>2 DEF PricedInv, FreeIfReverse, RowsSettled
  <1>4. booking' = [booking EXCEPT ![b].status = st] /\ req' = [req EXCEPT ![r] = Idle]
    BY <1>1 DEF CommitRespond, End
  <1>5. spent' = spent /\ refunded' = refunded
    <2>1. CASE req[r].accept
      <3>1. spent' = [spent EXCEPT ![b] = @ + 0] /\ refunded' = refunded
        BY <1>1, <1>2, <1>3, <2>1 DEF CommitRespond, Consume
      <3> QED BY <1>2, <3>1 DEF TypeOK
    <2>2. CASE ~req[r].accept
      BY <2>2 DEF CommitRespond, money
    <2> QED BY <2>1, <2>2
  <1>6. RequestPriced(Idle)
    BY DEF RequestPriced, Idle, Placing
  <1>7. \A q \in Requests : RequestPriced(req'[q])
    BY <1>4, <1>6, PricedRequests
  <1>8. /\ PricedInv'
        /\ OthersStay(b)
        /\ StageOf(b) = booking[b].status /\ StageOf(b)' = st
        /\ HeldOf(b)' = IF st \in {"cancelled", "rejected"} THEN 0 ELSE HeldOf(b)
    <2>1. booking[b].status \in ActiveStatuses
      BY <1>2 DEF ActiveStatuses
    <2>2. \A c \in Bookings : refunded'[c] =
            IF c = b /\ st \in {"cancelled", "rejected"} THEN booking[b].fee ELSE refunded[c]
      BY <1>3, <1>5
    <2> QED BY <1>2, <1>4, <1>5, <1>7, <2>1, <2>2, PricedStatusStep
  <1>9. "rejected" \in BookingTransitions["new"]
    BY DEF BookingTransitions, Status, ActiveStatuses
  <1>10. \/ StageOf(b) = "new" /\ StageOf(b)' = "confirmed" /\ HeldOf(b)' = HeldOf(b)
         \/ /\ StageOf(b) \in ActiveStatuses /\ StageOf(b)' \in BookingTransitions[StageOf(b)]
            /\ StageOf(b)' \in {"cancelled", "rejected"} /\ HeldOf(b)' = 0
    BY <1>1, <1>2, <1>8, <1>9 DEF ActiveStatuses
  <1>11. Lifecycle!Next
    BY <1>2, <1>8, <1>10, OneBookingMoves DEF OthersStay, PricedInv
  <1> QED BY <1>8, <1>11

\* A conditional change follows the state machine and gives the fee back when
\* it should.
LEMMA PricedCommitCas ==
    ASSUME TypeOK, TypeOK', SlotsInv, PricedInv, NEW r \in Requests, CommitCas(r)
    PROVE  PricedInv' /\ Lifecycle!Next
  <1>1. PICK b, st : b = req[r].b /\ st = req[r].to
    OBVIOUS
  <1>2. /\ req[r].op \in Closing /\ st \in Status
        /\ req[r].row \in Row /\ req[r].row.student \in Students
    BY <1>1, RequestByOp DEF CommitCas, TypeOK, CasReq, Closing, Row
  <1>3. /\ b \in DOMAIN booking /\ b \in Bookings
        /\ SameRow(req[r].row, booking[b])
        /\ CanTransition(booking[b].status, st)
    BY <1>1, <1>2 DEF SlotsInv, RequestCurrent, SameRow, TypeOK
  <1>4. /\ booking[b].status \in Status /\ booking[b].fee \in Nat
        /\ booking[b].direction \in {"student", "reverse"}
    BY <1>3 DEF TypeOK, Row
  <1>5. /\ booking[b].status \in ActiveStatuses
        /\ st \in BookingTransitions[booking[b].status]
        /\ \/ booking[b].status = "new" /\ st = "confirmed"
           \/ st \in {"cancelled", "rejected"}
           \/ booking[b].status = "confirmed" /\ st \in {"done", "noshow"}
    BY <1>2, <1>3, <1>4 DEF CanTransition, BookingTransitions, Status, ActiveStatuses
  <1>6. refunded[b] = 0 /\ FreeIfReverse(booking[b])
    BY <1>3, <1>5 DEF PricedInv, RowsSettled, ActiveStatuses
  <1>7. RefundDue(req[r].row, st) = IF st \in {"cancelled", "rejected"} THEN booking[b].fee ELSE 0
    BY <1>3, <1>4, <1>5, <1>6 DEF RefundDue, ShouldRefund, Consumed, FreeIfReverse, SameRow
  <1>8. /\ booking' = [booking EXCEPT ![b].status = st]
        /\ spent' = spent
        /\ refunded' = [refunded EXCEPT ![b] = @ + RefundDue(req[r].row, st)]
    BY <1>1 DEF CommitCas, Refund
  <1>9. \A c \in Bookings : refunded'[c] =
          IF c = b /\ st \in {"cancelled", "rejected"} THEN booking[b].fee ELSE refunded[c]
    BY <1>3, <1>4, <1>6, <1>7, <1>8 DEF TypeOK
  <1>10. PICK x : x = AfterCas(r)
    OBVIOUS
  <1>11. \A q \in Requests : RequestPriced(req'[q])
    BY <1>10, AfterCasCurrent, PricedRequests
  <1>12. /\ PricedInv'
         /\ OthersStay(b)
         /\ StageOf(b) = booking[b].status /\ StageOf(b)' = st
         /\ HeldOf(b)' = IF st \in {"cancelled", "rejected"} THEN 0 ELSE HeldOf(b)
    BY <1>3, <1>5, <1>8, <1>9, <1>11, PricedStatusStep
  <1>13. \/ StageOf(b) = "new" /\ StageOf(b)' = "confirmed" /\ HeldOf(b)' = HeldOf(b)
         \/ /\ StageOf(b) \in ActiveStatuses /\ StageOf(b)' \in BookingTransitions[StageOf(b)]
            /\ StageOf(b)' \in {"cancelled", "rejected"} /\ HeldOf(b)' = 0
         \/ /\ StageOf(b) = "confirmed" /\ StageOf(b)' \in {"done", "noshow"}
            /\ HeldOf(b)' = HeldOf(b)
    BY <1>5, <1>12
  <1>14. Lifecycle!Next
    BY <1>3, <1>12, <1>13, OneBookingMoves DEF OthersStay, PricedInv
  <1> QED BY <1>12, <1>14

\* A move makes a live booking new again and keeps its fee.
LEMMA PricedCommitReschedule ==
    ASSUME TypeOK, TypeOK', SlotsInv, PricedInv, NEW r \in Requests, CommitReschedule(r)
    PROVE  PricedInv' /\ Lifecycle!Next
  <1>1. PICK b, w : b = req[r].b /\ w = req[r].win
    OBVIOUS
  <1>2. b \in DOMAIN booking /\ b \in Bookings /\ booking[b].status \in ActiveStatuses
    BY <1>1 DEF CommitReschedule, SlotsInv, RequestCurrent, SameRow, TypeOK
  <1>3. PICK rm : booking' = [booking EXCEPT ![b].win = w, ![b].room = rm, ![b].status = "new"]
    BY <1>1 DEF CommitReschedule
  <1> DEFINE new == [booking[b] EXCEPT !.win = w, !.room = rm, !.status = "new"]
  <1>4. booking' = [booking EXCEPT ![b] = new]
    BY <1>3 DEF TypeOK
  <1>5. /\ DOMAIN booking' = DOMAIN booking
        /\ booking'[b] = new
        /\ \A c \in DOMAIN booking : c # b => booking'[c] = booking[c]
        /\ booking[b] \in Row
    <2> HIDE DEF new
    <2> QED BY <1>2, <1>4, OneRowChanges
  <1>6. new.status = "new" /\ new.fee = booking[b].fee /\ new.direction = booking[b].direction
    BY <1>5 DEF Row
  <1> HIDE DEF new
  <1>7. UNCHANGED <<spent, refunded>> /\ req' = [req EXCEPT ![r] = Idle]
    BY DEF CommitReschedule, money, End
  <1>8. RowsSettled'
    BY <1>2, <1>5, <1>6, <1>7 DEF PricedInv, RowsSettled, ActiveStatuses
  <1>9. \A c \in DOMAIN booking' : FreeIfReverse(booking'[c]) /\ booking'[c].fee \in PossibleFees
    BY <1>2, <1>5, <1>6 DEF PricedInv, FreeIfReverse
  <1>10. RequestPriced(Idle)
    BY DEF RequestPriced, Idle, Placing
  <1>11. \A q \in Requests : RequestPriced(req'[q])
    BY <1>7, <1>10, PricedRequests
  <1>12. PricedInv'
    BY <1>8, <1>9, <1>11 DEF PricedInv, RequestPriced, FreeIfReverse, PossibleFees
  <1>13. OthersStay(b)
    BY <1>5 DEF OthersStay, StageOf, HeldOf
  <1>14. StageOf(b) \in ActiveStatuses /\ StageOf(b)' = "new" /\ HeldOf(b)' = HeldOf(b)
    BY <1>2, <1>5, <1>6 DEF StageOf, HeldOf, ActiveStatuses
  <1>15. Lifecycle!Next
    BY <1>2, <1>8, <1>13, <1>14, OneBookingMoves DEF OthersStay, PricedInv
  <1> QED BY <1>12, <1>15

\* A step that moves no booking and no credits.
LEMMA PricedStutter ==
    ASSUME TypeOK, TypeOK', PricedInv, \A q \in Requests : RequestPriced(req'[q]),
           UNCHANGED <<spent, refunded>>,
           DOMAIN booking' = DOMAIN booking,
           \A b \in DOMAIN booking : SameRow(booking'[b], booking[b])
    PROVE  PricedInv' /\ UNCHANGED <<StageMap, HeldMap>>
  <1>1. RowsSettled'
    BY DEF PricedInv, RowsSettled, SameRow
  <1>2. \A b \in DOMAIN booking' : FreeIfReverse(booking'[b]) /\ booking'[b].fee \in PossibleFees
    BY DEF PricedInv, FreeIfReverse, SameRow
  <1>3. PricedInv'
    BY <1>1, <1>2 DEF PricedInv, RequestPriced, FreeIfReverse, PossibleFees
  <1>4. StageMap' = StageMap /\ HeldMap' = HeldMap
    BY DEF StageMap, HeldMap, SameRow
  <1> QED BY <1>3, <1>4

\* Every step of the engine is a step of the life cycle, or none.
LEMMA LifecycleNext ==
    ASSUME ReverseFree, \A q, r \in Requests : q = r,
           TypeOK, TypeOK', SlotsInv, PricedInv, [Next]_vars
    PROVE  PricedInv' /\ [Lifecycle!Next]_<<StageMap, HeldMap>>
  <1> DEFINE Goal == PricedInv' /\ [Lifecycle!Next]_<<StageMap, HeldMap>>
  <1>1. ASSUME NEW r \in Requests, NEW x, RequestPriced(x), req' = [req EXCEPT ![r] = x],
               UNCHANGED <<booking, money>>
        PROVE  Goal
    <2>1. \A q \in Requests : RequestPriced(req'[q])
      BY <1>1, PricedRequests
    <2> QED BY <1>1, <2>1, PricedStutter DEF SameRow, money
  <1>2. RequestPriced(Idle)
    BY DEF RequestPriced, Idle, Placing
  <1>3. ASSUME NEW r \in Requests, Begin(r) PROVE Goal
    BY <1>1, <1>3, BeginReads
  <1>4. ASSUME NEW r \in Requests, ShortPlace(r) \/ ShortRespond(r) \/ Abort(r) PROVE Goal
    <2>1. req' = [req EXCEPT ![r] = Idle] /\ UNCHANGED <<booking, money>>
      BY <1>4 DEF ShortPlace, ShortRespond, Abort, End
    <2> QED BY <1>1, <1>2, <2>1
  <1>5. ASSUME NEW r \in Requests, CheckPlace(r) PROVE Goal
    <2> DEFINE x == [req[r] EXCEPT !.checked = TRUE]
    <2>1. req[r] \in PlaceReq
      BY <1>5, RequestByOp DEF CheckPlace, TypeOK
    <2>2. x.op = req[r].op /\ x.row = req[r].row /\ x.charge = req[r].charge
      BY <2>1 DEF PlaceReq
    <2>3. req' = [req EXCEPT ![r] = x] /\ UNCHANGED <<booking, money>>
      BY <1>5 DEF CheckPlace
    <2> HIDE DEF x
    <2>4. RequestPriced(x)
      BY <2>2 DEF PricedInv, RequestPriced
    <2> QED BY <1>1, <2>3, <2>4
  <1>6. ASSUME NEW r \in Requests, CheckReschedule(r) PROVE Goal
    <2> DEFINE x == [req[r] EXCEPT !.checked = TRUE, !.old = SlotsOf(req[r].b)]
    <2>1. req[r] \in MoveReq /\ req[r].op = "reschedule"
      BY <1>6, RequestByOp DEF CheckReschedule, TypeOK
    <2>2. x.op = "reschedule"
      BY <2>1 DEF MoveReq
    <2>3. req' = [req EXCEPT ![r] = x] /\ UNCHANGED <<booking, money>>
      BY <1>6 DEF CheckReschedule
    <2> HIDE DEF x
    <2>4. RequestPriced(x)
      BY <2>2 DEF RequestPriced, Placing
    <2> QED BY <1>1, <2>3, <2>4
  <1>7. ASSUME NEW r \in Requests, Work(r) PROVE Goal
    BY <1>4, <1>5, <1>6, <1>7, PricedCommitPlace, PricedCommitRespond, PricedCommitCas,
       PricedCommitReschedule DEF Work
  <1>8. ASSUME NEW b \in DOMAIN booking, AckByTeacher(b) PROVE Goal
    <2>1. booking' = [booking EXCEPT ![b] = [booking[b] EXCEPT !.acked = TRUE]]
      BY <1>8 DEF AckByTeacher
    <2>2. DOMAIN booking' = DOMAIN booking /\ \A c \in DOMAIN booking : SameRow(booking'[c], booking[c])
      BY <2>1, OneRowChanges DEF SameRow, Row
    <2>3. UNCHANGED <<spent, refunded, req>>
      BY <1>8 DEF AckByTeacher, money
    <2>4. \A q \in Requests : RequestPriced(req'[q])
      BY <2>3 DEF PricedInv
    <2> QED BY <2>2, <2>3, <2>4, PricedStutter
  <1>9. CASE NextDay \/ UNCHANGED vars
    <2>1. UNCHANGED <<booking, spent, refunded, req>>
      BY <1>9 DEF NextDay, vars, money
    <2>2. \A q \in Requests : RequestPriced(req'[q])
      BY <2>1 DEF PricedInv
    <2> QED BY <2>1, <2>2, PricedStutter DEF SameRow
  <1> QED BY <1>3, <1>4, <1>7, <1>8, <1>9 DEF Next

\* One request at a time and with free proposals the engine implements the
\* life cycle of a booking: every step of it, with its slots, rooms, locks and
\* rechecks, takes at most one booking along one edge of the state machine,
\* and the credits held for it are those the life cycle says.
THEOREM LifecycleImplemented ==
    ASSUME ReverseFree, \A q, r \in Requests : q = r
    PROVE  Spec => ImplementsLifecycle
  <1>1. Init => PricedInv
    BY DEF Init, PricedInv, RowsSettled, RequestPriced, Idle, Placing
  <1>2. Init => Lifecycle!Init
    BY DEF Init, Lifecycle!Init
  <1>3. TypeOK /\ SlotsInv /\ [Next]_vars => SlotsInv'
    BY SlotsNext
  <1>4. TypeOK /\ TypeOK' /\ SlotsInv /\ PricedInv /\ [Next]_vars
        => PricedInv' /\ [Lifecycle!Next]_<<StageMap, HeldMap>>
    BY LifecycleNext
  <1> QED BY SlotsInit, <1>1, <1>2, <1>3, <1>4, TypeCorrect, PTL
          DEF Spec, ImplementsLifecycle, Lifecycle!Spec, StageMap, HeldMap
=============================================================================
