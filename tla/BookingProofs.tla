----------------------------- MODULE BookingProofs -----------------------------
(****************************************************************************)
(* Theorems about Booking for every number of students, teachers, rooms,    *)
(* bookings, requests and windows.                                          *)
(****************************************************************************)
EXTENDS BookingProps, TLAPS

(****************************************************************************)
(* Requests.                                                                *)
(****************************************************************************)
\* The operation a request names tells which fields it has.
LEMMA RequestByOp ==
    ASSUME NEW x \in Request
    PROVE  /\ x.op \in {"create", "assign", "propose", "priority"} => x \in PlaceReq
           /\ x.op = "reschedule" => x \in MoveReq
           /\ x.op \in {"transition", "teacherCancel", "unacked"} => x \in CasReq
           /\ x.op = "respond" => x \in RespondReq
  BY DEF Request, Idle, PlaceReq, MoveReq, CasReq, RespondReq

\* A row NewRow makes is a row.
LEMMA NewRowType ==
    ASSUME NEW s \in Students, NEW t \in Teachers, NEW dir \in {"student", "reverse"},
           NEW w \in Windows, NEW m \in Modes, NEW st \in Status, NEW fee \in Nat,
           NEW org \in Origins
    PROVE  NewRow(s, t, dir, w, m, st, fee, org) \in Row
  BY DEF NewRow, Row

\* A window's slot rows are slot rows.
LEMMA SlotRowsType ==
    ASSUME NEW b \in Bookings, NEW t \in Teachers, NEW w \in Windows
    PROVE  SlotRows(b, t, w) \subseteq TimeSlot
  BY WindowsAssumption DEF SlotRows, TimeSlot

\* What a row may be changed to.
LEMMA RowUpdates ==
    ASSUME NEW row \in Row
    PROVE  /\ \A st \in Status : [row EXCEPT !.status = st] \in Row
           /\ \A rm \in Rooms \cup {NoRoom} : [row EXCEPT !.room = rm] \in Row
           /\ \A w \in Windows, rm \in Rooms \cup {NoRoom} :
                [row EXCEPT !.win = w, !.room = rm, !.status = "new"] \in Row
           /\ [row EXCEPT !.acked = TRUE] \in Row
  BY DEF Row, Status, ActiveStatuses

\* A change of one row of the table keeps its type.
LEMMA TableUpdate ==
    ASSUME TypeOK, NEW b, NEW row, b \in DOMAIN booking => row \in Row,
           booking' = [booking EXCEPT ![b] = row]
    PROVE  DOMAIN booking' \subseteq Bookings /\ booking' \in [DOMAIN booking' -> Row]
  BY DEF TypeOK

\* A step that only starts, continues or ends a request.
LEMMA RequestStep ==
    ASSUME TypeOK, NEW r \in Requests, NEW x \in Request, req' = [req EXCEPT ![r] = x],
           calls' \in 0 .. MaxCalls,
           UNCHANGED <<booking, slots, money, counters, today>>
    PROVE  TypeOK'
  BY DEF TypeOK, money, counters

\* The client calls stay within their bound.
LEMMA CallStep ==
    ASSUME TypeOK, NEW r \in Requests, NEW op, NEW x, Call(r, op, x)
    PROVE  calls' \in 0 .. MaxCalls /\ req' = [req EXCEPT ![r] = x]
  BY NumbersAssumption DEF TypeOK, Call, Take

\* The request that ends is idle.
LEMMA EndStep ==
    ASSUME TypeOK, NEW r \in Requests, End(r)
    PROVE  req' \in [Requests -> Request]
  BY DEF TypeOK, End, Request

\* Consuming and giving back keep the amounts natural numbers.
LEMMA MoneyType ==
    ASSUME TypeOK, NEW s \in Students, NEW b \in Bookings, NEW amount \in Nat,
           Consume(s, b, amount) \/ Refund(s, b, amount)
    PROVE  /\ credit' \in [Students -> Nat]
           /\ spent' \in [Bookings -> Nat]
           /\ refunded' \in [Bookings -> Nat]
  BY DEF TypeOK, Consume, Refund

(****************************************************************************)
(* Type correctness, one action at a time.                                  *)
(****************************************************************************)
\* Starting a booking by a student.
LEMMA TypeBeginCreate ==
    ASSUME TypeOK, NEW r \in Requests, BeginCreate(r) PROVE TypeOK'
  <1>1. PICK s \in Students, t \in Teachers, w \in Windows, m \in Modes :
          /\ Call(r, "create",
               [op |-> "create", checked |-> FALSE, charge |-> Fee[t],
                row |-> NewRow(s, t, "student", w, m,
                               IF t \in FullTime THEN "confirmed" ELSE "new", Fee[t],
                               IF t \in FullTime THEN "fulltime" ELSE "direct")])
          /\ UNCHANGED <<booking, slots, money, counters, today>>
    BY DEF BeginCreate
  <1> DEFINE row == NewRow(s, t, "student", w, m,
                           IF t \in FullTime THEN "confirmed" ELSE "new", Fee[t],
                           IF t \in FullTime THEN "fulltime" ELSE "direct")
             x == [op |-> "create", checked |-> FALSE, charge |-> Fee[t], row |-> row]
  <1>2. Fee[t] \in Nat
    BY NumbersAssumption
  <1>3. row \in Row
    BY <1>2, NewRowType DEF Status, ActiveStatuses, Origins
  <1>4. x \in Request
    <2> HIDE DEF row
    <2> QED BY <1>2, <1>3 DEF Request, PlaceReq
  <1> HIDE DEF x
  <1>5. calls' \in 0 .. MaxCalls /\ req' = [req EXCEPT ![r] = x]
    BY <1>1, CallStep DEF x
  <1> QED BY <1>1, <1>4, <1>5, RequestStep

\* What an assigned booking costs when it is begun: its teacher's fee or nothing, and
\* nothing if it is a proposal and those are free.
LEMMA AssignBegins ==
    ASSUME TypeOK, NEW r \in Requests, BeginAssign(r)
    PROVE  \E s \in Students, t \in Teachers, w \in Windows, m \in Modes,
              dir \in {"student", "reverse"} : \E fee \in {0, Fee[t]} :
             /\ ReverseFree /\ dir = "reverse" => fee = 0
             /\ req' = [req EXCEPT ![r] =
                  [op |-> "assign", checked |-> FALSE, charge |-> fee,
                   row |-> NewRow(s, t, dir, w, m, "confirmed", fee, "batch")]]
             /\ calls' \in 0 .. MaxCalls
             /\ UNCHANGED <<booking, slots, money, counters, today>>
  <1>1. PICK s \in Students, t \in Teachers, w \in Windows, m \in Modes,
             dir \in {"student", "reverse"}, free \in BOOLEAN :
          /\ dir = "reverse" => free = ReverseFree
          /\ LET fee == IF free THEN 0 ELSE Fee[t] IN
             Call(r, "assign",
               [op |-> "assign", checked |-> FALSE, charge |-> fee,
                row |-> NewRow(s, t, dir, w, m, "confirmed", fee, "batch")])
          /\ UNCHANGED <<booking, slots, money, counters, today>>
    BY DEF BeginAssign
  <1> DEFINE fee == IF free THEN 0 ELSE Fee[t]
             row == NewRow(s, t, dir, w, m, "confirmed", fee, "batch")
  <1>2. fee \in {0, Fee[t]} /\ (ReverseFree /\ dir = "reverse" => fee = 0)
    BY <1>1
  <1>3. /\ req' = [req EXCEPT ![r] = [op |-> "assign", checked |-> FALSE, charge |-> fee,
                                      row |-> row]]
        /\ calls' \in 0 .. MaxCalls
    BY <1>1, CallStep
  <1> HIDE DEF fee
  <1> QED BY <1>1, <1>2, <1>3

\* Starting an assigned booking.
LEMMA TypeBeginAssign ==
    ASSUME TypeOK, NEW r \in Requests, BeginAssign(r) PROVE TypeOK'
  <1>0. PICK s \in Students, t \in Teachers, w \in Windows, m \in Modes,
             dir \in {"student", "reverse"} : \E fee \in {0, Fee[t]} :
          /\ req' = [req EXCEPT ![r] =
               [op |-> "assign", checked |-> FALSE, charge |-> fee,
                row |-> NewRow(s, t, dir, w, m, "confirmed", fee, "batch")]]
          /\ calls' \in 0 .. MaxCalls
          /\ UNCHANGED <<booking, slots, money, counters, today>>
    BY AssignBegins
  <1>1. PICK fee \in {0, Fee[t]} :
          /\ req' = [req EXCEPT ![r] =
               [op |-> "assign", checked |-> FALSE, charge |-> fee,
                row |-> NewRow(s, t, dir, w, m, "confirmed", fee, "batch")]]
          /\ calls' \in 0 .. MaxCalls
          /\ UNCHANGED <<booking, slots, money, counters, today>>
    BY <1>0
  <1> DEFINE row == NewRow(s, t, dir, w, m, "confirmed", fee, "batch")
             x == [op |-> "assign", checked |-> FALSE, charge |-> fee, row |-> row]
  <1>2. fee \in Nat
    BY NumbersAssumption
  <1>3. row \in Row
    BY <1>2, NewRowType DEF Status, ActiveStatuses, Origins
  <1>4. x \in Request
    <2> HIDE DEF row
    <2> QED BY <1>2, <1>3 DEF Request, PlaceReq
  <1>5. calls' \in 0 .. MaxCalls /\ req' = [req EXCEPT ![r] = x]
    BY <1>1
  <1> HIDE DEF x
  <1> QED BY <1>1, <1>4, <1>5, RequestStep

\* Starting a reverse proposal.
LEMMA TypeBeginPropose ==
    ASSUME TypeOK, NEW r \in Requests, BeginPropose(r) PROVE TypeOK'
  <1>1. PICK s \in Students, t \in Teachers, w \in Windows, m \in Modes :
          /\ LET fee == IF ReverseFree THEN 0 ELSE Fee[t] IN
             Call(r, "propose",
               [op |-> "propose", checked |-> FALSE, charge |-> 0,
                row |-> NewRow(s, t, "reverse", w, m, "new", fee, "proposal")])
          /\ UNCHANGED <<booking, slots, money, counters, today>>
    BY DEF BeginPropose
  <1> DEFINE fee == IF ReverseFree THEN 0 ELSE Fee[t]
             row == NewRow(s, t, "reverse", w, m, "new", fee, "proposal")
             x == [op |-> "propose", checked |-> FALSE, charge |-> 0, row |-> row]
  <1>2. fee \in Nat
    BY NumbersAssumption
  <1>3. row \in Row
    BY <1>2, NewRowType DEF Status, ActiveStatuses, Origins
  <1>4. x \in Request
    <2> HIDE DEF row, fee
    <2> QED BY <1>2, <1>3 DEF Request, PlaceReq
  <1>5. calls' \in 0 .. MaxCalls /\ req' = [req EXCEPT ![r] = x]
    BY <1>1, CallStep
  <1> HIDE DEF x
  <1> QED BY <1>1, <1>4, <1>5, RequestStep

\* Starting an answer to a proposal.
LEMMA TypeBeginRespond ==
    ASSUME TypeOK, NEW r \in Requests, BeginRespond(r) PROVE TypeOK'
  <1>1. PICK b \in DOMAIN booking, accept \in BOOLEAN :
          /\ Call(r, "respond",
                  [op |-> "respond", b |-> b, row |-> booking[b], accept |-> accept])
          /\ UNCHANGED <<booking, slots, money, counters, today>>
    BY DEF BeginRespond
  <1> DEFINE x == [op |-> "respond", b |-> b, row |-> booking[b], accept |-> accept]
  <1>2. x \in Request
    BY DEF Request, RespondReq, TypeOK
  <1>3. calls' \in 0 .. MaxCalls /\ req' = [req EXCEPT ![r] = x]
    BY <1>1, CallStep
  <1> HIDE DEF x
  <1> QED BY <1>1, <1>2, <1>3, RequestStep

\* A conditional status change of a booking that exists is a request.
LEMMA CasCallType ==
    ASSUME TypeOK, NEW op \in {"transition", "teacherCancel", "unacked"},
           NEW b \in DOMAIN booking, NEW to \in Status,
           NEW by \in {"student", "staff", "system"},
           NEW sub \in Teachers \cup {NoTeacher}
    PROVE  CasCall(op, b, to, by, sub) \in Request
  BY DEF CasCall, Request, CasReq, TypeOK

\* Starting a transition.
LEMMA TypeBeginTransition ==
    ASSUME TypeOK, NEW r \in Requests, BeginTransition(r) PROVE TypeOK'
  <1>1. PICK b \in DOMAIN booking, to \in Status \ {"new"} :
          \E by \in AllowedRoles(to) :
             /\ Call(r, "transition", CasCall("transition", b, to, by, NoTeacher))
             /\ UNCHANGED <<booking, slots, money, counters, today>>
    BY DEF BeginTransition
  <1>2. PICK by \in AllowedRoles(to) :
             /\ Call(r, "transition", CasCall("transition", b, to, by, NoTeacher))
             /\ UNCHANGED <<booking, slots, money, counters, today>>
    BY <1>1
  <1>3. CasCall("transition", b, to, by, NoTeacher) \in Request
    BY CasCallType DEF AllowedRoles
  <1> QED BY <1>2, <1>3, CallStep, RequestStep

\* Starting a cancellation with a reason.
LEMMA TypeBeginTeacherCancel ==
    ASSUME TypeOK, NEW r \in Requests, BeginTeacherCancel(r) PROVE TypeOK'
  <1>1. PICK b \in DOMAIN booking, sub \in Teachers \cup {NoTeacher} :
          /\ Call(r, "teacherCancel",
                  CasCall("teacherCancel", b, "cancelled", "staff", sub))
          /\ UNCHANGED <<booking, slots, money, counters, today>>
    BY DEF BeginTeacherCancel, Substitutes
  <1>2. CasCall("teacherCancel", b, "cancelled", "staff", sub) \in Request
    BY CasCallType DEF Status
  <1> QED BY <1>1, <1>2, CallStep, RequestStep

\* Starting the sweep of one booking.
LEMMA TypeBeginUnacked ==
    ASSUME TypeOK, NEW r \in Requests, NEW b \in Bookings, BeginUnacked(r, b)
    PROVE  TypeOK'
  <1>1. b \in DOMAIN booking
    BY DEF BeginUnacked, UnackedRows
  <1>2. CasCall("unacked", b, "cancelled", "system", NoTeacher) \in Request
    BY <1>1, CasCallType DEF Status
  <1>3. calls' \in 0 .. MaxCalls
    BY DEF BeginUnacked, TypeOK
  <1> QED BY <1>2, <1>3, RequestStep DEF BeginUnacked, Take

\* Starting a move.
LEMMA TypeBeginReschedule ==
    ASSUME TypeOK, NEW r \in Requests, BeginReschedule(r) PROVE TypeOK'
  <1>1. PICK b \in Active, w \in Windows :
          /\ Call(r, "reschedule",
                  [op |-> "reschedule", b |-> b, row |-> booking[b], win |-> w,
                   checked |-> FALSE, old |-> {}])
          /\ UNCHANGED <<booking, slots, money, counters, today>>
    BY DEF BeginReschedule
  <1> DEFINE x == [op |-> "reschedule", b |-> b, row |-> booking[b], win |-> w,
                   checked |-> FALSE, old |-> {}]
  <1>2. x \in Request
    BY DEF Request, MoveReq, TypeOK, Active
  <1>3. calls' \in 0 .. MaxCalls /\ req' = [req EXCEPT ![r] = x]
    BY <1>1, CallStep
  <1> HIDE DEF x
  <1> QED BY <1>1, <1>2, <1>3, RequestStep

\* The recheck of a placement under its lock.
LEMMA TypeCheckPlace ==
    ASSUME TypeOK, NEW r \in Requests, CheckPlace(r) PROVE TypeOK'
  <1>1. req[r] \in PlaceReq
    BY RequestByOp DEF CheckPlace, TypeOK
  <1> DEFINE x == [req[r] EXCEPT !.checked = TRUE]
  <1>2. x \in Request
    BY <1>1 DEF Request, PlaceReq
  <1>3. req' = [req EXCEPT ![r] = x] /\ calls' \in 0 .. MaxCalls
    BY DEF CheckPlace, TypeOK
  <1> HIDE DEF x
  <1> QED BY <1>2, <1>3, RequestStep DEF CheckPlace

\* The recheck of a move under its lock.
LEMMA TypeCheckReschedule ==
    ASSUME TypeOK, NEW r \in Requests, CheckReschedule(r) PROVE TypeOK'
  <1>1. req[r] \in MoveReq
    BY RequestByOp DEF CheckReschedule, TypeOK
  <1> DEFINE x == [req[r] EXCEPT !.checked = TRUE, !.old = SlotsOf(req[r].b)]
  <1>2. SlotsOf(req[r].b) \subseteq TimeSlot
    BY DEF SlotsOf, TypeOK
  <1>3. x \in Request
    BY <1>1, <1>2 DEF Request, MoveReq
  <1>4. req' = [req EXCEPT ![r] = x] /\ calls' \in 0 .. MaxCalls
    BY DEF CheckReschedule, TypeOK
  <1> HIDE DEF x
  <1> QED BY <1>3, <1>4, RequestStep DEF CheckReschedule

\* A transaction that rolls back.
LEMMA TypeAbort ==
    ASSUME TypeOK, NEW r \in Requests, Abort(r) PROVE TypeOK'
  BY EndStep DEF Abort, TypeOK, money, counters

\* A placement that commits: a new row, its slot rows, the credits.
LEMMA TypeCommitPlace ==
    ASSUME TypeOK, NEW r \in Requests, CommitPlace(r) PROVE TypeOK'
  <1> DEFINE row == req[r].row
  <1>1. req[r] \in PlaceReq
    BY RequestByOp DEF CommitPlace, TypeOK
  <1>2. row \in Row /\ req[r].charge \in Nat
    BY <1>1 DEF PlaceReq
  <1>3. PICK b \in Bookings \ DOMAIN booking, rm \in Rooms \cup {NoRoom} :
          /\ booking' = [x \in DOMAIN booking \cup {b} |->
                           IF x = b THEN [row EXCEPT !.room = rm] ELSE booking[x]]
          /\ Consume(row.student, b, req[r].charge)
          /\ slots' = slots \cup SlotRows(b, row.teacher, row.win)
    BY DEF CommitPlace, AssignRoom, FreeRooms
  <1>4. [row EXCEPT !.room = rm] \in Row
    BY <1>2, RowUpdates
  <1>5. DOMAIN booking' \subseteq Bookings /\ booking' \in [DOMAIN booking' -> Row]
    <2> HIDE DEF row
    <2> QED BY <1>3, <1>4 DEF TypeOK
  <1>6. row.student \in Students /\ row.teacher \in Teachers /\ row.win \in Windows
    BY <1>2 DEF Row
  <1>7. slots' \subseteq TimeSlot
    BY <1>3, <1>6, SlotRowsType DEF TypeOK
  <1>8. /\ credit' \in [Students -> Nat]
        /\ spent' \in [Bookings -> Nat]
        /\ refunded' \in [Bookings -> Nat]
    BY <1>2, <1>3, <1>6, MoneyType
  <1>9. req' \in [Requests -> Request]
    BY EndStep DEF CommitPlace
  <1> QED BY <1>5, <1>7, <1>8, <1>9 DEF TypeOK, CommitPlace, counters

\* A placement whose student is short of credits.
LEMMA TypeShortPlace ==
    ASSUME TypeOK, NEW r \in Requests, ShortPlace(r) PROVE TypeOK'
  <1>1. req[r] \in PlaceReq
    BY RequestByOp DEF ShortPlace, TypeOK
  <1>2. req[r].row.student \in Students /\ req[r].charge \in Nat
    BY <1>1 DEF PlaceReq, Row
  <1>3. credit[req[r].row.student] \in Nat
    BY <1>2 DEF TypeOK
  <1>4. payRequests' \subseteq PayRequest
    BY <1>2, <1>3 DEF ShortPlace, PayRequest, TypeOK
  <1>5. req' \in [Requests -> Request]
    BY EndStep DEF ShortPlace
  <1> QED BY <1>4, <1>5 DEF TypeOK, ShortPlace, money

\* An answer that commits.
LEMMA TypeCommitRespond ==
    ASSUME TypeOK, NEW r \in Requests, CommitRespond(r) PROVE TypeOK'
  <1> DEFINE b == req[r].b
             row == req[r].row
  <1>1. req[r] \in RespondReq
    BY RequestByOp DEF CommitRespond, TypeOK
  <1>2. b \in Bookings /\ row.student \in Students /\ row.fee \in Nat
    BY <1>1 DEF RespondReq, Row
  <1>3. PICK st \in Status : booking' = [booking EXCEPT ![b] = [booking[b] EXCEPT !.status = st]]
    BY DEF CommitRespond, Status, ActiveStatuses
  <1>4. b \in DOMAIN booking => [booking[b] EXCEPT !.status = st] \in Row
    BY RowUpdates DEF TypeOK
  <1>5. DOMAIN booking' \subseteq Bookings /\ booking' \in [DOMAIN booking' -> Row]
    BY <1>3, <1>4, TableUpdate
  <1>6. slots' \subseteq TimeSlot
    BY DEF CommitRespond, TypeOK
  <1>7. /\ credit' \in [Students -> Nat]
        /\ spent' \in [Bookings -> Nat]
        /\ refunded' \in [Bookings -> Nat]
    <2>1. CASE req[r].accept
      BY <1>2, <2>1, MoneyType DEF CommitRespond
    <2>2. CASE ~req[r].accept
      BY <2>2 DEF CommitRespond, money, TypeOK
    <2> QED BY <2>1, <2>2
  <1>8. req' \in [Requests -> Request]
    BY EndStep DEF CommitRespond
  <1> QED BY <1>5, <1>6, <1>7, <1>8 DEF TypeOK, CommitRespond, counters

\* An acceptance the student cannot pay.
LEMMA TypeShortRespond ==
    ASSUME TypeOK, NEW r \in Requests, ShortRespond(r) PROVE TypeOK'
  <1>1. req[r] \in RespondReq
    BY RequestByOp DEF ShortRespond, TypeOK
  <1>2. /\ req[r].row.student \in Students
        /\ req[r].row.fee \in Nat
        /\ req[r].b \in Bookings
    BY <1>1 DEF RespondReq, Row
  <1>3. credit[req[r].row.student] \in Nat
    BY <1>2 DEF TypeOK
  <1>4. payRequests' \subseteq PayRequest
    BY <1>2, <1>3 DEF ShortRespond, PayRequest, TypeOK
  <1>5. req' \in [Requests -> Request]
    BY EndStep DEF ShortRespond
  <1> QED BY <1>4, <1>5 DEF TypeOK, ShortRespond, money

\* What follows a committed conditional change is a request.
LEMMA AfterCasType ==
    ASSUME NEW r, req[r] \in CasReq
    PROVE  AfterCas(r) \in Request
  <1> DEFINE row == req[r].row
             sub == req[r].sub
             new == NewRow(row.student, sub, "student", row.win, row.mode,
                           "confirmed", Fee[sub], "priority")
  <1>1. CASE sub = NoTeacher
    BY <1>1 DEF AfterCas, Request
  <1>2. CASE sub # NoTeacher
    <2>1. sub \in Teachers /\ Fee[sub] \in Nat
      BY <1>2, NumbersAssumption DEF CasReq
    <2>2. new \in Row
      <3>1. row.student \in Students /\ row.win \in Windows /\ row.mode \in Modes
        BY DEF CasReq, Row
      <3> QED BY <2>1, <3>1, NewRowType DEF Status, ActiveStatuses, Origins
    <2>3. AfterCas(r) = [op |-> "priority", checked |-> FALSE, charge |-> Fee[sub],
                         row |-> new]
      BY <1>2 DEF AfterCas
    <2> HIDE DEF new
    <2> QED BY <2>1, <2>2, <2>3 DEF Request, PlaceReq
  <1> QED BY <1>1, <1>2

\* A conditional status change that commits.
LEMMA TypeCommitCas ==
    ASSUME TypeOK, NEW r \in Requests, CommitCas(r) PROVE TypeOK'
  <1> DEFINE b   == req[r].b
             row == req[r].row
             to  == req[r].to
             why == Offence(to, req[r].by, row)
  <1>1. req[r] \in CasReq
    BY RequestByOp DEF CommitCas, TypeOK
  <1>2. /\ b \in Bookings /\ to \in Status /\ row \in Row
        /\ row.student \in Students /\ row.teacher \in Teachers /\ row.fee \in Nat
    BY <1>1 DEF CasReq, Row
  <1>3. DOMAIN booking' \subseteq Bookings /\ booking' \in [DOMAIN booking' -> Row]
    <2>1. booking' = [booking EXCEPT ![b] = [booking[b] EXCEPT !.status = to]]
      BY DEF CommitCas
    <2>2. b \in DOMAIN booking => [booking[b] EXCEPT !.status = to] \in Row
      BY <1>2, RowUpdates DEF TypeOK
    <2> QED BY <2>1, <2>2, TableUpdate
  <1>4. slots' \subseteq TimeSlot
    BY DEF CommitCas, TypeOK
  <1>5. /\ credit' \in [Students -> Nat]
        /\ spent' \in [Bookings -> Nat]
        /\ refunded' \in [Bookings -> Nat]
    <2>1. RefundDue(row, to) \in Nat
      BY <1>2 DEF RefundDue
    <2> QED BY <1>2, <2>1, MoneyType DEF CommitCas
  <1>6. offences' \in [Students -> Offences]
    <2>1. CASE offences' = offences
      BY <2>1 DEF TypeOK
    <2>2. CASE offences' = [offences EXCEPT ![row.student][why] = @ + 1] /\ why # "none"
      <3>1. why \in OffenceKinds
        BY <2>2 DEF Offence, OffenceKinds
      <3> HIDE DEF why
      <3> QED BY <1>2, <2>2, <3>1 DEF TypeOK, Offences
    <2> QED BY <2>1, <2>2 DEF CommitCas
  <1>7. cancelCount' \in [Teachers -> Nat]
    BY <1>2 DEF CommitCas, TypeOK
  <1>8. cancelEvents' \in [Bookings -> Nat]
    BY <1>2 DEF CommitCas, TypeOK
  <1>9. req' \in [Requests -> Request]
    BY <1>1, AfterCasType DEF CommitCas, TypeOK
  <1> QED BY <1>3, <1>4, <1>5, <1>6, <1>7, <1>8, <1>9 DEF TypeOK, CommitCas

\* A move that commits.
LEMMA TypeCommitReschedule ==
    ASSUME TypeOK, NEW r \in Requests, CommitReschedule(r) PROVE TypeOK'
  <1> DEFINE b == req[r].b
             w == req[r].win
             row == req[r].row
  <1>1. req[r] \in MoveReq
    BY RequestByOp DEF CommitReschedule, TypeOK
  <1>2. /\ b \in Bookings /\ w \in Windows
        /\ row.teacher \in Teachers /\ row.room \in Rooms \cup {NoRoom}
    BY <1>1 DEF MoveReq, Row
  <1>3. PICK rm \in Rooms \cup {NoRoom} :
          booking' = [booking EXCEPT ![b].win = w, ![b].room = rm, ![b].status = "new"]
    BY <1>2 DEF CommitReschedule, FreeRooms
  <1>4. DOMAIN booking' \subseteq Bookings /\ booking' \in [DOMAIN booking' -> Row]
    <2> DEFINE new == [booking[b] EXCEPT !.win = w, !.room = rm, !.status = "new"]
    <2>1. booking' = [booking EXCEPT ![b] = new]
      BY <1>3 DEF TypeOK
    <2>2. b \in DOMAIN booking => new \in Row
      BY <1>2, RowUpdates DEF TypeOK
    <2> HIDE DEF new
    <2> QED BY <2>1, <2>2, TableUpdate
  <1>5. slots' \subseteq TimeSlot
    BY <1>2, SlotRowsType DEF CommitReschedule, MovedSlots, TypeOK
  <1>6. req' \in [Requests -> Request]
    BY EndStep DEF CommitReschedule
  <1> QED BY <1>4, <1>5, <1>6 DEF TypeOK, CommitReschedule, money, counters

\* An acknowledgement.
LEMMA TypeAck ==
    ASSUME TypeOK, NEW b \in DOMAIN booking, AckByTeacher(b) PROVE TypeOK'
  <1>1. booking' = [booking EXCEPT ![b] = [booking[b] EXCEPT !.acked = TRUE]]
    BY DEF AckByTeacher
  <1>2. [booking[b] EXCEPT !.acked = TRUE] \in Row
    BY RowUpdates DEF TypeOK
  <1>3. DOMAIN booking' \subseteq Bookings /\ booking' \in [DOMAIN booking' -> Row]
    BY <1>1, <1>2, TableUpdate
  <1> QED BY <1>3 DEF TypeOK, AckByTeacher, money, counters

\* Every reachable state of the booking engine is well typed: in particular
\* no consumption makes the spendable credits of a student negative, whichever
\* requests overlap (consumeWithin, refundWithin).
THEOREM TypeCorrect == Spec => []TypeOK
  <1>1. Init => TypeOK
    BY NumbersAssumption DEF Init, TypeOK, Request, Offences
  <1>2. TypeOK /\ [Next]_vars => TypeOK'
    <2> SUFFICES ASSUME TypeOK, [Next]_vars PROVE TypeOK'
      OBVIOUS
    <2>1. ASSUME NEW r \in Requests, Begin(r) PROVE TypeOK'
      BY <2>1, TypeBeginCreate, TypeBeginAssign, TypeBeginPropose, TypeBeginRespond,
         TypeBeginTransition, TypeBeginTeacherCancel, TypeBeginReschedule,
         TypeBeginUnacked DEF Begin
    <2>2. ASSUME NEW r \in Requests, Work(r) PROVE TypeOK'
      BY <2>2, TypeCheckPlace, TypeCommitPlace, TypeShortPlace, TypeCommitRespond,
         TypeShortRespond, TypeCommitCas, TypeCheckReschedule, TypeCommitReschedule
      DEF Work
    <2>3. ASSUME NEW r \in Requests, Abort(r) PROVE TypeOK'
      BY <2>3, TypeAbort
    <2>4. ASSUME NEW b \in DOMAIN booking, AckByTeacher(b) PROVE TypeOK'
      BY <2>4, TypeAck
    <2>5. CASE NextDay
      BY <2>5, NumbersAssumption DEF NextDay, TypeOK, money, counters
    <2>6. CASE UNCHANGED vars
      BY <2>6 DEF TypeOK, vars
    <2> QED BY <2>1, <2>2, <2>3, <2>4, <2>5, <2>6 DEF Next
  <1> QED BY <1>1, <1>2, PTL DEF Spec
=============================================================================
