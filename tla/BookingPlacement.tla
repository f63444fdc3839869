---------------------------- MODULE BookingPlacement ----------------------------
(****************************************************************************)
(* The calendar stays in order under every interleaving of every operation, *)
(* for every number of students, teachers, rooms, bookings, requests and    *)
(* windows: a live ordinary booking holds its slot rows, no two of them     *)
(* overlap, the rest buffer separates those placed under the lock, a room   *)
(* has one session at a time, and the video meetings of a window stay       *)
(* within the limit.                                                        *)
(****************************************************************************)
EXTENDS BookingProofs, FiniteSetTheorems

Placements == {"create", "assign", "propose", "priority"}

(****************************************************************************)
(* Steps that change one request and neither a booking nor a slot row.      *)
(****************************************************************************)
\* Who holds a lock.
LEMMA HoldsWhen ==
    ASSUME NEW r \in Requests
    PROVE  Holds(r) <=> /\ req[r].op \in {"create", "assign", "propose", "reschedule"}
                        /\ req[r].checked
  BY DEF Holds, LockedBy, Target

\* The same after a step.
LEMMA HoldsWhenNext ==
    ASSUME NEW r \in Requests
    PROVE  Holds(r)' <=> /\ req'[r].op \in {"create", "assign", "propose", "reschedule"}
                         /\ req'[r].checked
  BY DEF Holds, LockedBy, Target

\* A step that gives no lock away keeps the locks exclusive.
LEMMA ReleaseStep ==
    ASSUME TypeOK, LockExclusive, NEW r \in Requests, NEW x, req' = [req EXCEPT ![r] = x],
           x.op \in {"create", "assign", "propose", "reschedule"} => ~x.checked
    PROVE  /\ LockExclusive'
           /\ \A q \in Requests : Holds(q)' => q # r /\ req'[q] = req[q] /\ Holds(q)
  <1>1. req'[r] = x /\ \A q \in Requests : q # r => req'[q] = req[q]
    BY DEF TypeOK
  <1>2. ~Holds(r)'
    BY <1>1, HoldsWhenNext
  <1>3. \A q \in Requests : Holds(q)' => q # r /\ req'[q] = req[q] /\ Holds(q)
    BY <1>1, <1>2, HoldsWhen, HoldsWhenNext
  <1> QED BY <1>3 DEF LockExclusive, Target

\* A request that starts, gives up or fails changes nothing else.
LEMMA PlacedRequestStep ==
    ASSUME TypeOK, Placement, NEW r \in Requests, NEW x, req' = [req EXCEPT ![r] = x],
           x.op \in {"create", "assign", "propose", "reschedule"} => ~x.checked,
           RequestPlaced(x), UNCHANGED <<booking, slots>>
    PROVE  Placement'
  <1>1. LockExclusive' /\ \A q \in Requests : Holds(q)' => req'[q] = req[q] /\ Holds(q)
    BY ReleaseStep DEF Placement
  <1>2. StillClear'
    BY <1>1 DEF Placement, StillClear, Active, Protected, Ordinary
  <1>3. \A q \in Requests : RequestPlaced(req[q])'
    BY DEF Placement, RequestPlaced, Ordinary, TypeOK
  <1>4. /\ RowsPlaced' /\ SlotsHeld' /\ UniqueSlots' /\ RestBufferUnderLock' /\ RoomExclusive'
    BY DEF Placement, RowsPlaced, SlotsHeld, UniqueSlots, RestBufferUnderLock,
           RoomExclusive, Active, Ordinary, Protected
  <1> QED BY <1>1, <1>2, <1>3, <1>4 DEF Placement

\* Every request that starts knows its booking rightly and holds no lock yet.
LEMMA PlacedBegin ==
    ASSUME TypeOK, Placement, NEW r \in Requests, Begin(r)
    PROVE  Placement'
  <1>1. ASSUME NEW op \in Placements, NEW row, NEW charge,
               req' = [req EXCEPT ![r] =
                         [op |-> op, checked |-> FALSE, charge |-> charge, row |-> row]],
               UNCHANGED <<booking, slots>>,
               row.room = NoRoom,
               row.origin = "proposal" <=> op = "propose",
               row.origin = "priority" <=> op = "priority",
               op = "propose" => row.direction = "reverse",
               row.direction = "reverse" /\ row.status = "new" => op = "propose"
        PROVE  Placement'
    <2> DEFINE x == [op |-> op, checked |-> FALSE, charge |-> charge, row |-> row]
    <2>1. RequestPlaced(x) /\ ~x.checked
      BY <1>1 DEF RequestPlaced, Placements
    <2> HIDE DEF x
    <2> QED BY <1>1, <2>1, PlacedRequestStep DEF x
  <1>2. ASSUME NEW op \in {"transition", "teacherCancel", "unacked"},
               NEW b \in DOMAIN booking, NEW to, NEW by, NEW sub,
               booking[b].status \in ActiveStatuses, to # "new",
               req' = [req EXCEPT ![r] = CasCall(op, b, to, by, sub)],
               UNCHANGED <<booking, slots>>
        PROVE  Placement'
    <2>1. RequestPlaced(CasCall(op, b, to, by, sub))
      BY <1>2 DEF RequestPlaced, CasCall
    <2>2. CasCall(op, b, to, by, sub).op \notin {"create", "assign", "propose", "reschedule"}
      BY DEF CasCall
    <2> QED BY <1>2, <2>1, <2>2, PlacedRequestStep
  <1>3. \A from \in Status, to \in Status : CanTransition(from, to) => from \in ActiveStatuses
    BY DEF CanTransition, BookingTransitions, Status, ActiveStatuses
  <1>4. \A b \in DOMAIN booking : booking[b].status \in Status
    BY DEF TypeOK, Row
  <1>5. CASE BeginCreate(r)
    <2>1. PICK s \in Students, t \in Teachers, w \in Windows, m \in Modes :
            /\ req' = [req EXCEPT ![r] =
                 [op |-> "create", checked |-> FALSE, charge |-> Fee[t],
                  row |-> NewRow(s, t, "student", w, m,
                                 IF t \in FullTime THEN "confirmed" ELSE "new", Fee[t],
                                 IF t \in FullTime THEN "fulltime" ELSE "direct")]]
            /\ UNCHANGED <<booking, slots>>
      BY <1>5 DEF BeginCreate, Call, Take
    <2> DEFINE row == NewRow(s, t, "student", w, m,
                             IF t \in FullTime THEN "confirmed" ELSE "new", Fee[t],
                             IF t \in FullTime THEN "fulltime" ELSE "direct")
    <2>2. /\ row.room = NoRoom /\ row.direction = "student"
          /\ row.origin \notin {"proposal", "priority"}
      BY DEF NewRow
    <2> HIDE DEF row
    <2> QED BY <1>1, <2>1, <2>2 DEF Placements, row
  <1>6. CASE BeginAssign(r)
    <2>0. PICK s \in Students, t \in Teachers, w \in Windows, m \in Modes,
               dir \in {"student", "reverse"} : \E fee \in {0, Fee[t]} :
            /\ ReverseFree /\ dir = "reverse" => fee = 0
            /\ req' = [req EXCEPT ![r] =
                 [op |-> "assign", checked |-> FALSE, charge |-> fee,
                  row |-> NewRow(s, t, dir, w, m, "confirmed", fee, "batch")]]
            /\ UNCHANGED <<booking, slots, money, counters, today>>
      BY <1>6, AssignBegins
    <2>1. PICK fee \in {0, Fee[t]} :
            /\ req' = [req EXCEPT ![r] =
                 [op |-> "assign", checked |-> FALSE, charge |-> fee,
                  row |-> NewRow(s, t, dir, w, m, "confirmed", fee, "batch")]]
            /\ UNCHANGED <<booking, slots>>
      BY <2>0
    <2> DEFINE row == NewRow(s, t, dir, w, m, "confirmed", fee, "batch")
    <2>2. row.room = NoRoom /\ row.status = "confirmed" /\ row.origin = "batch"
      BY DEF NewRow
    <2> HIDE DEF row
    <2> QED BY <1>1, <2>1, <2>2 DEF Placements, row
  <1>7. CASE BeginPropose(r)
    <2>1. PICK s \in Students, t \in Teachers, w \in Windows, m \in Modes : \E fee :
            /\ req' = [req EXCEPT ![r] =
                 [op |-> "propose", checked |-> FALSE, charge |-> 0,
                  row |-> NewRow(s, t, "reverse", w, m, "new", fee, "proposal")]]
            /\ UNCHANGED <<booking, slots>>
      BY <1>7 DEF BeginPropose, Call, Take
    <2>2. PICK fee :
            /\ req' = [req EXCEPT ![r] =
                 [op |-> "propose", checked |-> FALSE, charge |-> 0,
                  row |-> NewRow(s, t, "reverse", w, m, "new", fee, "proposal")]]
            /\ UNCHANGED <<booking, slots>>
      BY <2>1
    <2> DEFINE row == NewRow(s, t, "reverse", w, m, "new", fee, "proposal")
    <2>3. row.room = NoRoom /\ row.direction = "reverse" /\ row.origin = "proposal"
      BY DEF NewRow
    <2> HIDE DEF row
    <2> QED BY <1>1, <2>2, <2>3 DEF Placements, row
  <1>8. CASE BeginRespond(r)
    <2>1. PICK b \in DOMAIN booking, accept \in BOOLEAN :
            /\ booking[b].direction = "reverse" /\ booking[b].status = "new"
            /\ req' = [req EXCEPT ![r] =
                 [op |-> "respond", b |-> b, row |-> booking[b], accept |-> accept]]
            /\ UNCHANGED <<booking, slots>>
      BY <1>8 DEF BeginRespond, Call, Take
    <2> DEFINE x == [op |-> "respond", b |-> b, row |-> booking[b], accept |-> accept]
    <2>2. RequestPlaced(x) /\ x.op = "respond"
      BY <2>1 DEF RequestPlaced, Placement, RowsPlaced
    <2> HIDE DEF x
    <2> QED BY <2>1, <2>2, PlacedRequestStep DEF x
  <1>9. CASE BeginTransition(r)
    <2>1. PICK b \in DOMAIN booking, to \in Status \ {"new"} :
            \E by \in AllowedRoles(to) :
              /\ CanTransition(booking[b].status, to)
              /\ req' = [req EXCEPT ![r] = CasCall("transition", b, to, by, NoTeacher)]
              /\ UNCHANGED <<booking, slots>>
      BY <1>9 DEF BeginTransition, Call, Take
    <2> QED BY <1>2, <1>3, <1>4, <2>1
  <1>10. CASE BeginTeacherCancel(r)
    <2>1. PICK b \in DOMAIN booking : \E sub :
            /\ CanTransition(booking[b].status, "cancelled")
            /\ req' = [req EXCEPT ![r] =
                         CasCall("teacherCancel", b, "cancelled", "staff", sub)]
            /\ UNCHANGED <<booking, slots>>
      BY <1>10 DEF BeginTeacherCancel, Call, Take
    <2>2. "cancelled" \in Status
      BY DEF Status
    <2> QED BY <1>2, <1>3, <1>4, <2>1, <2>2
  <1>11. CASE BeginReschedule(r)
    <2>1. PICK b \in Active, w \in Windows :
            /\ booking[b].direction = "student"
            /\ req' = [req EXCEPT ![r] =
                 [op |-> "reschedule", b |-> b, row |-> booking[b], win |-> w,
                  checked |-> FALSE, old |-> {}]]
            /\ UNCHANGED <<booking, slots>>
      BY <1>11 DEF BeginReschedule, Call, Take
    <2> DEFINE x == [op |-> "reschedule", b |-> b, row |-> booking[b], win |-> w,
                     checked |-> FALSE, old |-> {}]
    <2>2. RequestPlaced(x) /\ ~x.checked
      BY <2>1 DEF RequestPlaced, Placement, RowsPlaced, Ordinary, Active
    <2> HIDE DEF x
    <2> QED BY <2>1, <2>2, PlacedRequestStep DEF x
  <1>12. ASSUME NEW b \in Bookings, BeginUnacked(r, b) PROVE Placement'
    <2>1. b \in DOMAIN booking /\ booking[b].status \in ActiveStatuses
      BY <1>12 DEF BeginUnacked, UnackedRows, ActiveStatuses
    <2>2. /\ req' = [req EXCEPT ![r] = CasCall("unacked", b, "cancelled", "system", NoTeacher)]
          /\ UNCHANGED <<booking, slots>>
      BY <1>12 DEF BeginUnacked, Take
    <2> QED BY <1>2, <2>1, <2>2
  <1> QED BY <1>5, <1>6, <1>7, <1>8, <1>9, <1>10, <1>11, <1>12 DEF Begin

(****************************************************************************)
(* The rechecks.                                                            *)
(****************************************************************************)
\* A recheck under the lock takes a lock nobody holds and finds its window
\* apart from every live booking of the teacher.
LEMMA PlacedCheck ==
    ASSUME TypeOK, Placement, NEW r \in Requests, NEW x, req' = [req EXCEPT ![r] = x],
           UNCHANGED <<booking, slots>>, RequestPlaced(x),
           x.op \in {"create", "assign", "propose", "reschedule"} =>
             /\ LockFree(x.row.teacher, Target(x).date)
             /\ Bookable(x.row.teacher, Target(x))
    PROVE  Placement'
  <1>1. req'[r] = x /\ \A q \in Requests : q # r => req'[q] = req[q]
    BY DEF TypeOK
  <1>2. \A q \in Requests : q # r => (Holds(q)' <=> Holds(q))
    BY <1>1, HoldsWhen, HoldsWhenNext
  <1>3. ASSUME NEW q \in Requests, q # r, Holds(q), Holds(r)',
               req[q].row.teacher = x.row.teacher,
               Target(req[q]).date = Target(x).date
        PROVE  FALSE
    BY <1>1, <1>3, HoldsWhenNext DEF LockFree, Holds
  <1>4. LockExclusive'
    BY <1>1, <1>2, <1>3 DEF Placement, LockExclusive, Target
  <1>5. StillClear'
    <2> SUFFICES ASSUME NEW q \in Requests, Holds(q)', NEW c \in Active',
                        Protected(c)', booking[c].teacher = req'[q].row.teacher
                 PROVE  Apart(booking[c].win, Target(req'[q]))
      BY DEF StillClear, Apart, Target
    <2>1. c \in Active /\ Protected(c)
      BY DEF Active, Protected, Ordinary
    <2>2. CASE q # r
      BY <1>1, <1>2, <2>1, <2>2 DEF Placement, StillClear
    <2>3. CASE q = r
      BY <1>1, <2>1, <2>3, HoldsWhenNext DEF Bookable
    <2> QED BY <2>2, <2>3
  <1>6. \A q \in Requests : RequestPlaced(req[q])'
    BY <1>1 DEF Placement, RequestPlaced, Ordinary
  <1>7. /\ RowsPlaced' /\ SlotsHeld' /\ UniqueSlots' /\ RestBufferUnderLock' /\ RoomExclusive'
    BY DEF Placement, RowsPlaced, SlotsHeld, UniqueSlots, RestBufferUnderLock,
           RoomExclusive, Active, Ordinary, Protected
  <1> QED BY <1>4, <1>5, <1>6, <1>7 DEF Placement

\* The recheck of a new booking under the lock.
LEMMA PlacedCheckPlace ==
    ASSUME TypeOK, Placement, NEW r \in Requests, CheckPlace(r)
    PROVE  Placement'
  <1> DEFINE x == [req[r] EXCEPT !.checked = TRUE]
  <1>1. req[r] \in PlaceReq /\ req[r].op \in Placements
    BY RequestByOp DEF CheckPlace, TypeOK, Placements
  <1>2. x.op = req[r].op /\ x.row = req[r].row
    BY <1>1 DEF PlaceReq
  <1>3. RequestPlaced(req[r])
    BY DEF Placement
  <1>4. /\ req' = [req EXCEPT ![r] = x]
        /\ UNCHANGED <<booking, slots>>
        /\ req[r].op # "priority" => LockFree(req[r].row.teacher, req[r].row.win.date)
        /\ Bookable(req[r].row.teacher, req[r].row.win)
    BY DEF CheckPlace
  <1> HIDE DEF x
  <1>5. RequestPlaced(x)
    BY <1>1, <1>2, <1>3 DEF RequestPlaced, Placements
  <1>6. x.op \in {"create", "assign", "propose", "reschedule"} =>
          /\ LockFree(x.row.teacher, Target(x).date)
          /\ Bookable(x.row.teacher, Target(x))
    BY <1>1, <1>2, <1>4 DEF Target, Placements
  <1> QED BY <1>4, <1>5, <1>6, PlacedCheck

\* The recheck of a move under the lock of the date it goes to.
LEMMA PlacedCheckReschedule ==
    ASSUME TypeOK, Placement, NEW r \in Requests, CheckReschedule(r)
    PROVE  Placement'
  <1> DEFINE x == [req[r] EXCEPT !.checked = TRUE, !.old = SlotsOf(req[r].b)]
  <1>1. req[r] \in MoveReq /\ req[r].op = "reschedule"
    BY RequestByOp DEF CheckReschedule, TypeOK
  <1>2. /\ x.op = "reschedule" /\ x.row = req[r].row /\ x.b = req[r].b
        /\ x.win = req[r].win /\ x.old = SlotsOf(req[r].b)
    BY <1>1 DEF MoveReq
  <1>3. RequestPlaced(req[r])
    BY DEF Placement
  <1>4. /\ req' = [req EXCEPT ![r] = x]
        /\ UNCHANGED <<booking, slots>>
        /\ LockFree(req[r].row.teacher, req[r].win.date)
        /\ Bookable(req[r].row.teacher, req[r].win)
    BY DEF CheckReschedule
  <1> HIDE DEF x
  <1>5. RequestPlaced(x)
    BY <1>1, <1>2, <1>3 DEF RequestPlaced, SlotsOf
  <1> QED BY <1>2, <1>4, <1>5, PlacedCheck DEF Target
(****************************************************************************)
(* The commits.                                                             *)
(****************************************************************************)
\* The lock is given back with the transaction.
LEMMA EndReleases ==
    ASSUME TypeOK, LockExclusive, NEW r \in Requests, End(r)
    PROVE  /\ LockExclusive'
           /\ req'[r] = Idle
           /\ \A q \in Requests : q # r => req'[q] = req[q]
           /\ \A q \in Requests : Holds(q)' => q # r /\ req'[q] = req[q] /\ Holds(q)
  <1>1. req' = [req EXCEPT ![r] = Idle]
    BY DEF End
  <1>2. Idle.op \notin {"create", "assign", "propose", "reschedule"}
    BY DEF Idle
  <1>3. req'[r] = Idle /\ \A q \in Requests : q # r => req'[q] = req[q]
    BY <1>1 DEF TypeOK
  <1> QED BY <1>1, <1>2, <1>3, ReleaseStep

\* Under the lock nobody else is about to take a window of the same teacher
\* and date, so that a window taken is apart from what they will take.
LEMMA OthersElsewhere ==
    ASSUME LockExclusive, NEW q \in Requests, NEW r \in Requests, q # r,
           Holds(q), Holds(r), req[q].row.teacher = req[r].row.teacher
    PROVE  Apart(Target(req[r]), Target(req[q]))
  BY DEF LockExclusive, Apart

\* A new booking: nobody else's window is near it, its slots were free.
LEMMA PlacedCommitPlace ==
    ASSUME TypeOK, Placement, NEW r \in Requests, CommitPlace(r)
    PROVE  Placement'
  <1> DEFINE row == req[r].row
             op  == req[r].op
  <1>1. /\ op \in Placements /\ req[r].checked
        /\ op # "priority" => Holds(r) /\ Target(req[r]) = row.win
        /\ RequestPlaced(req[r])
    BY HoldsWhen DEF CommitPlace, Placements, Target, Placement
  <1>2. PICK b \in Bookings \ DOMAIN booking, rm \in Rooms \cup {NoRoom} :
          /\ op \notin {"create", "assign"} => rm = NoRoom
          /\ row.mode # "offline" => rm = NoRoom
          /\ rm # NoRoom => rm \in FreeRooms(row.win)
          /\ booking' = [x \in DOMAIN booking \cup {b} |->
                           IF x = b THEN [row EXCEPT !.room = rm] ELSE booking[x]]
          /\ ~Clash(SlotRows(b, row.teacher, row.win), slots)
          /\ slots' = slots \cup SlotRows(b, row.teacher, row.win)
    BY NamesAssumption DEF CommitPlace, AssignRoom, FreeRooms
  <1>3. row \in Row
    BY <1>1, RequestByOp DEF TypeOK, Placements, PlaceReq
  <1> DEFINE new == [row EXCEPT !.room = rm]
             fresh == SlotRows(b, row.teacher, row.win)
  <1>4. /\ new.room = rm /\ new.teacher = row.teacher /\ new.win = row.win
        /\ new.mode = row.mode /\ new.direction = row.direction
        /\ new.status = row.status /\ new.origin = row.origin
    BY <1>3 DEF Row
  <1>5. /\ DOMAIN booking' = DOMAIN booking \cup {b}
        /\ booking'[b] = new
        /\ \A c \in DOMAIN booking : c # b /\ booking'[c] = booking[c]
        /\ ~Clash(fresh, slots)
        /\ slots' = slots \cup fresh
    BY <1>2
  <1>6. \A s \in fresh : s.booking = b
    BY DEF SlotRows
  <1> HIDE DEF new
  <1>7. \A c \in Active' : c # b => c \in Active /\ booking'[c] = booking[c]
    BY <1>5 DEF Active
  <1>8. /\ LockExclusive'
        /\ req'[r] = Idle
        /\ \A q \in Requests : q # r => req'[q] = req[q]
        /\ \A q \in Requests : Holds(q)' => q # r /\ req'[q] = req[q] /\ Holds(q)
    BY EndReleases DEF CommitPlace, Placement
  <1>9. RowsPlaced'
    <2>1. /\ new.mode # "offline" => new.room = NoRoom
          /\ new.origin = "proposal" => new.direction = "reverse" /\ new.room = NoRoom
          /\ new.direction = "reverse" /\ new.status = "new" => new.origin = "proposal"
      BY <1>1, <1>2, <1>4 DEF RequestPlaced, Placements
    <2> QED BY <1>5, <2>1 DEF RowsPlaced, Placement
  <1>10. ASSUME NEW q \in Requests PROVE RequestPlaced(req[q])'
    <2>1. CASE q = r
      BY <1>8, <2>1 DEF RequestPlaced, Idle
    <2>2. CASE q # r
      <3>1. req'[q] = req[q] /\ RequestPlaced(req[q])
        BY <1>8, <2>2 DEF Placement
      <3> QED BY <1>5, <3>1 DEF RequestPlaced, Ordinary
    <2> QED BY <2>1, <2>2
  <1>11. SlotsHeld'
    <2> HIDE DEF fresh
    <2> SUFFICES ASSUME NEW c \in Active', Ordinary(c)'
                 PROVE  SlotRows(c, booking'[c].teacher, booking'[c].win) \subseteq slots'
      BY DEF SlotsHeld, SlotRows
    <2>1. CASE c = b
      BY <1>4, <1>5, <2>1 DEF fresh
    <2>2. CASE c # b
      <3>1. c \in Active /\ Ordinary(c) /\ booking'[c] = booking[c]
        BY <1>7, <2>2 DEF Ordinary
      <3> QED BY <1>5, <3>1 DEF Placement, SlotsHeld
    <2> QED BY <2>1, <2>2
  <1>12. UniqueSlots'
    <2> HIDE DEF fresh
    <2> QED BY <1>5, <1>6 DEF Placement, UniqueSlots, Clash
  <1>13. ASSUME Protected(b)'
         PROVE  /\ Holds(r) /\ Target(req[r]) = row.win
                /\ \A c \in Active : /\ Protected(c)
                                     /\ booking[c].teacher = row.teacher
                                     => Apart(booking[c].win, row.win)
    <2>1. op # "priority"
      BY <1>1, <1>4, <1>5, <1>13 DEF Protected, RequestPlaced
    <2> QED BY <1>1, <2>1 DEF Placement, StillClear
  <1>14. StillClear'
    <2> SUFFICES ASSUME NEW q \in Requests, Holds(q)', NEW c \in Active',
                        Protected(c)', booking'[c].teacher = req'[q].row.teacher
                 PROVE  Apart(booking'[c].win, Target(req'[q]))
      BY DEF StillClear, Apart, Target
    <2>1. q # r /\ req'[q] = req[q] /\ Holds(q)
      BY <1>8
    <2>2. CASE c = b
      <3>1. Apart(Target(req[r]), Target(req[q]))
        BY <1>4, <1>5, <1>13, <2>1, <2>2, OthersElsewhere DEF Placement
      <3> QED BY <1>4, <1>5, <1>13, <2>1, <2>2, <3>1
    <2>3. CASE c # b
      <3>1. c \in Active /\ booking'[c] = booking[c] /\ Protected(c)
        BY <1>7, <2>3 DEF Protected, Ordinary
      <3> QED BY <2>1, <3>1 DEF Placement, StillClear
    <2> QED BY <2>2, <2>3
  <1>15. RestBufferUnderLock'
    <2> SUFFICES ASSUME NEW c \in Active', NEW d \in Active', c # d,
                        booking'[c].teacher = booking'[d].teacher,
                        Protected(c)', Protected(d)'
                 PROVE  Apart(booking'[c].win, booking'[d].win)
      BY DEF RestBufferUnderLock, Apart
    <2>1. CASE c # b /\ d # b
      BY <1>7, <2>1 DEF Placement, RestBufferUnderLock, Protected, Ordinary
    <2>2. CASE c = b
      <3>1. d \in Active /\ booking'[d] = booking[d] /\ Protected(d)
        BY <1>7, <2>2 DEF Protected, Ordinary
      <3> QED BY <1>4, <1>5, <1>13, <2>2, <3>1 DEF Apart
    <2>3. CASE d = b
      <3>1. c \in Active /\ booking'[c] = booking[c] /\ Protected(c)
        BY <1>7, <2>3 DEF Protected, Ordinary
      <3> QED BY <1>4, <1>5, <1>13, <2>3, <3>1 DEF Apart
    <2> QED BY <2>1, <2>2, <2>3
  <1>16. RoomExclusive'
    <2> SUFFICES ASSUME NEW c \in Active', NEW d \in Active', c # d,
                        booking'[c].room = booking'[d].room, booking'[c].room # NoRoom
                 PROVE  ~Overlap(booking'[c].win, booking'[d].win)
      BY DEF RoomExclusive, Overlap
    <2>1. CASE c # b /\ d # b
      BY <1>7, <2>1 DEF Placement, RoomExclusive
    <2>2. ASSUME NEW e \in Active', e # b, booking'[e].room = rm, rm # NoRoom
          PROVE  ~Overlap(booking'[e].win, row.win)
      BY <1>2, <1>7, <2>2 DEF FreeRooms
    <2>3. booking'[b].room = rm /\ booking'[b].win = row.win
      BY <1>4, <1>5
    <2>4. CASE c = b
      BY <2>2, <2>3, <2>4 DEF Overlap
    <2>5. CASE d = b
      BY <2>2, <2>3, <2>5
    <2> QED BY <2>1, <2>4, <2>5
  <1> QED BY <1>8, <1>9, <1>10, <1>11, <1>12, <1>14, <1>15, <1>16 DEF Placement
\* A change of status that leaves no booking live it did not find live, but
\* for a proposal, and takes away no slot row of a live booking.
LEMMA PlacedStatusStep ==
    ASSUME TypeOK, Placement, NEW r \in Requests, NEW x, req' = [req EXCEPT ![r] = x],
           x.op \notin {"create", "assign", "propose", "reschedule"}, RequestPlaced(x),
           NEW b \in DOMAIN booking, NEW st, st # "new",
           booking' = [booking EXCEPT ![b].status = st],
           booking[b].status \in ActiveStatuses \/ booking[b].origin = "proposal",
           slots' = slots \/ (slots' = slots \ SlotsOf(b) /\ st \notin ActiveStatuses)
    PROVE  Placement'
  <1>1. /\ LockExclusive'
        /\ \A q \in Requests : Holds(q)' => q # r /\ req'[q] = req[q] /\ Holds(q)
    BY ReleaseStep DEF Placement
  <1>2. /\ DOMAIN booking' = DOMAIN booking
        /\ booking'[b].status = st
        /\ \A c \in DOMAIN booking :
             /\ c # b => booking'[c] = booking[c]
             /\ booking'[c].teacher = booking[c].teacher
             /\ booking'[c].win = booking[c].win
             /\ booking'[c].mode = booking[c].mode
             /\ booking'[c].room = booking[c].room
             /\ booking'[c].direction = booking[c].direction
             /\ booking'[c].origin = booking[c].origin
    BY DEF TypeOK, Row
  <1>3. \A c \in DOMAIN booking : /\ Ordinary(c)' <=> Ordinary(c)
                                  /\ Protected(c)' <=> Protected(c)
    BY <1>2 DEF Ordinary, Protected
  <1>4. booking[b].origin = "proposal" => ~Ordinary(b) /\ booking[b].room = NoRoom
    BY DEF Placement, RowsPlaced, Ordinary
  <1>5. \A c \in Active' : /\ c \in DOMAIN booking
                           /\ c \in Active \/ (~Ordinary(c) /\ booking[c].room = NoRoom)
    BY <1>2, <1>4 DEF Active
  <1>6. RowsPlaced'
    BY <1>2 DEF Placement, RowsPlaced
  <1>7. \A q \in Requests : RequestPlaced(req[q])'
    <2>1. \A q \in Requests : RequestPlaced(req'[q])
      BY DEF Placement, TypeOK
    <2> QED BY <1>2, <1>3, <2>1 DEF RequestPlaced
  <1>8. SlotsHeld'
    <2> SUFFICES ASSUME NEW c \in Active', Ordinary(c)'
                 PROVE  SlotRows(c, booking'[c].teacher, booking'[c].win) \subseteq slots'
      BY DEF SlotsHeld, SlotRows
    <2>1. /\ c \in Active /\ Ordinary(c)
          /\ booking'[c].teacher = booking[c].teacher /\ booking'[c].win = booking[c].win
      BY <1>3, <1>5
    <2>2. SlotRows(c, booking[c].teacher, booking[c].win) \subseteq slots
      BY <2>1 DEF Placement, SlotsHeld
    <2>3. slots' = slots \/ c # b
      BY <1>2 DEF Active
    <2>4. \A s \in SlotRows(c, booking[c].teacher, booking[c].win) : s.booking = c
      BY DEF SlotRows
    <2> QED BY <2>1, <2>2, <2>3, <2>4 DEF SlotsOf
  <1>9. UniqueSlots'
    BY DEF Placement, UniqueSlots
  <1>10. StillClear'
    <2> SUFFICES ASSUME NEW q \in Requests, Holds(q)', NEW c \in Active',
                        Protected(c)', booking'[c].teacher = req'[q].row.teacher
                 PROVE  Apart(booking'[c].win, Target(req'[q]))
      BY DEF StillClear, Apart, Target
    <2>1. /\ c \in Active /\ Protected(c)
          /\ booking'[c].teacher = booking[c].teacher /\ booking'[c].win = booking[c].win
      BY <1>2, <1>3, <1>5 DEF Protected
    <2> QED BY <1>1, <2>1 DEF Placement, StillClear
  <1>11. RestBufferUnderLock'
    <2> SUFFICES ASSUME NEW c \in Active', NEW d \in Active', c # d,
                        booking'[c].teacher = booking'[d].teacher,
                        Protected(c)', Protected(d)'
                 PROVE  Apart(booking'[c].win, booking'[d].win)
      BY DEF RestBufferUnderLock, Apart
    <2>1. c \in Active /\ d \in Active /\ Protected(c) /\ Protected(d)
      BY <1>3, <1>5 DEF Protected
    <2>2. c \in DOMAIN booking /\ d \in DOMAIN booking
      BY <1>5
    <2> QED BY <1>2, <2>1, <2>2 DEF Placement, RestBufferUnderLock
  <1>12. RoomExclusive'
    <2> SUFFICES ASSUME NEW c \in Active', NEW d \in Active', c # d,
                        booking'[c].room = booking'[d].room, booking'[c].room # NoRoom
                 PROVE  ~Overlap(booking'[c].win, booking'[d].win)
      BY DEF RoomExclusive, Overlap
    <2>1. /\ c \in Active /\ d \in Active
          /\ c \in DOMAIN booking /\ d \in DOMAIN booking
      BY <1>2, <1>5
    <2> QED BY <1>2, <2>1 DEF Placement, RoomExclusive
  <1> QED BY <1>1, <1>6, <1>7, <1>8, <1>9, <1>10, <1>11, <1>12 DEF Placement

\* A conditional change finds the booking as live as it was read.
LEMMA PlacedCommitCas ==
    ASSUME TypeOK, Placement, NEW r \in Requests, CommitCas(r)
    PROVE  Placement'
  <1>1. req[r].op \in {"transition", "teacherCancel", "unacked"} /\ RequestPlaced(req[r])
    BY DEF CommitCas, Placement
  <1>2. /\ req[r].b \in DOMAIN booking
        /\ booking[req[r].b].status \in ActiveStatuses
        /\ req[r].to # "new"
    BY <1>1 DEF RequestPlaced, CommitCas, StillAsRead
  <1>3. /\ booking' = [booking EXCEPT ![req[r].b].status = req[r].to]
        /\ slots' = IF req[r].to \in {"cancelled", "rejected"}
                    THEN slots \ SlotsOf(req[r].b) ELSE slots
        /\ req' = [req EXCEPT ![r] = AfterCas(r)]
    BY DEF CommitCas
  <1>4. /\ AfterCas(r).op \notin {"create", "assign", "propose", "reschedule"}
        /\ RequestPlaced(AfterCas(r))
    <2>1. CASE req[r].sub = NoTeacher
      BY <2>1 DEF AfterCas, Idle, RequestPlaced
    <2>2. CASE req[r].sub # NoTeacher
      BY <2>2 DEF AfterCas, NewRow, RequestPlaced
    <2> QED BY <2>1, <2>2
  <1>5. \/ slots' = slots
        \/ slots' = slots \ SlotsOf(req[r].b) /\ req[r].to \notin ActiveStatuses
    BY <1>3 DEF ActiveStatuses
  <1> QED BY <1>2, <1>3, <1>4, <1>5, PlacedStatusStep

\* An answer, which may bring a closed booking back, only meets proposals.
LEMMA PlacedCommitRespond ==
    ASSUME TypeOK, Placement, NEW r \in Requests, CommitRespond(r)
    PROVE  Placement'
  <1>1. req[r].b \in DOMAIN booking /\ booking[req[r].b].origin = "proposal"
    BY DEF CommitRespond, Placement, RequestPlaced
  <1>2. req' = [req EXCEPT ![r] = Idle]
    BY DEF CommitRespond, End
  <1>3. /\ Idle.op \notin {"create", "assign", "propose", "reschedule"}
        /\ RequestPlaced(Idle)
    BY DEF Idle, RequestPlaced
  <1>4. CASE req[r].accept
    <2>1. booking' = [booking EXCEPT ![req[r].b].status = "confirmed"] /\ slots' = slots
      BY <1>4 DEF CommitRespond
    <2> QED BY <1>1, <1>2, <1>3, <2>1, PlacedStatusStep
  <1>5. CASE ~req[r].accept
    <2>1. /\ booking' = [booking EXCEPT ![req[r].b].status = "rejected"]
          /\ slots' = slots \ SlotsOf(req[r].b)
          /\ "rejected" \notin ActiveStatuses
      BY <1>5 DEF CommitRespond, ActiveStatuses
    <2> QED BY <1>1, <1>2, <1>3, <2>1, PlacedStatusStep
  <1> QED BY <1>4, <1>5

\* A move: the window is still clear, the booking gets the new slots and at
\* most its own old ones go.
LEMMA PlacedCommitReschedule ==
    ASSUME TypeOK, Placement, NEW r \in Requests, CommitReschedule(r)
    PROVE  Placement'
  <1> DEFINE b == req[r].b
             row == req[r].row
             w == req[r].win
             old == req[r].old
             fresh == SlotRows(b, row.teacher, w)
  <1>1. /\ req[r].op = "reschedule"
        /\ Holds(r) /\ Target(req[r]) = w
        /\ RequestPlaced(req[r])
    BY HoldsWhen DEF CommitReschedule, Target, Placement
  <1>2. /\ b \in DOMAIN booking
        /\ Ordinary(b)
        /\ row.teacher = booking[b].teacher
        /\ row.mode = booking[b].mode
        /\ row.mode # "offline" => row.room = NoRoom
        /\ \A s \in old : s.booking = b
    BY <1>1 DEF RequestPlaced
  <1>3. PICK rm :
          /\ row.mode # "offline" => rm = NoRoom
          /\ rm # NoRoom => rm \in FreeRooms(w)
          /\ booking' = [booking EXCEPT ![b].win = w, ![b].room = rm, ![b].status = "new"]
    <2>1. PICK rm \in (IF row.mode = "offline" THEN FreeRooms(w) ELSE {row.room}) :
            booking' = [booking EXCEPT ![b].win = w, ![b].room = rm, ![b].status = "new"]
      BY DEF CommitReschedule
    <2>2. CASE row.mode = "offline"
      BY <2>1, <2>2
    <2>3. CASE row.mode # "offline"
      <3>1. rm = NoRoom
        BY <1>2, <2>1, <2>3
      <3> QED BY <2>1, <2>3, <3>1
    <2> QED BY <2>2, <2>3
  <1>4. ~Clash(fresh, slots \ old) /\ slots' = (slots \ old) \cup fresh
    BY DEF CommitReschedule, MovedSlots
  <1>5. \A s \in fresh : s.booking = b
    BY DEF SlotRows
  <1> HIDE DEF fresh
  <1>6. /\ DOMAIN booking' = DOMAIN booking
        /\ \A c \in DOMAIN booking : c # b => booking'[c] = booking[c]
        /\ booking'[b].win = w /\ booking'[b].room = rm /\ booking'[b].status = "new"
        /\ booking'[b].teacher = booking[b].teacher
        /\ booking'[b].mode = booking[b].mode
        /\ booking'[b].direction = booking[b].direction
        /\ booking'[b].origin = booking[b].origin
    <2> DEFINE new == [booking[b] EXCEPT !.win = w, !.room = rm, !.status = "new"]
    <2>1. booking' = [booking EXCEPT ![b] = new]
      BY <1>3 DEF TypeOK
    <2>2. /\ new.win = w /\ new.room = rm /\ new.status = "new"
          /\ new.teacher = booking[b].teacher /\ new.mode = booking[b].mode
          /\ new.direction = booking[b].direction /\ new.origin = booking[b].origin
      BY <1>2 DEF TypeOK, Row
    <2> HIDE DEF new
    <2> QED BY <1>2, <2>1, <2>2 DEF TypeOK
  <1>7. \A c \in Active' : c # b => c \in Active /\ booking'[c] = booking[c]
    BY <1>6 DEF Active
  <1>8. \A c \in DOMAIN booking : /\ Ordinary(c)' <=> Ordinary(c)
                                  /\ Protected(c)' <=> Protected(c)
    BY <1>6 DEF Ordinary, Protected
  <1>9. /\ LockExclusive'
        /\ req'[r] = Idle
        /\ \A q \in Requests : q # r => req'[q] = req[q]
        /\ \A q \in Requests : Holds(q)' => q # r /\ req'[q] = req[q] /\ Holds(q)
    BY EndReleases DEF CommitReschedule, Placement
  <1>10. RowsPlaced'
    <2>1. booking[b].origin # "proposal" /\ booking[b].direction # "reverse"
      BY <1>2 DEF Placement, RowsPlaced, Ordinary
    <2> QED BY <1>2, <1>3, <1>6, <2>1 DEF Placement, RowsPlaced
  <1>11. ASSUME NEW q \in Requests PROVE RequestPlaced(req[q])'
    <2>1. CASE q = r
      BY <1>9, <2>1 DEF RequestPlaced, Idle
    <2>2. CASE q # r
      <3>1. req'[q] = req[q] /\ RequestPlaced(req[q])
        BY <1>9, <2>2 DEF Placement
      <3>2. \A c \in DOMAIN booking : /\ booking'[c].teacher = booking[c].teacher
                                      /\ booking'[c].mode = booking[c].mode
                                      /\ booking'[c].origin = booking[c].origin
        BY <1>6
      <3> QED BY <1>6, <1>8, <3>1, <3>2 DEF RequestPlaced
    <2> QED BY <2>1, <2>2
  <1>12. SlotsHeld'
    <2> SUFFICES ASSUME NEW c \in Active', Ordinary(c)'
                 PROVE  SlotRows(c, booking'[c].teacher, booking'[c].win) \subseteq slots'
      BY DEF SlotsHeld, SlotRows
    <2>1. CASE c = b
      BY <1>2, <1>4, <1>6, <2>1 DEF fresh
    <2>2. CASE c # b
      <3>1. c \in Active /\ Ordinary(c) /\ booking'[c] = booking[c]
        BY <1>7, <2>2 DEF Ordinary
      <3>2. SlotRows(c, booking[c].teacher, booking[c].win) \subseteq slots
        BY <3>1 DEF Placement, SlotsHeld
      <3>3. \A s \in SlotRows(c, booking[c].teacher, booking[c].win) : s.booking = c
        BY DEF SlotRows
      <3> QED BY <1>2, <1>4, <2>2, <3>1, <3>2, <3>3
    <2> QED BY <2>1, <2>2
  <1>13. UniqueSlots'
    <2>1. \A x \in slots' : x \in slots \ old \/ x \in fresh
      BY <1>4
    <2>2. \A x \in fresh, y \in slots \ old :
            ~(x.teacher = y.teacher /\ x.date = y.date /\ x.index = y.index)
      BY <1>4 DEF Clash
    <2> HIDE DEF old
    <2> QED BY <1>5, <2>1, <2>2 DEF Placement, UniqueSlots
  <1>14. StillClear'
    <2> SUFFICES ASSUME NEW q \in Requests, Holds(q)', NEW c \in Active',
                        Protected(c)', booking'[c].teacher = req'[q].row.teacher
                 PROVE  Apart(booking'[c].win, Target(req'[q]))
      BY DEF StillClear, Apart, Target
    <2>1. q # r /\ req'[q] = req[q] /\ Holds(q)
      BY <1>9
    <2>2. CASE c = b
      <3>1. Apart(Target(req[r]), Target(req[q]))
        BY <1>1, <1>2, <1>6, <2>1, <2>2, OthersElsewhere DEF Placement
      <3> QED BY <1>1, <1>6, <2>1, <2>2, <3>1
    <2>3. CASE c # b
      <3>1. c \in Active /\ booking'[c] = booking[c] /\ Protected(c)
        BY <1>7, <2>3 DEF Protected, Ordinary
      <3> QED BY <2>1, <3>1 DEF Placement, StillClear
    <2> QED BY <2>2, <2>3
  <1>15. RestBufferUnderLock'
    <2>1. ASSUME NEW c \in Active', c # b, Protected(c)',
                 booking'[c].teacher = booking[b].teacher
          PROVE  Apart(booking'[c].win, w)
      <3>1. c \in Active /\ booking'[c] = booking[c] /\ Protected(c)
        BY <1>7, <2>1 DEF Protected, Ordinary
      <3> QED BY <1>1, <1>2, <2>1, <3>1 DEF Placement, StillClear
    <2> SUFFICES ASSUME NEW c \in Active', NEW d \in Active', c # d,
                        booking'[c].teacher = booking'[d].teacher,
                        Protected(c)', Protected(d)'
                 PROVE  Apart(booking'[c].win, booking'[d].win)
      BY DEF RestBufferUnderLock, Apart
    <2>2. CASE c # b /\ d # b
      BY <1>7, <2>2 DEF Placement, RestBufferUnderLock, Protected, Ordinary
    <2>3. CASE c = b
      BY <1>6, <2>1, <2>3 DEF Apart
    <2>4. CASE d = b
      BY <1>6, <2>1, <2>4
    <2> QED BY <2>2, <2>3, <2>4
  <1>16. RoomExclusive'
    <2>1. ASSUME NEW c \in Active', c # b, booking'[c].room = rm, rm # NoRoom
          PROVE  ~Overlap(booking'[c].win, w)
      BY <1>3, <1>7, <2>1 DEF FreeRooms
    <2> SUFFICES ASSUME NEW c \in Active', NEW d \in Active', c # d,
                        booking'[c].room = booking'[d].room, booking'[c].room # NoRoom
                 PROVE  ~Overlap(booking'[c].win, booking'[d].win)
      BY DEF RoomExclusive, Overlap
    <2>2. CASE c # b /\ d # b
      BY <1>7, <2>2 DEF Placement, RoomExclusive
    <2>3. CASE c = b
      BY <1>6, <2>1, <2>3 DEF Overlap
    <2>4. CASE d = b
      BY <1>6, <2>1, <2>4
    <2> QED BY <2>2, <2>3, <2>4
  <1> QED BY <1>9, <1>10, <1>11, <1>12, <1>13, <1>14, <1>15, <1>16 DEF Placement
\* An acknowledgement is of no concern to the calendar.
LEMMA PlacedAck ==
    ASSUME TypeOK, Placement, NEW b \in DOMAIN booking, AckByTeacher(b)
    PROVE  Placement'
  <1>1. /\ DOMAIN booking' = DOMAIN booking
        /\ \A c \in DOMAIN booking :
             /\ booking'[c].status = booking[c].status
             /\ booking'[c].teacher = booking[c].teacher
             /\ booking'[c].win = booking[c].win
             /\ booking'[c].mode = booking[c].mode
             /\ booking'[c].room = booking[c].room
             /\ booking'[c].direction = booking[c].direction
             /\ booking'[c].origin = booking[c].origin
        /\ UNCHANGED <<slots, req>>
    BY DEF AckByTeacher, TypeOK, Row
  <1>2. /\ Active' = Active
        /\ \A c \in DOMAIN booking : /\ Ordinary(c)' <=> Ordinary(c)
                                     /\ Protected(c)' <=> Protected(c)
    BY <1>1 DEF Active, Ordinary, Protected
  <1>3. \A c \in Active : c \in DOMAIN booking
    BY DEF Active
  <1>4. \A q \in Requests : Holds(q)' <=> Holds(q)
    BY <1>1, HoldsWhen, HoldsWhenNext
  <1>5. RowsPlaced' /\ UniqueSlots'
    BY <1>1 DEF Placement, RowsPlaced, UniqueSlots
  <1>6. \A q \in Requests : RequestPlaced(req[q])'
    BY <1>1, <1>2 DEF Placement, RequestPlaced
  <1>7. SlotsHeld'
    BY <1>1, <1>2, <1>3 DEF Placement, SlotsHeld, SlotRows
  <1>8. LockExclusive'
    BY <1>1, <1>4 DEF Placement, LockExclusive, Target
  <1>9. StillClear'
    BY <1>1, <1>2, <1>3, <1>4 DEF Placement, StillClear, Target, Apart
  <1>10. RestBufferUnderLock' /\ RoomExclusive'
    BY <1>1, <1>2, <1>3 DEF Placement, RestBufferUnderLock, RoomExclusive, Apart, Overlap
  <1> QED BY <1>5, <1>6, <1>7, <1>8, <1>9, <1>10 DEF Placement

\* Overlapping windows share a slot, and the index admits only one of them.
LEMMA IndexExcludes ==
    ASSUME TypeOK, SlotsHeld, UniqueSlots
    PROVE  NoDoubleBooking
  <1> SUFFICES ASSUME NEW b \in Active, NEW c \in Active, b # c,
                      booking[b].teacher = booking[c].teacher,
                      Ordinary(b), Ordinary(c),
                      Overlap(booking[b].win, booking[c].win)
               PROVE  FALSE
    BY DEF NoDoubleBooking
  <1> DEFINE t == booking[b].teacher
             v == booking[b].win
             w == booking[c].win
             i == IF v.start < w.start THEN w.start ELSE v.start
             row(d) == [teacher |-> t, date |-> v.date, index |-> i, booking |-> d]
  <1>1. v \in Windows /\ w \in Windows
    BY DEF TypeOK, Active, Row
  <1>2. /\ v.start \in Nat /\ v.end \in Nat /\ w.start \in Nat /\ w.end \in Nat
        /\ v.start < v.end /\ w.start < w.end
        /\ v.date = w.date /\ v.start < w.end /\ w.start < v.end
    BY <1>1, WindowsAssumption DEF Overlap
  <1>3. i \in v.start .. v.end - 1 /\ i \in w.start .. w.end - 1
    <2> HIDE DEF v, w
    <2> QED BY <1>2
  <1>4. row(b) \in SlotRows(b, t, v) /\ row(c) \in SlotRows(c, t, w)
    <2> HIDE DEF i, v, w, t
    <2> QED BY <1>2, <1>3 DEF SlotRows
  <1>5. row(b) \in slots /\ row(c) \in slots
    <2> HIDE DEF row, i
    <2> QED BY <1>4 DEF SlotsHeld
  <1> QED BY <1>5 DEF UniqueSlots

(****************************************************************************)
(* The theorems.                                                            *)
(****************************************************************************)
\* The calendar of the center is kept by create, createAssigned,
\* proposeReverse, respondReverse, transition, reschedule, cancelWithReason,
\* the reassignment and the sweep, however their transactions interleave: each
\* lock has one holder, what it found free stays free until it commits, live
\* ordinary bookings hold their slot rows, and no slot has two bookings.
THEOREM PlacementHolds == Spec => []Placement
  <1>1. Init => Placement
    BY DEF Init, Placement, RowsPlaced, RequestPlaced, Idle, SlotsHeld, UniqueSlots,
           LockExclusive, StillClear, RestBufferUnderLock, RoomExclusive, Active,
           Holds, LockedBy
  <1>2. TypeOK /\ Placement /\ [Next]_vars => Placement'
    <2> SUFFICES ASSUME TypeOK, Placement, [Next]_vars PROVE Placement'
      OBVIOUS
    <2>1. ASSUME NEW r \in Requests, Begin(r) PROVE Placement'
      BY <2>1, PlacedBegin
    <2>2. ASSUME NEW r \in Requests, End(r), UNCHANGED <<booking, slots>> PROVE Placement'
      <3>1. /\ Idle.op \notin {"create", "assign", "propose", "reschedule"}
            /\ RequestPlaced(Idle)
        BY DEF Idle, RequestPlaced
      <3> QED BY <2>2, <3>1, PlacedRequestStep DEF End
    <2>3. ASSUME NEW r \in Requests, Work(r) PROVE Placement'
      <3>1. CASE ShortPlace(r) \/ ShortRespond(r)
        BY <2>2, <3>1 DEF ShortPlace, ShortRespond
      <3> QED BY <2>3, <3>1, PlacedCheckPlace, PlacedCommitPlace, PlacedCommitRespond,
                 PlacedCommitCas, PlacedCheckReschedule, PlacedCommitReschedule DEF Work
    <2>4. ASSUME NEW r \in Requests, Abort(r) PROVE Placement'
      BY <2>2, <2>4 DEF Abort
    <2>5. ASSUME NEW b \in DOMAIN booking, AckByTeacher(b) PROVE Placement'
      BY <2>5, PlacedAck
    <2>6. ASSUME UNCHANGED <<booking, slots, req>> PROVE Placement'
      BY <2>6 DEF Placement, RowsPlaced, RequestPlaced, SlotsHeld, UniqueSlots,
                  LockExclusive, StillClear, RestBufferUnderLock, RoomExclusive, Active,
                  Holds, LockedBy, Target, Ordinary, Protected, SlotRows, Apart, Overlap
    <2>7. CASE NextDay \/ UNCHANGED vars
      BY <2>6, <2>7 DEF NextDay, vars
    <2> QED BY <2>1, <2>3, <2>4, <2>5, <2>7 DEF Next
  <1> QED BY <1>1, <1>2, TypeCorrect, PTL DEF Spec

\* No double booking, whatever overlaps: a live ordinary booking has the rows
\* the unique index of time_slot guards.
THEOREM NoDoubleBookingHolds == Spec => []NoDoubleBooking
  <1>1. TypeOK /\ Placement => NoDoubleBooking
    BY IndexExcludes DEF Placement
  <1> QED BY <1>1, TypeCorrect, PlacementHolds, PTL

\* The rest buffer between the bookings placed under the lock, whatever else
\* happens without it.
THEOREM RestBufferHolds == Spec => []RestBufferUnderLock
  <1>1. Placement => RestBufferUnderLock
    BY DEF Placement
  <1> QED BY <1>1, PlacementHolds, PTL

\* A room has one live session at a time.
THEOREM RoomExclusiveHolds == Spec => []RoomExclusive
  <1>1. Placement => RoomExclusive
    BY DEF Placement
  <1> QED BY <1>1, PlacementHolds, PTL

(****************************************************************************)
(* The limit on concurrent zoom consultations.                              *)
(****************************************************************************)
\* The live zoom consultations, among those whose placement checks the limit,
\* that are going on when w starts.
ZoomAt(w) ==
    {b \in Active :
        /\ booking[b].mode = "zoom"
        /\ Protected(b)
        /\ booking[b].win.date = w.date
        /\ booking[b].win.start <= w.start /\ w.start < booking[b].win.end}

ZoomInv == IsFiniteSet(DOMAIN booking) /\ \A w \in Windows : Cardinality(ZoomAt(w)) <= ZoomLimit

\* A step after which no moment has a consultation it did not have before.
LEMMA ZoomFewer ==
    ASSUME TypeOK, ZoomInv, IsFiniteSet(DOMAIN booking'),
           \A w \in Windows : ZoomAt(w)' \subseteq ZoomAt(w)
    PROVE  ZoomInv'
  <1> SUFFICES ASSUME NEW w \in Windows PROVE Cardinality(ZoomAt(w)') <= ZoomLimit
    BY DEF ZoomInv
  <1>1. ZoomAt(w) \subseteq DOMAIN booking
    BY DEF ZoomAt, Active
  <1>2. IsFiniteSet(ZoomAt(w))
    BY <1>1, FS_Subset DEF ZoomInv
  <1>3. IsFiniteSet(ZoomAt(w)') /\ Cardinality(ZoomAt(w)') <= Cardinality(ZoomAt(w))
    BY <1>2, FS_Subset
  <1>4. Cardinality(ZoomAt(w)) <= ZoomLimit
    BY DEF ZoomInv
  <1>5. Cardinality(ZoomAt(w)) \in Nat /\ Cardinality(ZoomAt(w)') \in Nat
    BY <1>2, <1>3, FS_CardinalityType
  <1> QED BY <1>3, <1>4, <1>5, NumbersAssumption

\* A consultation that takes a window while the limit is not reached in it:
\* all the others going on at a moment of the window overlap it.
LEMMA ZoomOneMore ==
    ASSUME TypeOK, ZoomInv, NEW b \in Bookings, NEW v \in Windows,
           b \in DOMAIN booking', IsFiniteSet(DOMAIN booking'), booking'[b].win = v,
           b \in Active' /\ booking'[b].mode = "zoom" /\ Protected(b)' => ~ZoomFull(v),
           \A c \in Active' : c # b => c \in Active /\ booking'[c] = booking[c]
    PROVE  ZoomInv'
  <1> SUFFICES ASSUME NEW w \in Windows PROVE Cardinality(ZoomAt(w)') <= ZoomLimit
    BY DEF ZoomInv
  <1> DEFINE near == {c \in Active : booking[c].mode = "zoom" /\ Overlap(booking[c].win, v)}
  <1>1. \A c \in ZoomAt(w)' : c # b => c \in ZoomAt(w)
    BY DEF ZoomAt, Protected, Ordinary
  <1>2. ZoomAt(w) \subseteq DOMAIN booking /\ near \subseteq DOMAIN booking
    BY DEF ZoomAt, Active
  <1>3. IsFiniteSet(ZoomAt(w)) /\ IsFiniteSet(near)
    BY <1>2, FS_Subset DEF ZoomInv
  <1>4. Cardinality(ZoomAt(w)) \in Nat /\ Cardinality(near) \in Nat
    BY <1>3, FS_CardinalityType
  <1>5. CASE b \notin ZoomAt(w)'
    <2>1. ZoomAt(w)' \subseteq ZoomAt(w)
      BY <1>1, <1>5
    <2>2. IsFiniteSet(ZoomAt(w)') /\ Cardinality(ZoomAt(w)') <= Cardinality(ZoomAt(w))
      BY <1>3, <2>1, FS_Subset
    <2>3. Cardinality(ZoomAt(w)') \in Nat
      BY <2>2, FS_CardinalityType
    <2>4. Cardinality(ZoomAt(w)) <= ZoomLimit
      BY DEF ZoomInv
    <2> QED BY <1>4, <2>2, <2>3, <2>4, NumbersAssumption
  <1>6. CASE b \in ZoomAt(w)'
    <2>1. /\ ~ZoomFull(v)
          /\ v.date = w.date /\ v.start <= w.start /\ w.start < v.end
      BY <1>6 DEF ZoomAt
    <2>2. Cardinality(near) < ZoomLimit
      BY <1>4, <2>1, NumbersAssumption DEF ZoomFull
    <2>3. ASSUME NEW c \in ZoomAt(w) PROVE c \in near
      <3>1. /\ c \in Active /\ booking[c].mode = "zoom"
            /\ booking[c].win.date = w.date
            /\ booking[c].win.start <= w.start /\ w.start < booking[c].win.end
        BY DEF ZoomAt
      <3>2. booking[c].win \in Windows
        BY <3>1 DEF Active, TypeOK, Row
      <3>3. Overlap(booking[c].win, v)
        <4> DEFINE u == booking[c].win
        <4>1. /\ u.start \in Nat /\ u.end \in Nat /\ v.start \in Nat /\ v.end \in Nat
              /\ w.start \in Nat
          BY <3>2, WindowsAssumption
        <4> HIDE DEF u
        <4>2. u.start < v.end /\ v.start < u.end /\ u.date = v.date
          BY <2>1, <3>1, <4>1 DEF u
        <4> QED BY <4>2 DEF Overlap, u
      <3> QED BY <3>1, <3>3
    <2>4. ZoomAt(w)' \subseteq near \cup {b}
      BY <1>1, <2>3
    <2> HIDE DEF near
    <2>5. /\ IsFiniteSet(near \cup {b})
          /\ Cardinality(near \cup {b}) <= Cardinality(near) + 1
      <3>1. /\ IsFiniteSet(near \cup {b})
            /\ \/ Cardinality(near \cup {b}) = Cardinality(near)
               \/ Cardinality(near \cup {b}) = Cardinality(near) + 1
        BY <1>3, FS_AddElement
      <3> QED BY <1>4, <3>1
    <2>6. /\ IsFiniteSet(ZoomAt(w)')
          /\ Cardinality(ZoomAt(w)') <= Cardinality(near \cup {b})
      BY <2>4, <2>5, FS_Subset
    <2>7. Cardinality(ZoomAt(w)') \in Nat /\ Cardinality(near \cup {b}) \in Nat
      BY <2>5, <2>6, FS_CardinalityType
    <2> QED BY <1>4, <2>2, <2>5, <2>6, <2>7, NumbersAssumption
  <1> QED BY <1>5, <1>6

\* A new booking: the limit was looked at, or it is a reassignment.
LEMMA ZoomCommitPlace ==
    ASSUME TypeOK, Placement, ZoomInv, NEW r \in Requests, CommitPlace(r)
    PROVE  ZoomInv'
  <1> DEFINE row == req[r].row
             op  == req[r].op
  <1>1. op \in Placements /\ RequestPlaced(req[r])
    BY DEF CommitPlace, Placements, Placement
  <1>2. row \in Row
    BY <1>1, RequestByOp DEF TypeOK, Placements, PlaceReq
  <1>3. PICK b \in Bookings \ DOMAIN booking, rm \in Rooms \cup {NoRoom} :
          booking' = [x \in DOMAIN booking \cup {b} |->
                        IF x = b THEN [row EXCEPT !.room = rm] ELSE booking[x]]
    BY DEF CommitPlace, AssignRoom, FreeRooms
  <1>4. op # "priority" /\ row.mode = "zoom" => ~ZoomFull(row.win)
    BY DEF CommitPlace
  <1> DEFINE new == [row EXCEPT !.room = rm]
  <1>5. /\ new.win = row.win /\ new.mode = row.mode /\ new.origin = row.origin
        /\ row.win \in Windows
    BY <1>2 DEF Row
  <1>6. /\ DOMAIN booking' = DOMAIN booking \cup {b}
        /\ booking'[b] = new
        /\ \A c \in DOMAIN booking : c # b /\ booking'[c] = booking[c]
    BY <1>3
  <1> HIDE DEF new
  <1>7. \A c \in Active' : c # b => c \in Active /\ booking'[c] = booking[c]
    BY <1>6 DEF Active
  <1>8. IsFiniteSet(DOMAIN booking')
    BY <1>6, FS_AddElement DEF ZoomInv
  <1>9. Protected(b)' => op # "priority"
    BY <1>1, <1>5, <1>6 DEF Protected, RequestPlaced
  <1>10. booking'[b].win = row.win /\ booking'[b].mode = row.mode
    BY <1>5, <1>6
  <1>11. /\ b \in Bookings /\ b \in DOMAIN booking'
         /\ b \in Active' /\ booking'[b].mode = "zoom" /\ Protected(b)' => ~ZoomFull(row.win)
    BY <1>4, <1>6, <1>9, <1>10
  <1> QED BY <1>5, <1>7, <1>8, <1>10, <1>11, ZoomOneMore

\* A change of status makes no booking live that the limit counts.
LEMMA ZoomStatusStep ==
    ASSUME TypeOK, Placement, ZoomInv, NEW b \in DOMAIN booking, NEW st,
           booking' = [booking EXCEPT ![b].status = st],
           booking[b].status \in ActiveStatuses \/ booking[b].origin = "proposal"
    PROVE  ZoomInv'
  <1>1. /\ DOMAIN booking' = DOMAIN booking
        /\ \A c \in DOMAIN booking :
             /\ c # b => booking'[c] = booking[c]
             /\ booking'[c].win = booking[c].win
             /\ booking'[c].mode = booking[c].mode
             /\ booking'[c].direction = booking[c].direction
             /\ booking'[c].origin = booking[c].origin
    BY DEF TypeOK, Row
  <1>2. \A c \in DOMAIN booking : Protected(c)' <=> Protected(c)
    BY <1>1 DEF Protected, Ordinary
  <1>3. booking[b].origin = "proposal" => ~Protected(b)
    BY DEF Placement, RowsPlaced, Ordinary, Protected
  <1>4. \A c \in Active' : c \in DOMAIN booking /\ (c \in Active \/ ~Protected(c))
    BY <1>1, <1>3 DEF Active
  <1>5. \A w \in Windows : ZoomAt(w)' \subseteq ZoomAt(w)
    BY <1>1, <1>2, <1>4 DEF ZoomAt
  <1> QED BY <1>1, <1>5, ZoomFewer DEF ZoomInv

\* A move looks at the limit in its new window; the request knows the mode of
\* its booking, which no operation changes.
LEMMA ZoomCommitReschedule ==
    ASSUME TypeOK, Placement, ZoomInv, NEW r \in Requests, CommitReschedule(r)
    PROVE  ZoomInv'
  <1>0. PICK b, w : b = req[r].b /\ w = req[r].win
    OBVIOUS
  <1>1. b \in DOMAIN booking /\ req[r].row.mode = booking[b].mode
    BY <1>0 DEF CommitReschedule, Placement, RequestPlaced
  <1>2. w \in Windows
    BY <1>0, RequestByOp DEF CommitReschedule, TypeOK, MoveReq
  <1>3. PICK rm : booking' = [booking EXCEPT ![b].win = w, ![b].room = rm, ![b].status = "new"]
    BY <1>0 DEF CommitReschedule
  <1>4. booking[b].mode = "zoom" => ~ZoomFull(w)
    BY <1>0, <1>1 DEF CommitReschedule
  <1>5. /\ DOMAIN booking' = DOMAIN booking
        /\ \A c \in DOMAIN booking : c # b => booking'[c] = booking[c]
        /\ booking'[b].win = w
        /\ booking'[b].mode = booking[b].mode
    <2> DEFINE new == [booking[b] EXCEPT !.win = w, !.room = rm, !.status = "new"]
    <2>1. booking' = [booking EXCEPT ![b] = new]
      BY <1>3 DEF TypeOK
    <2>2. new.win = w /\ new.mode = booking[b].mode
      BY <1>1 DEF TypeOK, Row
    <2> HIDE DEF new
    <2> QED BY <1>1, <2>1, <2>2 DEF TypeOK
  <1>6. \A c \in Active' : c # b => c \in Active /\ booking'[c] = booking[c]
    BY <1>5 DEF Active
  <1>7. /\ b \in Bookings /\ b \in DOMAIN booking'
        /\ IsFiniteSet(DOMAIN booking')
        /\ b \in Active' /\ booking'[b].mode = "zoom" /\ Protected(b)' => ~ZoomFull(w)
    BY <1>1, <1>4, <1>5 DEF TypeOK, ZoomInv
  <1> QED BY <1>2, <1>5, <1>6, <1>7, ZoomOneMore

\* At no moment are more live zoom consultations scheduled than the limit, of
\* those whose placement checks it, whatever creations, assignments, moves,
\* answers and closings overlap (assertZoomCapacity in booking.service.ts):
\* all of a moment's consultations but the last one placed overlap the last
\* one's window, so they were counted when it was placed.
THEOREM ZoomLimitHolds == Spec => []ZoomWithinLimit
  <1>1. Init => ZoomInv
    <2> SUFFICES ASSUME Init PROVE ZoomInv
      OBVIOUS
    <2>1. DOMAIN booking = {} /\ IsFiniteSet(DOMAIN booking)
      BY FS_EmptySet DEF Init
    <2>2. \A w \in Windows : ZoomAt(w) = {}
      BY <2>1 DEF ZoomAt, Active
    <2>3. Cardinality({}) <= ZoomLimit
      BY FS_EmptySet, NumbersAssumption
    <2> QED BY <2>1, <2>2, <2>3 DEF ZoomInv
  <1>2. TypeOK /\ Placement /\ ZoomInv /\ [Next]_vars => ZoomInv'
    <2> SUFFICES ASSUME TypeOK, Placement, ZoomInv, [Next]_vars PROVE ZoomInv'
      OBVIOUS
    <2>1. ASSUME booking' = booking PROVE ZoomInv'
      BY <2>1 DEF ZoomInv, ZoomAt, Active, Protected, Ordinary
    <2>2. ASSUME NEW r \in Requests, Begin(r) PROVE booking' = booking
      BY <2>2 DEF Begin, BeginCreate, BeginAssign, BeginPropose, BeginRespond,
                  BeginTransition, BeginTeacherCancel, BeginReschedule, BeginUnacked
    <2>3. ASSUME NEW r \in Requests, CommitRespond(r) PROVE ZoomInv'
      <3>1. req[r].b \in DOMAIN booking /\ booking[req[r].b].origin = "proposal"
        BY <2>3 DEF CommitRespond, Placement, RequestPlaced
      <3>2. PICK st : booking' = [booking EXCEPT ![req[r].b].status = st]
        BY <2>3 DEF CommitRespond
      <3> QED BY <3>1, <3>2, ZoomStatusStep
    <2>4. ASSUME NEW r \in Requests, CommitCas(r) PROVE ZoomInv'
      <3>1. /\ req[r].b \in DOMAIN booking
            /\ booking[req[r].b].status \in ActiveStatuses
            /\ booking' = [booking EXCEPT ![req[r].b].status = req[r].to]
        BY <2>4 DEF CommitCas, StillAsRead, Placement, RequestPlaced
      <3> QED BY <3>1, ZoomStatusStep
    <2>5. ASSUME NEW r \in Requests, Work(r) PROVE ZoomInv'
      <3>1. CASE CheckPlace(r) \/ ShortPlace(r) \/ ShortRespond(r) \/ CheckReschedule(r)
        BY <2>1, <3>1 DEF CheckPlace, ShortPlace, ShortRespond, CheckReschedule
      <3> QED BY <2>3, <2>4, <2>5, <3>1, ZoomCommitPlace, ZoomCommitReschedule DEF Work
    <2>6. ASSUME NEW b \in DOMAIN booking, AckByTeacher(b) PROVE ZoomInv'
      <3>1. /\ DOMAIN booking' = DOMAIN booking
            /\ \A c \in DOMAIN booking :
                 /\ booking'[c].status = booking[c].status
                 /\ booking'[c].win = booking[c].win
                 /\ booking'[c].mode = booking[c].mode
                 /\ booking'[c].direction = booking[c].direction
                 /\ booking'[c].origin = booking[c].origin
        BY <2>6 DEF AckByTeacher, TypeOK, Row
      <3>2. Active' = Active /\ \A c \in DOMAIN booking : Protected(c)' <=> Protected(c)
        BY <3>1 DEF Active, Protected, Ordinary
      <3>3. \A w \in Windows : ZoomAt(w)' \subseteq ZoomAt(w)
        BY <3>1, <3>2 DEF ZoomAt, Active
      <3> QED BY <3>1, <3>3, ZoomFewer DEF ZoomInv
    <2>7. CASE \E r \in Requests : Abort(r)
      BY <2>1, <2>7 DEF Abort
    <2>8. CASE NextDay \/ UNCHANGED vars
      BY <2>1, <2>8 DEF NextDay, vars
    <2> QED BY <2>1, <2>2, <2>5, <2>6, <2>7, <2>8 DEF Next
  <1>3. ZoomInv => ZoomWithinLimit
    BY DEF ZoomInv, ZoomAt, ZoomWithinLimit
  <1> QED BY <1>1, <1>2, <1>3, TypeCorrect, PlacementHolds, PTL DEF Spec
=============================================================================
