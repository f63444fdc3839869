---------------------------- MODULE Availability ----------------------------
(****************************************************************************)
(* The working calendar of one teacher: the schedule row with its weekly    *)
(* template, the plan of the week and the leaves; the free slots computed   *)
(* from it, the student's stay, blocked times and the sessions in place; and*)
(* the sessions that are booked after a check against them.  Booking models *)
(* how checks and inserts overlap: here a session is placed in one step.    *)
(* Edits of the schedule read the row and write it later.                   *)
(*                                                                          *)
(* Minutes are counted in half slots through all days, the first at 0.      *)
(****************************************************************************)
EXTENDS Integers, FiniteSets, FiniteSetsExt

CONSTANTS
    MaxDate,      \* days 1 .. MaxDate, all of one week
    DayLength,    \* midnight to midnight
    SlotMin,      \* SLOT_GRANULARITY_MINUTES
    BufferMin,    \* REST_BUFFER_MINUTES
    HalfDay,      \* where the half-day leave begins (13:00)
    Templates,    \* recurring_template: per day a set of intervals
    WeekPlans,    \* week_plans: the same for the days it overrides
    StayTime,     \* stay_time of the student, per day
    BlockedTime,  \* blocked_time of the center, per day
    Edits,        \* edits of the schedule under way
    MaxPlaced     \* bound: sessions in place

Dates == 1 .. MaxDate
Intervals == {i \in [start : 0 .. DayLength, end : 0 .. DayLength] : i.start < i.end}

ASSUME CalendarAssumption ==
    /\ MaxDate \in Nat /\ DayLength \in Nat /\ SlotMin \in Nat \ {0} /\ BufferMin \in Nat
    /\ DayLength % SlotMin = 0 /\ BufferMin <= SlotMin \* 1440, 10 and 10 in the code
    /\ HalfDay \in Nat /\ MaxPlaced \in Nat
    /\ Templates \subseteq [Dates -> SUBSET Intervals]
    /\ \A p \in WeekPlans : \A d \in DOMAIN p : p[d] \subseteq Intervals
    /\ StayTime \in [Dates -> SUBSET Intervals] /\ BlockedTime \in [Dates -> SUBSET Intervals]

VARIABLES
    schedule,   \* work_schedule: template, plan, leave of each date
    sessions,   \* live bookings: windows [start, end) through all days
    edit,       \* what each edit has read
    meant,      \* history: the schedule as the edits that were answered left it
    putBack     \* history: an edit wrote over what another had written since it read

availabilityVars == <<schedule, sessions, edit, meant, putBack>>

AtEase == [at |-> "free"]

Overlaps(a, b) == a.start < b.end /\ b.start < a.end
Inside(a, b) == b.start <= a.start /\ a.end <= b.end
Slot(s) == [start |-> s, end |-> s + SlotMin]

\* Mutant: the rest after a session is forgotten.
BufferZones_OnlyBefore(booked) == {[start |-> b.start - BufferMin, end |-> b.start] : b \in booked}

BufferZones(booked) ==
    {[start |-> b.start - BufferMin, end |-> b.start] : b \in booked}
        \cup {[start |-> b.end, end |-> b.end + BufferMin] : b \in booked}

\* buildSlotInput: the plan overrides days of the template, a leave takes the day
\* or what reaches into the afternoon.
Work(d) ==
    LET of == IF d \in DOMAIN schedule.plan THEN schedule.plan[d] ELSE schedule.template[d]
    IN CASE schedule.leave[d] = "none" -> of
         [] schedule.leave[d] = "half" -> {w \in of : w.end <= HalfDay}
         [] schedule.leave[d] = "day" -> {}

\* loadDayOccupancy: what overlaps the day, in its minutes and cut to it.
Midnight(d) == (d - 1) * DayLength
InDay(d, x) == Max({0, Min({DayLength, x - Midnight(d)})})
Occupancy(d) ==
    {[start |-> InDay(d, b.start), end |-> InDay(d, b.end)] :
        b \in {b \in sessions : b.start < Midnight(d) + DayLength /\ b.end > Midnight(d)}}

\* buildDaySlots: the slots from one minute to another, and which of them are free.
SlotStarts(from, to) == {s \in from .. (to - 1) : (s - from) % SlotMin = 0}
Avail(d, s) ==
    /\ \A b \in Occupancy(d) \cup BufferZones(Occupancy(d)) \cup BlockedTime[d] : ~Overlaps(b, Slot(s))
    /\ \E w \in Work(d) : Inside(Slot(s), w)
    /\ \E w \in StayTime[d] : Inside(Slot(s), w)

\* isRangeBookable, bookableReason
RangeBookable(d, start, end) == start < end /\ \A s \in SlotStarts(start, end) : Avail(d, s)

\* getDaySlots: the indices of the free slots, from the first minute of work to the last.
DaySlots(d) ==
    IF Work(d) = {} THEN {}
    ELSE LET first == Min({w.start : w \in Work(d)})
             last == Max({w.end : w \in Work(d)})
         IN {s \div SlotMin : s \in {s \in SlotStarts(first, last) : Avail(d, s)}}

AvailabilityInit ==
    /\ schedule \in [template : Templates, plan : {[d \in {} |-> {}]},
                     leave : {[d \in Dates |-> "none"]}]
    /\ sessions = {}
    /\ edit = [e \in Edits |-> AtEase]
    /\ meant = schedule
    /\ putBack = FALSE

----------------------------------------------------------------------------

\* A session is placed by slot numbers, after the check.
PlaceSession(d, from, to) ==
    /\ RangeBookable(d, from * SlotMin, to * SlotMin)
    /\ Cardinality(sessions) < MaxPlaced
    /\ sessions' = sessions \cup {[start |-> Midnight(d) + from * SlotMin,
                                   end |-> Midnight(d) + to * SlotMin]}
    /\ UNCHANGED <<schedule, edit, meant, putBack>>

CloseSession(b) ==
    /\ b \in sessions
    /\ sessions' = sessions \ {b}
    /\ UNCHANGED <<schedule, edit, meant, putBack>>

\* putWorkSchedule, addLeave and removeLeave read the row.
ReadSchedule(e) ==
    /\ edit[e] = AtEase
    /\ edit' = [edit EXCEPT ![e] = [at |-> "edits", read |-> schedule]]
    /\ UNCHANGED <<schedule, sessions, meant, putBack>>

\* What an edit writes, what it was asked for, and the columns it repeats from its read.
Write(e, new, wanted, repeated) ==
    /\ edit[e].at = "edits"
    /\ schedule' = new
    /\ meant' = wanted
    /\ putBack' = (putBack \/ \E c \in repeated : edit[e].read[c] # schedule[c])
    /\ edit' = [edit EXCEPT ![e] = AtEase]
    /\ UNCHANGED sessions

\* putWorkSchedule: a new template; leaves and plan as they were read.
PutWorkSchedule(e, t) ==
    Write(e, [edit[e].read EXCEPT !.template = t], [meant EXCEPT !.template = t],
          {"plan", "leave"})

\* addLeave and removeLeave: the leaves that were read, with the one of a date changed.
ChangeLeave(e, d, kind) ==
    Write(e, [schedule EXCEPT !.leave = [edit[e].read.leave EXCEPT ![d] = kind]],
          [meant EXCEPT !.leave[d] = kind], {"leave"})

\* saveWeekPlans: the plan alone.
SaveWeekPlans(e, p) ==
    Write(e, [schedule EXCEPT !.plan = p], [meant EXCEPT !.plan = p], {})

PlacingNext ==
    \/ \E d \in Dates, from, to \in 0 .. (DayLength \div SlotMin) : PlaceSession(d, from, to)
    \/ \E b \in sessions : CloseSession(b)

EditNext ==
    \E e \in Edits :
        \/ ReadSchedule(e)
        \/ \E t \in Templates : PutWorkSchedule(e, t)
        \/ \E d \in Dates, kind \in {"none", "half", "day"} : ChangeLeave(e, d, kind)
        \/ \E p \in WeekPlans : SaveWeekPlans(e, p)

AvailabilityNext == PlacingNext \/ EditNext

AvailabilitySpec == AvailabilityInit /\ [][AvailabilityNext]_availabilityVars

----------------------------------------------------------------------------

\* Sessions of the teacher have the rest between them, whatever template, plan or
\* leave each was checked against; only two that meet at midnight may touch.
RestBetween ==
    \A a, b \in sessions :
        \/ a = b
        \/ a.end + BufferMin <= b.start \/ b.end + BufferMin <= a.start
        \/ \E d \in Dates : {a.end, b.start} = {Midnight(d)} \/ {b.end, a.start} = {Midnight(d)}

\* A slot that the student is shown as free can be booked, where the work begins
\* on the grid: the screen and the check of a booking cut the day in the same way.
ShownIsBookable ==
    \A d \in Dates :
        (\A w \in Work(d) : w.start % SlotMin = 0) =>
            \A i \in DaySlots(d) : RangeBookable(d, i * SlotMin, (i + 1) * SlotMin)

\* Saving the template, the plan or a leave keeps the other two (as the comment at
\* availability.service.ts:385 says), but for edits that were under way together.
EditsKept == schedule = meant \/ putBack

\* The three together: what students and teachers may expect of the calendar.
CalendarIsKept == RestBetween /\ ShownIsBookable /\ EditsKept
=============================================================================
