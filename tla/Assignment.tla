------------------------------ MODULE Assignment ------------------------------
(****************************************************************************)
(* Automatic assignment.  Four protocols book a consultation through        *)
(* createAssigned and remember it in a row of their own, in a second write: *)
(* a waiting auto_assign_request and the answer block of a question (both   *)
(* in runFill), the consultation a student makes of a question (escalate)   *)
(* and the first consultation of a student who had none (runReverseScan,    *)
(* whose memory is the booking itself).  Booking models createAssigned; here*)
(* it takes a free window or is refused.                                    *)
(****************************************************************************)
EXTENDS Integers, FiniteSets

CONSTANTS
    AutoRequests,   \* auto_assign_request rows of one student and consultation type
    Blocks,         \* open questions that belong to a full-time teacher
    Escalations,    \* answered questions of students
    Newcomers,      \* students without a consultation
    Windows,        \* free runs of slots in the calendars
    Passes,         \* runs of the two jobs, by cron or by an administrator
    Clients,        \* requests of students
    FillPeriod,     \* time between two firings of the fill job ...
    FillTTL,        \* ... and the life of its lock
    MaxTime         \* bound

Items == AutoRequests \cup Blocks \cup Escalations \cup Newcomers
Unlinked == "no booking"

ASSUME AssignmentAssumption ==
    /\ {FillPeriod, FillTTL, MaxTime} \subseteq Nat \ {0}
    /\ Unlinked \notin Windows
    /\ AutoRequests \cap (Blocks \cup Escalations \cup Newcomers) = {}   \* rows of tables
    /\ Blocks \cap (Escalations \cup Newcomers) = {}                     \* of their own
    /\ Escalations \cap Newcomers = {}

VARIABLES
    request,    \* auto_assign_request.status
    linked,     \* the booking an item's row names, as its window
    placed,     \* bookings made: <<item, window>>
    pass,       \* what each run is doing
    client,     \* what each student's request is doing
    fillLock,   \* when the cron lock expires
    clock,
    contested,  \* history: items two runs held, or two requests, without a lock to stop it
    orphaned    \* history: items whose run died between the booking and the link

assignmentVars == <<request, linked, placed, pass, client, fillLock, clock, contested, orphaned>>

AtRest == [at |-> "rest", left |-> {}]

AssignmentInit ==
    /\ request = [r \in AutoRequests |-> "absent"]
    /\ linked = [i \in Items |-> Unlinked]
    /\ placed = {}
    /\ pass = [p \in Passes |-> AtRest]
    /\ client = [c \in Clients |-> AtRest]
    /\ fillLock = 0 /\ clock = 0
    /\ contested = {} /\ orphaned = {}

BookingsOf(i) == {b \in placed : b[1] = i}
Windowless == {w \in Windows : \A b \in placed : b[2] # w}

(****************************************************************************)
(* The student: ask to be assigned, take it back, escalate a question.      *)
(****************************************************************************)
ReadDuplicate(c) ==
    /\ client[c] = AtRest
    /\ \A r \in AutoRequests : request[r] # "waiting"
    /\ client' = [client EXCEPT ![c] = [at |-> "create", left |-> {}]]
    /\ UNCHANGED <<request, linked, placed, pass, fillLock, clock, contested, orphaned>>

RequestAutoAssign(c, r) ==
    /\ client[c].at = "create"
    /\ request[r] = "absent"
    /\ request' = [request EXCEPT ![r] = "waiting"]
    /\ client' = [client EXCEPT ![c] = AtRest]
    /\ UNCHANGED <<linked, placed, pass, fillLock, clock, contested, orphaned>>

ReadCancelRequest(c, r) ==
    /\ client[c] = AtRest
    /\ request[r] = "waiting"
    /\ client' = [client EXCEPT ![c] = [at |-> "cancel", left |-> {}, of |-> r]]
    /\ UNCHANGED <<request, linked, placed, pass, fillLock, clock, contested, orphaned>>

\* By id: a request assigned in between becomes a cancelled one that has a booking.
CancelRequest(c) ==
    /\ client[c].at = "cancel"
    /\ request' = [request EXCEPT ![client[c].of] = "cancelled"]
    /\ client' = [client EXCEPT ![c] = AtRest]
    /\ UNCHANGED <<linked, placed, pass, fillLock, clock, contested, orphaned>>

HeldByClients(c) == UNION {client[d].left : d \in Clients \ {c}}

\* escalate: a question that already has its consultation books nothing.
NotEscalated(q) == linked[q] = Unlinked

ReadEscalation(c, q) ==
    /\ client[c] = AtRest
    /\ NotEscalated(q)
    /\ client' = [client EXCEPT ![c] = [at |-> "book", left |-> {q}]]
    /\ contested' = contested \cup ({q} \cap HeldByClients(c))
    /\ UNCHANGED <<request, linked, placed, pass, fillLock, clock, orphaned>>

EscalationRefused(c) ==
    /\ client[c].at = "book"
    /\ client' = [client EXCEPT ![c] = AtRest]
    /\ UNCHANGED <<request, linked, placed, pass, fillLock, clock, contested, orphaned>>

BookEscalation(c, w) ==
    /\ client[c].at = "book"
    /\ w \in Windowless
    /\ \E q \in client[c].left : placed' = placed \cup {<<q, w>>}
    /\ client' = [client EXCEPT ![c] = [at |-> "link", left |-> @.left, window |-> w]]
    /\ UNCHANGED <<request, linked, pass, fillLock, clock, contested, orphaned>>

LinkEscalation(c) ==
    /\ client[c].at = "link"
    /\ linked' = [i \in Items |-> IF i \in client[c].left THEN client[c].window ELSE linked[i]]
    /\ client' = [client EXCEPT ![c] = AtRest]
    /\ UNCHANGED <<request, placed, pass, fillLock, clock, contested, orphaned>>

ClientDies(c) ==
    /\ client[c] # AtRest
    /\ orphaned' = IF client[c].at = "link" THEN orphaned \cup client[c].left ELSE orphaned
    /\ client' = [client EXCEPT ![c] = AtRest]
    /\ UNCHANGED <<request, linked, placed, pass, fillLock, clock, contested>>

(****************************************************************************)
(* runFill: list the waiting requests, place them, list the questions, place*)
(* them.  Started by cron under withCronLock, which is never released, or by*)
(* an administrator without it.                                             *)
(****************************************************************************)
Waiting == {r \in AutoRequests : request[r] = "waiting"}

Unscheduled == {q \in Blocks : linked[q] = Unlinked}

\* What other runs hold, of another firing or started by hand.
HeldElsewhere(p, manual, since) ==
    UNION {pass[o].left : o \in {o \in Passes \ {p} :
              pass[o] # AtRest /\ (manual \/ pass[o].manual \/ pass[o].since # since)}}

Lists(p, job, manual, since, items) ==
    /\ pass' = [pass EXCEPT ![p] =
           [at |-> "next", job |-> job, manual |-> manual, since |-> since, left |-> items]]
    /\ contested' = contested \cup (items \cap HeldElsewhere(p, manual, since))

\* Mutant: every instance runs the job.
Elected_Always == TRUE
\* acquireLock: SET NX with a TTL.
Elected == fillLock <= clock

ScheduledFill(p) ==
    /\ pass[p] = AtRest
    /\ clock % FillPeriod = 0
    /\ Elected
    /\ fillLock' = clock + FillTTL
    /\ Lists(p, "requests", FALSE, clock, Waiting)
    /\ UNCHANGED <<request, linked, placed, client, clock, orphaned>>

ManualFill(p) ==
    /\ pass[p] = AtRest
    /\ Lists(p, "requests", TRUE, 0, Waiting)
    /\ UNCHANGED <<request, linked, placed, client, fillLock, clock, orphaned>>

ListBlocks(p) ==
    /\ pass[p].at = "next" /\ pass[p].job = "requests"
    /\ pass[p].left = {}
    /\ Lists(p, "blocks", pass[p].manual, pass[p].since, Unscheduled)
    /\ UNCHANGED <<request, linked, placed, client, fillLock, clock, orphaned>>

EndPass(p) ==
    /\ pass[p].at = "next" /\ pass[p].job # "requests"
    /\ pass[p].left = {}
    /\ pass' = [pass EXCEPT ![p] = AtRest]
    /\ UNCHANGED <<request, linked, placed, client, fillLock, clock, contested, orphaned>>

\* Every day and teacher is tried; no window, no credits: the item waits on.
NotPlaced(p, i) ==
    /\ pass[p].at = "next"
    /\ i \in pass[p].left
    /\ pass' = [pass EXCEPT ![p].left = @ \ {i}]
    /\ UNCHANGED <<request, linked, placed, client, fillLock, clock, contested, orphaned>>

Place(p, i, w) ==
    /\ pass[p].at = "next" /\ pass[p].job # "reverse"
    /\ i \in pass[p].left
    /\ w \in Windowless
    /\ placed' = placed \cup {<<i, w>>}
    /\ pass' = [pass EXCEPT ![p] =
           [at |-> "link", job |-> @.job, manual |-> @.manual, since |-> @.since,
            left |-> @.left, item |-> i, window |-> w]]
    /\ UNCHANGED <<request, linked, client, fillLock, clock, contested, orphaned>>

LinkPlaced(p) ==
    /\ pass[p].at = "link"
    /\ LET i == pass[p].item
       IN /\ linked' = [linked EXCEPT ![i] = pass[p].window]
          /\ request' = IF i \in AutoRequests THEN [request EXCEPT ![i] = "assigned"]
                                              ELSE request
          /\ pass' = [pass EXCEPT ![p] =
                 [at |-> "next", job |-> @.job, manual |-> @.manual, since |-> @.since,
                  left |-> @.left \ {i}]]
    /\ UNCHANGED <<placed, client, fillLock, clock, contested, orphaned>>

(****************************************************************************)
(* runReverseScan, by hand or by its own cron lock: one run of it at a time *)
(* unless an administrator starts another.                                  *)
(****************************************************************************)
ReverseScan(p) ==
    /\ pass[p] = AtRest
    /\ Lists(p, "reverse", TRUE, 0, Newcomers)
    /\ UNCHANGED <<request, linked, placed, client, fillLock, clock, orphaned>>

HadNone(s) == BookingsOf(s) = {}

CheckPrior(p, s) ==
    /\ pass[p].at = "next" /\ pass[p].job = "reverse"
    /\ s \in pass[p].left
    /\ HadNone(s)
    /\ pass' = [pass EXCEPT ![p] =
           [at |-> "reverse", job |-> @.job, manual |-> @.manual, since |-> @.since,
            left |-> @.left, item |-> s]]
    /\ UNCHANGED <<request, linked, placed, client, fillLock, clock, contested, orphaned>>

PlaceReverse(p, w) ==
    /\ pass[p].at = "reverse"
    /\ w \in Windowless
    /\ LET s == pass[p].item
       IN /\ placed' = placed \cup {<<s, w>>}
          /\ linked' = [linked EXCEPT ![s] = w]
          /\ pass' = [pass EXCEPT ![p] =
                 [at |-> "next", job |-> @.job, manual |-> @.manual, since |-> @.since,
                  left |-> @.left \ {s}]]
    /\ UNCHANGED <<request, client, fillLock, clock, contested, orphaned>>

PassDiesBooking(p) ==
    /\ pass[p] # AtRest
    /\ orphaned' = IF pass[p].at = "link" THEN orphaned \cup {pass[p].item} ELSE orphaned
    /\ pass' = [pass EXCEPT ![p] = AtRest]
    /\ UNCHANGED <<request, linked, placed, client, fillLock, clock, contested>>

Tick ==
    /\ clock < MaxTime
    /\ clock' = clock + 1
    /\ UNCHANGED <<request, linked, placed, pass, client, fillLock, contested, orphaned>>

PassGoesOn(p) == EndPass(p) \/ PassDiesBooking(p) \/ (\E i \in Items : NotPlaced(p, i))

FillNext ==
    \/ Tick
    \/ \E c \in Clients :
          \/ ReadDuplicate(c) \/ CancelRequest(c)
          \/ \E r \in AutoRequests : RequestAutoAssign(c, r) \/ ReadCancelRequest(c, r)
    \/ \E p \in Passes :
          \/ ScheduledFill(p) \/ ManualFill(p) \/ ListBlocks(p) \/ LinkPlaced(p)
          \/ PassGoesOn(p)
          \/ \E i \in Items, w \in Windows : Place(p, i, w)

EscalateNext ==
    \E c \in Clients :
        \/ EscalationRefused(c) \/ LinkEscalation(c) \/ ClientDies(c)
        \/ \E q \in Escalations : ReadEscalation(c, q)
        \/ \E w \in Windows : BookEscalation(c, w)

ReverseNext ==
    \E p \in Passes :
        \/ ReverseScan(p) \/ PassGoesOn(p)
        \/ \E s \in Newcomers : CheckPrior(p, s)
        \/ \E w \in Windows : PlaceReverse(p, w)

AssignmentNext == FillNext \/ EscalateNext \/ ReverseNext

AssignmentSpec == AssignmentInit /\ [][AssignmentNext]_assignmentVars

(****************************************************************************)
(* Properties.                                                              *)
(****************************************************************************)
BeingLinked == {pass[p].item : p \in {p \in Passes : pass[p].at = "link"}}
    \cup UNION {client[c].left : c \in {c \in Clients : client[c].at = "link"}}

\* A request, a question and a newcomer get at most one consultation, and the row
\* names it, although cron fires on every instance, passes die and students cancel
\* and click twice.  Two ways out remain, and these are the only ones: runs without
\* a lock between them held the item at once (by hand, or one that outlived its
\* firing), or a run died after it booked and before it wrote the row.
BookedOnce ==
    \A i \in Items \ (contested \cup orphaned) :
        /\ Cardinality(BookingsOf(i)) <= 1
        /\ linked[i] # Unlinked => <<i, linked[i]>> \in placed
        /\ BookingsOf(i) # {} => linked[i] # Unlinked \/ i \in BeingLinked
=============================================================================
