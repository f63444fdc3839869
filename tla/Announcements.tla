----------------------------- MODULE Announcements -----------------------------
(****************************************************************************)
(* scheduled_announcement: written by staff, cancelled or sent.  A job runs *)
(* every minute under a lock of 55 seconds, so a slow run meets the next;   *)
(* each row is claimed before anything is sent for it.                      *)
(****************************************************************************)
EXTENDS Integers, FiniteSets

CONSTANTS
    Announcements,
    Audience,      \* approved accounts of the target roles
    TickRuns,      \* runs of the job in flight
    Cancellers     \* requests to cancel in flight

VARIABLES
    row,         \* scheduled_announcement: status, reminder_sent, sent_count
    due,         \* announcements whose time has come
    tickRun,     \* what each run is doing
    canceller,   \* what each cancellation is doing
    heard,       \* history: how often each account got each announcement
    foretold,    \* history: reminders sent to the author
    cutShort     \* history: announcements whose run died while sending

announcementVars == <<row, due, tickRun, canceller, heard, foretold, cutShort>>

Unstarted == [at |-> "none", left |-> {}]
Uncounted == -1

AnnouncementsInit ==
    /\ row = [n \in Announcements |-> [status |-> "absent", reminder |-> FALSE, count |-> Uncounted]]
    /\ due = {}
    /\ tickRun = [r \in TickRuns |-> Unstarted]
    /\ canceller = [c \in Cancellers |-> Unstarted]
    /\ heard = [n \in Announcements |-> [a \in Audience |-> 0]]
    /\ foretold = [n \in Announcements |-> 0]
    /\ cutShort = {}

Runs(r, record) == tickRun' = [tickRun EXCEPT ![r] = record]

\* create, with a time in the future.
Schedule(n) ==
    /\ row[n].status = "absent"
    /\ row' = [row EXCEPT ![n].status = "pending"]
    /\ UNCHANGED <<due, tickRun, canceller, heard, foretold, cutShort>>

ComesDue(n) ==
    /\ row[n].status # "absent" /\ n \notin due
    /\ due' = due \cup {n}
    /\ UNCHANGED <<row, tickRun, canceller, heard, foretold, cutShort>>

\* Mutant: claimed by id.
StillPendingRow_ById(n) == TRUE
\* updateMany where status = pending, in the job and in the cancellation.
StillPendingRow(n) == row[n].status = "pending"

(****************************************************************************)
(* cancelScheduled.                                                         *)
(****************************************************************************)
ReadCancel(c, n) ==
    /\ canceller[c] = Unstarted
    /\ row[n].status # "absent"
    /\ canceller' = [canceller EXCEPT ![c] = [at |-> "cancel", left |-> {n}]]
    /\ UNCHANGED <<row, due, tickRun, heard, foretold, cutShort>>

CancelScheduled(c) ==
    /\ canceller[c].at = "cancel"
    /\ row' = [n \in Announcements |->
           IF n \in canceller[c].left /\ StillPendingRow(n)
           THEN [row[n] EXCEPT !.status = "cancelled"] ELSE row[n]]
    /\ canceller' = [canceller EXCEPT ![c] = Unstarted]
    /\ UNCHANGED <<due, tickRun, heard, foretold, cutShort>>

(****************************************************************************)
(* scheduledTick: runReminders, then runDue.                                *)
(****************************************************************************)
Unreminded(n) == ~row[n].reminder

\* All those of the next day; any that is not due yet may be one of them.
ListReminders(r) ==
    /\ tickRun[r] = Unstarted
    /\ Runs(r, [at |-> "remind", left |->
           {n \in Announcements \ due : StillPendingRow(n) /\ Unreminded(n)}])
    /\ UNCHANGED <<row, due, canceller, heard, foretold, cutShort>>

\* The claim asks for reminder_sent only, not for the status again.
ClaimReminder(r, n) ==
    /\ tickRun[r].at = "remind" /\ n \in tickRun[r].left
    /\ row' = [row EXCEPT ![n].reminder = TRUE]
    /\ Runs(r, IF Unreminded(n) THEN [at |-> "notify", left |-> tickRun[r].left, of |-> n]
                                ELSE [tickRun[r] EXCEPT !.left = @ \ {n}])
    /\ UNCHANGED <<due, canceller, heard, foretold, cutShort>>

NotifyAuthor(r) ==
    /\ tickRun[r].at = "notify"
    /\ foretold' = [foretold EXCEPT ![tickRun[r].of] = @ + 1]
    /\ Runs(r, [at |-> "remind", left |-> tickRun[r].left \ {tickRun[r].of}])
    /\ UNCHANGED <<row, due, canceller, heard, cutShort>>

ListDueRows(r) ==
    /\ tickRun[r].at = "remind" /\ tickRun[r].left = {}
    /\ Runs(r, [at |-> "due", left |-> {n \in due : StillPendingRow(n)}])
    /\ UNCHANGED <<row, due, canceller, heard, foretold, cutShort>>

ClaimDue(r, n) ==
    /\ tickRun[r].at = "due" /\ n \in tickRun[r].left
    /\ IF StillPendingRow(n)
       THEN /\ row' = [row EXCEPT ![n].status = "sent"]
            /\ Runs(r, [at |-> "dispatch", left |-> tickRun[r].left, of |-> n, to |-> Audience])
       ELSE /\ Runs(r, [tickRun[r] EXCEPT !.left = @ \ {n}])
            /\ UNCHANGED row
    /\ UNCHANGED <<due, canceller, heard, foretold, cutShort>>

Dispatch(r, a) ==
    /\ tickRun[r].at = "dispatch" /\ a \in tickRun[r].to
    /\ heard' = [heard EXCEPT ![tickRun[r].of][a] = @ + 1]
    /\ Runs(r, [tickRun[r] EXCEPT !.to = @ \ {a}])
    /\ UNCHANGED <<row, due, canceller, foretold, cutShort>>

WriteCount(r) ==
    /\ tickRun[r].at = "dispatch" /\ tickRun[r].to = {}
    /\ row' = [row EXCEPT ![tickRun[r].of].count = Cardinality(Audience)]
    /\ Runs(r, [at |-> "due", left |-> tickRun[r].left \ {tickRun[r].of}])
    /\ UNCHANGED <<due, canceller, heard, foretold, cutShort>>

EndTick(r) ==
    /\ tickRun[r].at = "due" /\ tickRun[r].left = {}
    /\ Runs(r, Unstarted)
    /\ UNCHANGED <<row, due, canceller, heard, foretold, cutShort>>

TickDies(r) ==
    /\ tickRun[r] # Unstarted
    /\ cutShort' = IF tickRun[r].at = "dispatch" THEN cutShort \cup {tickRun[r].of} ELSE cutShort
    /\ Runs(r, Unstarted)
    /\ UNCHANGED <<row, due, canceller, heard, foretold>>

AnnouncementsNext ==
    \/ \E n \in Announcements : Schedule(n) \/ ComesDue(n)
    \/ \E c \in Cancellers :
          CancelScheduled(c) \/ (\E n \in Announcements : ReadCancel(c, n))
    \/ \E r \in TickRuns :
          \/ ListReminders(r) \/ NotifyAuthor(r) \/ ListDueRows(r)
          \/ WriteCount(r) \/ EndTick(r) \/ TickDies(r)
          \/ \E n \in Announcements : ClaimReminder(r, n) \/ ClaimDue(r, n)
          \/ \E a \in Audience : Dispatch(r, a)

AnnouncementsSpec == AnnouncementsInit /\ [][AnnouncementsNext]_announcementVars

(****************************************************************************)
(* Properties.                                                              *)
(****************************************************************************)
Sending(n) == \E r \in TickRuns : tickRun[r].at = "dispatch" /\ tickRun[r].of = n

\* Runs that meet, and cancellations that meet them: nobody hears an announcement
\* twice or hears a cancelled one, its author is told of it in advance at most once,
\* and one marked as sent has reached everybody, or a run is sending it, or the run
\* that sent it died (what is left of it is never sent).
HeardOnce ==
    \A n \in Announcements :
        /\ foretold[n] <= 1
        /\ \A a \in Audience : heard[n][a] <= (IF row[n].status = "sent" THEN 1 ELSE 0)
        /\ row[n].status = "sent" /\ ~Sending(n) /\ n \notin cutShort =>
              /\ row[n].count = Cardinality(Audience)
              /\ \A a \in Audience : heard[n][a] = 1
=============================================================================
