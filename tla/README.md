# Verification of the mentoring platform (janus-platform)

TLA+ models of `src/apps/api`, the NestJS/Prisma/Postgres service behind the
tutoring platform: bookings and the students' credit accounts in full detail, and
around them every component that has a protocol of its own - money, questions,
recordings, messages, assignments, quotas, calendars, people, chat. TLC checks
small instances; TLAPS proves nearly everything they check for every value of
the constants. Paths without a prefix are under `src/apps/api/src/modules/`.

## 1. The system

Students book sessions with teachers in slots of ten minutes and pay in credits.
Credits come from a weekly (or monthly) grant that expires, or are bought. A
booking may be asked for by the student, proposed by the teacher ("reverse"), or
made by a batch. HTTP handlers, socket handlers and cron jobs run concurrently in
several processes; everything they share is in Postgres, Redis or a media server.
Transactions are READ COMMITTED, so their protection is what the code adds:
advisory locks, `FOR UPDATE`, unique indexes, updates that repeat in their WHERE
what was read before, and a cron lock with a time to live.

| Component | State | Operations | What makes it correct |
|---|---|---|---|
| Booking engine (`booking/booking.service.ts`) | `booking`, `time_slot`, penalty counters | create, createAssigned, proposeReverse, respondReverse, accept, confirm, reject, complete, noshow, cancel, reschedule, ackByTeacher, the sweep | no double booking, rest between sessions, room and zoom limit, charged once and given back once |
| Cancellation (`booking/cancellation.service.ts`) | `cancellation_event`, `cancel_count` | teacherCancel with four routes, priority reassignment | one event per booking; a reassignment is as safe as a booking |
| State machine (`booking/domain/state-machine.ts`) | - | canTransition, shouldRefundOnTransition | terminal states have no successor |
| Availability (`availability/availability.service.ts`, `domain/slots.ts`) | `work_schedule` | day slots, check of a range, template, week plans, leaves | rest around each session; what is shown can be booked; edits keep each other |
| Credit account (`billing/credit.service.ts`, `billing/domain`) | `credit_account`, `credit_transaction`, lots, `payment` | ensureAccount, consume, refund, charge, PG charge, PG refund | rows explain balances; soonest lot first; no carry-over |
| Weekly grants (`billing/weekly-grant.service.ts`) | the same tables | runGrant, runExpire | one lot per period; shown balance = what lots hold |
| Payment requests, PG webhooks (`billing/payment-request.service.ts`, `billing/pg`) | `payment_request`, `payment_event`, `payment` | create, respond; handle, dispatch | a payment is credited once and taken back once, unless two refunds of it cross; an event's status tells its effect |
| Recurring billing (`billing/autopay.service.ts`, `membership/`) | `student_subscription`, plan products | runDue, subscribe, sync | no period skipped or charged twice; grade and services agree with the plan |
| Entitlements (`entitlement/`) | `service_entitlement`, `redemption_code` | grant, redeem, revoke, expiry notices | a code is one grant; who is marked was told |
| Questions (`qna/qna.service.ts`) | `qna_post`, `qna_answer`, tickets | create, escalate, claim, answer, accept, re-answer, release, assign | paid once, one owner, one accepted answer |
| Community board (same file) | `qna_community_answer`, reports | ask, answer, accept, report | one accepted answer, hiding takes several users |
| Recording (`media/media-recording.service.ts`) | `consult_recording` | consent, withdraw, egress webhook | records only with both consents |
| Reports (`media/consult-report.service.ts`) | `consult_report`, views | process, edit, approve, send, share, remind | told once per sending, reminded once |
| Assignment (`assignment/assignment.service.ts`) | `auto_assign_request` | runFill, reverse scan, escalate | an item is booked once |
| Outbox, announcements (`notification/`) | `notification`, `scheduled_announcement` | send, retryFailed; runDue, runReminders, cancel | delivered once, retried until given up, never after a cancellation |
| Quotas, cron lock (`common/quota`, `common/cache`, `llm/`) | counters and locks in Redis | consume, check, record; withCronLock | limits hold; failed work costs nothing |
| Guardians (`people/guardian.service.ts`, `guardian-plan/`) | links, proposals, plans | request, respond, unlock; propose, accept, decline | only ended links reopen; a proposal is answered once |
| Consulting (`consulting/`) | application, payment | submit, pay, confirm, assign, analyse | reviewed only when paid |
| Reviews (`evaluation/`) | `evaluation`, teacher's rating | review | rating = all reviews |
| Academy claims (`academy-finder/claim.service.ts`) | `academy_claim`, owner | submit, approve, reject | one owner |
| Chat (`realtime/`, `web/src/components/ChatPanel.tsx`) | `chat_message`, sockets, screens | join, send, delete, react | screens show the room; free messages are limited |
| Payroll (`payroll/`) | `payroll_estimate` | settle, markPaid | paid once per settlement, never overstated |
| whiteboard, classroom, guardian consent, guard, scores, dashboards, IAM, search, ... | own tables | mostly single-row writes | not modelled, section 7 |

Interactions: Booking asks Availability (inside its transaction, on another
connection), takes and returns credits, and is called by Assignment, by Qna's
escalation and by the reassignment; webhooks, autopay and payment requests end in
the credit account; Subscriptions writes entitlements and grades; recordings start
reports; reports, announcements and assignments speak through the Outbox; jobs run
under the cron lock on every instance.

Hard behaviours: requests that read outside their transaction and write later;
operations that repeat the read status in their WHERE next to two that do not;
locks per (teacher, date) while a move touches two dates; jobs without the
account's lock or longer than their own lock; crashes between two transactions;
webhooks that come twice, late or in the wrong order; sockets on which broadcasts
and answers arrive in another order than they were computed. The list, each at its
line and with the properties that watch it, is `hazards` in `PROJECT.json`.

## 2. Modules

| Module | Models | Used by |
|---|---|---|
| `Booking` | booking engine and cancellation, step by step | all booking modules |
| `BookingProps` | their properties, fairness, refinement mapping | `MCBooking`, proofs |
| `BookingLifecycle` | abstract: stage of a booking and credits held for it | refined by `Booking` |
| `BookingProofs`, `BookingSettlement`, `BookingPlacement` | types; credits, counters, life cycle; placement, zoom limit: section 5 | - |
| `MCBooking` | constants of seven runs | `MCBooking_*.cfg` |
| `CreditLedger`, `MCCreditLedger` | credit account, weekly grants, PG charge and refund | `MCCreditLedger_*.cfg` |
| `LedgerProofs` | sums over finite sets, theorems about `CreditLedger` | - |
| `PaymentLife` | abstract: what payments promise to the purchased balance | refined by `Payments` |
| `Payments`, `MCPayments` | payment requests and provider webhooks; their events and amounts | `MCPlatform`, `MCPayments_refunds.cfg` |
| `Subscriptions` | runDue, subscribe, sync of plan products | `MCPlatform` |
| `Entitlements` | grants, redemption codes, expiry notices | `MCPlatform` |
| `Payroll` | settlement of a teacher's month | `MCPlatform`, `Payroll_paid.cfg` |
| `Qna`, `Community` | questions to teachers; the board | `MCPlatform` |
| `ConsultRecording` | consents, egresses, egress webhooks | `MCPlatform`, `ConsultRecording_withdrawn.cfg` |
| `ConsultReports` | reports, views, sending and its notification, reminders | `MCPlatform`, `ConsultReports_reminded.cfg` |
| `Assignment` | runFill, reverse scan, escalation, cron lock with its TTL | `MCPlatform` |
| `Outbox` | notifications and their retries | `MCPlatform`, `Outbox_starved.cfg` |
| `Announcements` | scheduled announcements | `MCPlatform` |
| `Quotas` | the three layers of counters before the language model | `MCPlatform` |
| `GuardianLinks`, `Consulting`, `Evaluation`, `AcademyClaims` | people | `MCPlatform`, `AcademyClaims_rejected.cfg` |
| `Chat` | chat room: table, gateway, sockets, screens | `MCPlatform` |
| `Availability` | schedule row, free slots, sessions placed in them | `MCPlatform` |
| `MCPlatform` | composition of the components from `Payments` on, constants | `MCPlatform.cfg` |
| `MoneyProofs` | theorems about `Payments`, `Subscriptions`, `Entitlements`, `Payroll` | - |
| `QuestionProofs` | theorems about `Qna`, `Community`, `ConsultRecording`, `ConsultReports` | - |
| `ScheduleProofs` | theorems about `Assignment`, `Outbox`, `Announcements`, `Quotas` | - |
| `PeopleProofs` | theorems about `GuardianLinks`, `Consulting`, `Evaluation`, `AcademyClaims`, `Chat`, `Availability` | - |

### Booking

A *request* is one HTTP call or one row of a cron pass. `req[r]` is what it has
read and decided. Every operation is

1. `Begin...`: the reads and early returns outside the transaction. It keeps the
   row it read, which may be stale from here on.
2. `Check...` (operations that take `lockTeacherDate`): lock and recheck. While
   `req[r].checked` holds, the request holds the lock (`LockedBy`). The DELETE of
   a move removes the slot rows it saw here (`old`); later ones stay.
3. `Commit...`: everything else the transaction writes, visible at once. A
   transaction without the lock is one step: the rows it writes first stay locked
   until its end, and what it reads before is what its WHERE repeats.
4. `Short...`: the shortfall path with its payment request. `Abort`: any other
   way a request ends without effect - a refused recheck, the unique index, a
   lost conditional update, the 20 s timeout, a crash.

The priority route of `teacherCancel` continues in the same request with `AfterCas`,
and its recheck takes no lock, as in `tryPriorityReassign`. The two updates that
do not repeat the status, `respondReverse` and `reschedule`, are
`CommitRespond` and `CommitReschedule`.

Abstractions: one center; teacher and administrator are one actor "staff";
windows are slot intervals inside working hours and stay (`Windows`; the
arithmetic behind them is in `Availability`); the clock counts days, so the sweep
sees a booking from the day after its date rather than 30 minutes after its end;
the price depends on the teacher only; the room is any free one, "chat" takes none.
`credit` is the sum a student can spend, `Spendable` in `CreditLedger`; the split
over lots is only there. Left out: notifications, meeting URLs, funnel events, the
penalty threshold (a deployment without a policy row), block lists and the note
that must precede `complete` (it can only forbid). Attributes that a reschedule or
an answer never touches are kept in `row`.

### CreditLedger

One student's account. Operations that hold the row lock from their first read
are one action each. `runGrant` (`GrantRead`, `GrantCommit`), `runExpire`
(`ExpireList`, `ExpireRead`, `ExpireCommit`) and `applyPgRefund` read before or
without the lock and are processes (`job`). Half weeks are the clock: at odd
times it is Sunday 23:59, when lots expire. `txn` is the last `credit_transaction`
row, which the action properties compare with the change of the balances.
`crossed` records the calls that wrote on a read another call had overtaken.
`ConsumeCredits` states in closed form what the loop of `consumeCredits` takes from
each lot; `MCCreditLedger` compares it with the loop (`LoopAssumption`).
`refundWithin` is called for a booking that paid and not again: that callers
keep to this is what `Booking` checks. Not modelled: the `balance` column of the
rows, `reserved_credits` (never written), administrators' edits; PG refunds in part are in
`Payments`.

### The components of MCPlatform

All follow one form. A handler, webhook, cron run or socket call is a record in a
function over a small set (`handler`, `runner`, `pass`, `call`, `admin`, ...); its
`at` says how far it has come and the rest is what it has read. A `Read...` action
holds the checks and early returns, the write is a separate action with the
WHERE clause of the code as its guard, or none when the code updates by id. Where
the code can die between two writes there is an action for it (`...Dies`, `GiveUp`,
`ServerRestarts`). Tables are functions or sets of records under the code's names.

- `Payments`: a delivery of an event is claimed, applied, marked, in three
  transactions (`Deliver`, `ApplyCharge` or `ApplyRefund`, `MarkEvent`); events may be
  delivered again at any time and in any order. `ReadPayment` is `dispatch` up to the account's
  lock: a paid event without payer or amount (`Complete`) has nothing to apply, nor has one
  whose payment is there, or a refund whose payment is not there or marked refunded. Any
  number of events may speak of one payment, and refunds name an amount or none. Under the
  lock only the unique key decides about a charge, and nothing about a refund: two refunds
  read before either is applied both take credits back (`refundsCrossed`). A request is
  answered by the student and guardians.
- `Subscriptions`: time counts periods; a run claims a due row by moving
  `next_billing_at`, charges, then books or rolls back; runs overlap because the
  cron lock is not held to the end. `lost` and the like name what a death cost, `beside`
  the subscriptions that a plan change under way could not see and left active.
- `Entitlements`: `redeem` claims the code and grants in a second transaction; the
  expiry check tells owners one by one and marks the rows it had read.
- `Qna`, `Community`: one student's questions of a week, three ways to pay (free,
  ticket bundle, credits), claims by teachers with the sweep that frees stale ones.
  In `MCPlatform` one question at a time goes its whole way, and payment is
  explored over three questions separately. The board's daily counter is in the cache:
  `ReadCounter` may find it away (`get` answers null, no limit), `CountIsLost` is an `incr`
  that counted nothing, and `CounterIsLost` a restart of the process or of Redis. What was
  not counted or not limited is in `uncounted` and `unlimited`.
- `ConsultRecording`: the media server is external: an egress is started, may
  refuse to stop, and reports its end by a webhook that may be late or repeated.
- `ConsultReports`: pipeline, reviewers and reminders over one report. `send` updates and
  answers; its notification (`telling`) is delivered or lost later. The reminder job, once
  per instance, lists, looks for the row of an earlier reminder (`LookUpReminder`),
  delivers (`Remind`) and only then has its row (`RecordReminder`), in this order in the
  code of `notify`, and may end between any two (`ReminderDies`).
- `Assignment`: `placed` abstracts createAssigned to "takes a free window";
  firings on every instance, a lock with a TTL shorter than the period, manual runs.
- `Outbox`, `Announcements`: a message is handed to its channels before its row is
  written; runs of one firing exclude each other, runs of two may meet.
- `Quotas`: `incr` is atomic and the cache may be away, with the increment or only
  its reply lost.
- `GuardianLinks`, `Consulting`, `Evaluation`, `AcademyClaims`: check-then-write
  handlers of several actors over two or three related rows.
- `Chat`: a device enters the room, then the gateway reads the history and answers;
  `wire` is what is under way on the socket in order, `screen` what the web
  client shows after applying it. The history holds the `HistoryLimit` messages that were
  saved first (`oldest`; `take: 500` in ascending order); what it had no place for is in
  `leftOut`. Devices of one user, lost connections, a restart.
- `Payroll`: amounts are the number of sessions they were computed from.
- `Availability`: minutes in half slots through all days, so that windows may begin
  off the grid and midnight is a boundary like any other.

`MCPlatform` composes them. They share no table that both sides write in
conflict, except where the shared part is inside one module (questions and their
consultations in `Assignment`, plan products in `Subscriptions`); so the run
explores them one at a time: `focus`, chosen in `Init`, names the one that moves.
The state space is the sum of theirs and not their product, and each keeps its
full interleavings.

## 3. Runs

`tlc -config <cfg> <module>`; `PROJECT.json` lists a mutant of the code for every
property, which TLC must catch.

| Run | Question | States |
|---|---|---|
| `booking_slots` | do lock, index and room check keep live bookings apart when two requests of *any* kind overlap? | 1.6 M |
| `booking_cas` | do the conditional updates settle each booking once - status, slots, refund, event, counters? | 0.3 M |
| `booking_serial` | one request at a time: is the engine the abstract life cycle, are slot rows exact, is the sweep live? | 81 k |
| `credit_races` | do rows explain balances while two jobs are half way, and what does it take for a job to slip? | 323 k |
| `platform` | does each component around them keep its promise, with its own races, crashes, retries and late messages? | 1.13 M |
| `booking_mint`, `booking_revive`, `booking_reassign`, `credit_drift`, `payments_refunds`, `outbox_starved`, `recording_withdrawn` | counterexamples, section 6 | - |

Booking and ledger:

- *placement* (`booking_slots`): `Placement` (the inductive form), `TypeOK`,
  `NoDoubleBooking`, `RestBufferUnderLock`, `RoomExclusive`. They speak of bookings
  of direction "student" where the code gives proposals no guarantee (an answer may
  revive a cancelled one without its rows), and the rest buffer of those placed
  under the lock.
- *settlement* (`booking_cas`): `Settlement` (inductive; implies that nothing is
  refunded that was not spent and that a cancelled booking is refunded in full),
  `CountedOnce`, `ZoomWithinLimit`, `TerminalIsFinal`.
- *whole engine, one request at a time* (`booking_serial`): `NoStraySlots`,
  `ImplementsLifecycle` (refinement), `UnackedIsSwept` (liveness).
- *account* (`credit_races`): `RowsMoveCredits`, `SoonestSpentFirst`, `NoCarryOver`
  under all races; `SlipsNeedACrossing`: a payment refunded twice, a period granted
  twice or a shown balance that is not what the lots hold can only come from a job
  that wrote on reads another call had overtaken.

`platform`, by component (focus in parentheses):

| Property | Says |
|---|---|
| `ImplementsPaymentLife` (webhook, requests) | refinement: the purchased balance moves by crediting a payment once, taking it back once (again only if two of its refunds crossed), a request paid once, and spending |
| `EventsTellTheLedger` (webhook) | an event marked processed took effect, an ignored one had none to have or lacked its payer or amount, and no payment is credited or taken back without an event |
| `NoPeriodSkipped`, `ChargedTwiceOnlyInArrears` (billing) | a period moved past was charged unless one of the named losses happened; charged twice only when overdue by a whole period |
| `MembershipConsistent` (subscribing) | grade, active subscription and plan services agree but for syncs cut short or overlapping; no other subscription is active but those a plan change could not see |
| `EntitlementsConsistent` (entitlements) | a code is exactly one grant; a row marked as announced was announced |
| `SettlementIsFair` (payroll) | no month is paid more often than settled (simultaneous reads apart), no row says more than was earned |
| `QuestionsSettled`, `OneAcceptedAnswer`, `KeptUntilReleased` (wallet, question) | a question that reached the teachers was paid for exactly once, by a free one while there was one; one accepted answer, then closed; nobody takes a question from its owner |
| `BoardIsFair` (posting, board) | acceptance and hiding on the community board; its daily limit is exceeded only by questions asked together, asked while the counter could not be read, or missing in it |
| `RecordedOnlyWithBoth` (recording) | no request records unless both sides' last word was yes when it wrote its own |
| `OneNoticePerSending` (reports) | each time a report became sent one notification is delivered, lost or under way; reminders beyond the first are no more than looks beside an unwritten row and rows never written |
| `BookedOnce` (fill, escalate, reverse) | an item gets one consultation unless two runs without a lock between them had it, or a run died between the two writes |
| `DeliveredOnce` (outbox), `HeardOnce` (announcements) | no channel delivers twice, nobody hears a cancelled announcement |
| `SpentWithinLimits` (quotas) | limits and reserve hold, with and without the cache |
| `RelinkedOnlyWhenEnded`, `AnsweredOncePerProposal` (links, plans) | guardians' links and plans |
| `OneOwner` (claims) | one active claim unless submissions were read together; the owner's claim is the approved one unless two administrators judged it at once; the status follows the claims |
| `PaidBeforeReview` (consulting), `RatingIsCurrent` (rating) | as in section 1 |
| `ChatConsistent` (room, free) | a joined device with nothing to receive shows the table, but messages its history had no place for; free messages stay within the limit |
| `CalendarIsKept` (calendar, schedule) | sessions have their rest whatever schedule each was checked against; a free slot on the screen can be booked; template, plan and leaves keep each other |

Many of these name an exception in a *history variable* (`crossed`, `lost`,
`unsynced`, `beside`, `contested`, `orphaned`, `doubtful`, `leftOut`, `staleSends`,
`refundsCrossed`, `uncounted`, `unlimited`, `crowded`, `rowless`, `paidTwice`,
`putBack`, `together`, `judgedTwice`): what the code does not protect. A history
variable is written only where the unprotected crossing really happens - the write
compares the row with what was read - so the property says that *nothing else* leads
there, and its mutant shows that the rest is not implied by it.

Bounds. Two requests in flight are a race of each pair of operations; locks and
conditional updates compare pairs. Bookings: three allow one to be in place while
two race for it and for its neighbour; two teachers, one full-time (confirmed at
once) and one not, each the other's substitute; two windows, equal or adjacent
(`AdjacentWindows`: slots, rest, room) or on two dates (`SpreadWindows`: locks of a
move, same-day cancellations, zoom limit 1 of 2). `MaxCalls` counts client calls;
the sweep is not counted. One student: students meet only in teachers, rooms and
limits. Ledger: a lot of two, prices one and three, so that a booking takes part of
a lot, a lot and purchased credits, or falls short; two or three lots and two
weeks, so that a booking is paid in one and refunded in the next.

Platform: two (three where a third actor matters: claims, link and plan calls,
consulting, reviews) requests in flight; two subscriptions of which one is pending
from the start; periods, days and months up to two, so that something is due,
overdue and past; two codes whose products share a service; three questions of
which one is on the board, one free question a week, bundles of one; limits of one
or two, so that they are reached; two events that pay one payment, a refund of it as a
whole and one in part, and, in the focus "requests", a paid event without an amount or
a failed one; two slips of the cache around the board (`MaxSlips`), one stray reminder
(`MaxStray`); a history of one message, so that the second has no place in it; a retry
batch of one; three devices of which two are the same student's, two messages, a free
limit of one; days of four slots, off the grid on the first, and room for three sessions
in two days. In the foci "reminders", "fill", "room", "free", "plans", "question",
"subscribing" and "calendar" some actors are held still to keep the state space small;
another focus lets them move. In "claims" the third claim is handled by one request at a
time, and the windows of the assignment, which are alike, are taken in one order.

Deadlock is not checked: bounds on calls, ids and clocks let the models stop.

Fairness. `LiveSpec` (`BookingProps`): the calendar moves (WF); a request that
was started is worked on or ends (WF per request; Node and the transaction timeout
see to it); the sweep runs every half hour over all rows that are due, so for each
booking it starts again and again, and does not fail forever (SF). `FairOutboxSpec`
(`Outbox`): cron fires again and some run of the job goes on (WF). No fairness is
assumed for clients, and none anywhere else.

## 4. Faults

Crashes between two writes: webhooks (after the claim, after the effect), billing
runs (after the claim, after the charge), redemption and syncs, the outbox (after a
channel delivered), announcements, batches (after the booking, before the row),
guardian's accept, claims, payroll, the chat gateway. Repeated, late and reordered
messages: provider events, egress webhooks, cron firings, socket broadcasts against
answers. External refusals: the payment provider, the media server (`StopMayFail`),
a notification channel, Redis away (`Quotas`, `Community`). A lost counter (`Community`), lost
notifications and reminders without a row (`ConsultReports`). Timeouts: the 20 s of a booking
transaction (`Abort`), stale claims of questions, the TTL of a cron lock.

## 5. Proofs

A theorem holds for every value of the constants that satisfies the ASSUMEs of its
module (TLC evaluates them on every run) and for any number of requests, bookings, lots,
deliveries, devices and so on. With them every property of the passing runs but
the liveness of the sweep is a theorem.

| Theorem | States | Further assumptions |
|---|---|---|
| `BookingProofs!TypeCorrect` | `TypeOK` | - |
| `BookingPlacement!PlacementHolds`, `NoDoubleBookingHolds`, `RestBufferHolds`, `RoomExclusiveHolds` | `Placement`, `NoDoubleBooking`, `RestBufferUnderLock`, `RoomExclusive` | - |
| `BookingPlacement!ZoomLimitHolds` | `ZoomWithinLimit` | - |
| `BookingSettlement!SettlementHolds`, `CreditsSettled` | `Settlement`, `RefundAtMostSpent /\ SettledInFull` | `ReverseFree`, `reschedule` is not called |
| `BookingSettlement!CountedOnceHolds`, `TerminalHolds` | `CountedOnce`, `TerminalIsFinal` | neither `reschedule` nor `respond` is called |
| `BookingSettlement!NoStraySlotsHolds` | `NoStraySlots` | one request at a time |
| `BookingSettlement!LifecycleImplemented` | `ImplementsLifecycle` (refinement) | one request at a time, `ReverseFree` |
| `LedgerProofs!AccountIsSound` | balances, splits and jobs are well formed; a paid booking holds its price | - |
| `LedgerProofs!RowsTellTheChange`, `SoonestGoesFirst`, `NothingIsCarriedOver`, `OnlyCrossingsSlip` | `RowsMoveCredits`, `SoonestSpentFirst`, `NoCarryOver`, `SlipsNeedACrossing` | - |
| `MoneyProofs!PaymentsImplementLife` | `ImplementsPaymentLife` (refinement) | - |
| `MoneyProofs!EventsAlwaysTell`, `EntitlementsAlwaysConsistent`, `SettlementAlwaysFair` | `EventsTellTheLedger`, `EntitlementsConsistent`, `SettlementIsFair` | - |
| `MoneyProofs!BillingTypeCorrect`, `NoPeriodEverSkipped`, `ChargedOnceInTime`, `MembershipAlwaysConsistent` | types of recurring billing, `NoPeriodSkipped`, `ChargedTwiceOnlyInArrears`, `MembershipConsistent` | - |
| `QuestionProofs!QuestionsAlwaysSettled`, `OneAnswerAccepted`, `NobodyTakesAQuestion`, `BoardAlwaysFair` | `QuestionsSettled`, `OneAcceptedAnswer`, `KeptUntilReleased`, `BoardIsFair` | - |
| `QuestionProofs!RecordedOnlyByConsent`, `NoticeForEverySending` | `RecordedOnlyWithBoth`, `OneNoticePerSending` | - |
| `ScheduleProofs!EverythingBookedOnce`, `NoticesDeliveredOnce`, `AnnouncementsHeardOnce`, `LimitsAlwaysHold` | `BookedOnce`, `DeliveredOnce`, `HeardOnce`, `SpentWithinLimits` | - |
| `PeopleProofs!RatingAlwaysCurrent`, `AcademyHasOneOwner`, `ReviewedWhenPaid`, `ReopenedOnlyWhenEnded`, `EveryProposalAnsweredOnce` | `RatingIsCurrent`, `OneOwner`, `PaidBeforeReview`, `RelinkedOnlyWhenEnded`, `AnsweredOncePerProposal` | - |
| `PeopleProofs!RoomAlwaysShown`, `CalendarAlwaysKept` | `ChatConsistent`, `CalendarIsKept` | - |

The assumptions of the booking theorems are the ones the code needs: `booking_mint` is
the counterexample without `ReverseFree`, `booking_revive` with `reschedule`, and
an answer to a proposal, like a move, writes its status without a condition. Two
requests that overlap may leave stray slot rows (section 6), so the two theorems about
the whole engine are about one at a time, as `booking_serial` is.

### Booking

`TypeOK` is inductive: one lemma per action, over the record types of the
requests. It shows that credits never become negative whatever overlaps, since
`Consume` repeats its check inside the transaction.

`RefundAtMostSpent` is not inductive: nothing in it says that a booking was
charged its own fee, or that a request about to refund holds the fee of its
booking. `Settlement` adds that: `RowsSettled` (each booking was charged its fee
and got it back iff it is cancelled or rejected), free proposals, and
`RequestSettled` (what each request in flight carries agrees with its booking).
The heart is `CommitCas`: `StillAsRead` makes the stored status the one the
refund was computed from, so the refund is the fee exactly when the row leaves a
live status for a refunding one. The theorem covers `respond`, which `booking_cas`
leaves out.

`CountedInv` (under `CountedOnce` and `TerminalIsFinal`) compares each counter with the
cardinality of the bookings that ended that way, and says of a request in
flight that what it writes leaves a live status: the update that closes a
booking adds exactly one to both sides.

`SlotsInv` and `PricedInv` are about one request at a time: what the request has read is
what the tables hold (`RequestCurrent`) and what it will charge or give back is the
fee of its row (`RequestPriced`). With them each step maps to a step of
`BookingLifecycle` or to a stutter: a commit moves one booking along one edge.

The placement theorems have no condition on the operations called. None of the
four properties is inductive alone; `Placement` adds, for a request that holds a lock,

- `LockExclusive`: no other request holds the lock of that teacher and date;
- `StillClear`: every live booking placed under a lock is still apart from the
  window the holder will take. Whoever commits in between either holds another
  date, was placed without the lock and is excluded, or only closes bookings;
- `RequestPlaced`, what a request still knows rightly of its booking although the
  row may be stale: a move's booking is an ordinary one, of the same teacher and mode,
  and the rows it will delete are that booking's own; an answer's booking is a
  proposal; a conditional change read a live status;
- `RowsPlaced`: proposals are reverse bookings without a room, so that an answer
  that brings one back takes no room from anybody;
- `UniqueSlots`, the index itself, with `SlotsHeld`: overlapping windows share a
  slot, so two live bookings in them would share an indexed row (`IndexExcludes`).
  This is why no double booking happens even through the reassignment, which takes
  no lock: the index, unlike the rest buffer, needs none.

`Begin` and `Check` steps are covered by two lemmas about a request that changes
while the tables stay; the conditional change and the answer by one about a
status that changes (`PlacedStatusStep`); placing and moving have their own.
`ZoomInv` counts the live consultations over the first slot of every window: sessions
that overlap a new one all cover one of these moments, which is what the code's
count of overlaps bounds.

### Ledger

The ledger's operators add up lots, and a sum is a fold. `LedgerProofs` first gives the
finite sums it needs without an induction scheme: a `Sums` function for every finite
set exists because a smallest set without one would not be the smallest (`LeastNumber`,
from the well-foundedness of the naturals, and `SumsExist`); the library's fold is that
function (`SumIs`), and splitting, adding and comparing sums follow. `ConsumeCredits` is
written in closed form, what remains to pay before each lot being the price less
what sooner lots hold; that this is the code's loop is the `LoopAssumption` of
`MCCreditLedger`, which TLC evaluates over all small accounts.

`AccountInv` adds to the types that a paid booking holds a split that adds up to its
price (`PaidInFull`); `RowsMoveCredits`, `SoonestSpentFirst` and `NoCarryOver` follow
from it step by step. `SlipsNeedACrossing` needs five conjuncts more: what is left of a
lot and what bookings hold of it was granted into it (`HeldWithin`); the balance is what
the lots hold unless an expiry crossed (`Balanced`); and of each kind of work, that two
jobs that hold the same piece have crossed and a job whose piece is already done has
(`PairsCrossed`, `GrantsCrossed`, `RefundsCrossed`).

### Money, questions, schedules, people

Each proof begins with the types of the handlers' records and adds what a handler in
flight may still do to the tables. The arguments worth naming:

- `Payments`: an event's status with the step its delivery is at determines what the
  ledger holds of it; the claim is the unique key, so of two deliveries one goes on.
  A step maps to crediting, taking back, paying, spending or a stutter of `PaymentLife`.
  About to take a payment back, a delivery finds it credited, or taken back and then among
  the crossed: whoever read it while another was about to do so crossed it.
- `Subscriptions`: a period moved past is covered by a charge, by a named loss or by the
  pass that may still charge or give it back (`AllCovered`), and a charge by its payment
  row, a loss or the pass about to book it; a claim repeats the date it read, so no other
  pass covers the same period. `MembershipConsistent` rests on syncs having read in the
  order in which subscriptions changed, but for the overlapping ones; a plan change leaves
  active what it had not seen, and that is what `beside` names.
- `Entitlements`, `Payroll`: claims of codes and simultaneous payments are counted against
  the calls in flight.
- `Qna`, `Community`: who paid by which means are disjoint sets whose cardinalities are
  the wallet's counters; a report adds one reporter and one to the count. Of the board's
  questions, those asked are those counted and uncounted with those about to be, and whoever
  is about to ask has read a counter below the limit or none.
- `ConsultReports`: reminders delivered and about to be are at most the crossings
  (`crowded`), those that will have no row (`rowless`) and the one that has or will have it.
- `Assignment`: the run that holds the lock, its time to live and the item it has read;
  a second consultation of an item needs two runs that held it or one that died.
- `Outbox`, `Announcements`: what a run has still to write says which channels were told.
- `AcademyClaims`: a submission at work has a claim of its own that is not there yet, and
  two of them are `together`; a review at work has a claim still pending or one judged
  twice. So whoever becomes active beside another was submitted with it or judged twice.
- `Quotas`: those past a counter are no more than its limit, by cardinalities of the
  calls that passed each layer; a lost reply only makes the counter larger.
- `Chat`: for every device and message there is a course of views, one before each event
  on the wire, that begins on the screen and ends in what the table has or becomes it
  with what is about to be told (`PairSound`). A witness in place of a fold makes this
  provable: sending extends it, receiving drops its first. What makes it inductive
  across joins is `WorkIsCalm`: as long as a handler is at work, telling of it again
  changes nothing, or some device is in doubt and whoever joins is too. A message that a
  device's last history left out is one that has no promise until it joins again.
- `Availability`: a range accepted slot by slot keeps the rest, because a slot of it
  would hold the first minute it had in common with a session or its rest; sessions of
  two days keep it because days are whole numbers of slots and the rest is no longer
  than one (`CalendarAssumption`; 1440, 10 and 10 minutes in the code). This needs
  arithmetic with products, for every such length of day, slot and rest.

### Model-checked only

`UnackedIsSwept` (liveness of the sweep under fairness), which is out of the prover's
reach, and the seven counterexamples. `ConsumeInALoop`, the recursive form of
the code's loop, is compared with the closed form by TLC only.

## 6. Disagreements between code and documents

| Run | Finding |
|---|---|
| `booking_mint` | `accept`/`confirm` take an unpaid reverse proposal to confirmed; its cancellation refunds what was never spent. |
| `booking_revive` | `reschedule` sets status `new` whatever the status has become; a booking cancelled meanwhile comes back and is refunded twice. |
| `booking_reassign` | `tryPriorityReassign` rechecks without the (teacher, date) lock; two sessions of a teacher may touch without rest. |
| `credit_drift` | `runExpire` computes `granted_balance` from an unlocked read; a consumption committed meanwhile is overwritten. |
| `outbox_starved` | delivered notifications keep their place at the head of the retry batch; failed ones behind them are never tried. |
| `recording_withdrawn` | a withdrawal between the consent check and the start of the egress stops nothing. |
| `payments_refunds` | `applyPgRefund` looks at `refunded_at` before the account's lock only; two refund events of one payment take it back twice. |

Seen while reading or while a model was built, without a run of their own:

- *booking*: two moves of one booking to different dates hold different locks, and each
  deletes the slot rows it saw: the rows of the first stay behind and keep a free window
  from being booked (`booking.service.ts:1392`; `NoStraySlots` is about requests that do
  not overlap); `respondReverse` may revive a cancelled or rejected proposal without its
  slot rows; the origin of automatic confirmations of full-time teachers is missing from
  `AUTO_ORIGINS`; a booking transaction asks for a second pooled connection under its lock.
- *availability*: the rest does not reach over midnight (`availability.service.ts:324`);
  when the first working window begins off the ten-minute grid the index of a shown slot
  is that of an earlier one (`slots.ts:79`), and the server refuses it; two edits of a
  schedule that cross lose one (line 386); a first row may be created twice.
- *money*: overdue by a period, a subscription may be charged twice; a rollback after
  another run's claim jumps a period; a failure after the claim loses one; an
  activation by autopay does not sync plan products; two plan changes at once leave two
  active subscriptions; overlapping syncs keep rows of both plans; `subscribe` activates
  without a charge; the billing day drifts. Settling a month again after it was paid makes
  it payable again (`payroll.service.ts:318`), although line 384 says that no call takes a
  payment back; `SettlementIsFair` counts such a payment against its settlement. `settle`
  always settles the current month, whatever month the page shows, so a session done
  after the month's end is never settled; rows of a month may be duplicated; month
  bounds are UTC.
- *questions*: community questions can be claimed, assigned and answered with the
  teachers' calls and then count for pay, against `schema.prisma:844`;
  `editCommunityAnswer` updates by id after a call to the model; the board's daily limit
  does not hold while Redis is away, nor over a restart of the default cache in memory;
  free questions and re-answers may exceed their limit when asked together; the sweep
  gives a re-asked question back to its previous teacher; a late first reply follows a re-answer;
  `escalate` and `runFill` write their row after the booking; `cancelRequest`
  overwrites an assigned request.
- *media*: the reminder job has no leader lock and its row comes after the delivery, so
  two instances remind of one report, which line 360 says cannot be
  (`consult-report.service.ts:375`; `crowded` in `OneNoticePerSending`); `egress_ended`
  of an egress the row no longer names leaves its file; a
  `stored` webhook may cross a withdrawal; a file stored before a withdrawal is not
  purged; a failure after the start leaves an egress untracked; `saveDraft` resets an
  approved or sent report after a check of minutes before; approvals and edits of views
  cross.
- *messages*: `notify` makes the row only after delivery; the outbox overwrites its map
  of deliveries from a stale read; the claim of an announcement's reminder does not repeat
  the status; a dispatch that dies leaves an announcement `sent` and partly
  delivered.
- *quotas*: refused attempts count (`quota-llm.provider.ts:53`); a check passes when
  the cache is away.
- *people*: a rejection read before another administrator's approval overwrites the claim
  and leaves the owner, who goes on editing the academy (`claim.service.ts:160`;
  `judgedTwice` in `OneOwner`); an approval read before a
  revocation revives the link; a revoked guardian
  stays among the targets of consents; a consent survives revocation and relinking; a
  proposal read before its answer proposes an answered plan again; an accept that dies
  leaves no task. A consulting confirmation that read `submitted` leaves a paid payment
  with an application that still waits for it; two `createPayment` leave an orphan
  charge; a second analysis overwrites the first.
- *realtime*: the history is the 500 *oldest* messages (`realtime.service.ts:316`), so
  that a screen that joins a longer room lacks the newest; the client registers the
  listeners for moderation and free messages inside another listener
  (`ChatPanel.tsx:112`); the answer to a join overwrites what was broadcast since the
  history was read; reactions are read, changed and written back and
  may be lost; whiteboards diverge when a stroke crosses a clear or a sync; a classroom
  join may add two participants and start two recordings.

## 7. Not modelled, and why

- *Whiteboard, typing signs, read receipts*: relayed without order or identity; the code
  promises nothing about them that could be stated.
- *Classroom*: single-row writes and calls to a media server; the protocol is
  `ConsultRecording`'s without consent.
- *Guardian consent, IAM, people, SSO, legal, search, matching, lectures, materials,
  storage*: rows written by one call and read by gates or queries; no protocol over them.
- *Scores, placement, dashboards, statistics, guardian reports*: arithmetic and
  aggregates over large tables, out of a model checker's reach and without concurrency.
- *School-record guard, language models*: what they decide is data; their quotas are
  modelled.
- *Web and mobile clients, shared types*: user interface over the API and type
  declarations, except the chat screen. They and the items above are most of the
  repository's lines, which is why the modelled share of lines is small although
  the components with a protocol are nearly all there.
- Inside modelled components: texts, prices, formatting, notifications' wording, plan and
  policy administration, lists.

## 8. Plan

Done: booking engine, credit account, first theorems; then the components around
them, one after another, each with its hazards first; then the theorems of section 5.
Left, for proofs:

1. `NoStraySlots` and the life cycle for overlapping requests whose bookings differ: the
   argument for one request at a time uses only that no other has read the same row.
2. `Settlement` with moves of bookings that are not cancelled meanwhile, so that the
   assumption about `reschedule` becomes one about two requests of one booking.
3. What the abstract specifications promise on their own: that `BookingLifecycle` never
   holds more credits than were paid, and `PaymentLife` never takes back what it has not
   credited, stated once there and inherited through the two refinements.
4. That a history variable names nothing more than it should: a run without a crossing,
   a death or a lost reply keeps it empty.
