-------------------------------- MODULE Outbox --------------------------------
(****************************************************************************)
(* notification: a message is handed to its channels first and its row, with*)
(* what each channel said, is written after; a job retries the channels that*)
(* failed, at most MaxAttempts times in all.  The job's cron lock lives     *)
(* almost until the next firing, so a run may meet the next one but never   *)
(* another of its own firing.                                               *)
(****************************************************************************)
EXTENDS Integers, FiniteSets, FiniteSetsExt

CONSTANTS
    MaxNotices,   \* bound: notifications, numbered as they are created
    Channels,
    MaxAttempts,  \* MAX_ATTEMPTS
    RetryBatch,   \* rows a run takes
    Retriers,     \* runs of the job in flight
    MaxDeaths     \* bound: runs that die

ASSUME OutboxAssumption ==
    /\ MaxDeaths \in Nat
    /\ {MaxNotices, MaxAttempts, RetryBatch} \subseteq Nat \ {0}

Notices == 1..MaxNotices

VARIABLES
    notice,      \* rows: state, delivery per channel, attempts
    retrier,     \* what each run is doing
    electable,   \* no run has taken the lock of this firing
    deaths,      \* runs that died
    told,        \* history: whether a channel delivered a notification 0, 1 or more times
    crossed      \* history: rows two runs had, or whose run died before it wrote them

outboxVars == <<notice, retrier, electable, deaths, told, crossed>>

Waits == [at |-> "waits", rows |-> {}]

OutboxInit ==
    /\ notice = [n \in Notices |-> [state |-> "none", delivered |-> {}, attempts |-> 0]]
    /\ retrier = [r \in Retriers |-> Waits]
    /\ electable = TRUE /\ deaths = 0
    /\ told = [n \in Notices |-> [c \in Channels |-> 0]]
    /\ crossed = {}

Tell(n, delivered) ==
    told' = [told EXCEPT ![n] = [c \in Channels |-> IF c \in delivered THEN Min({@[c] + 1, 2}) ELSE @[c]]]

(****************************************************************************)
(* send: every channel, then the row.                                       *)
(****************************************************************************)
Send(n, delivered) ==
    /\ notice[n].state = "none"
    /\ \A m \in 1..(n - 1) : notice[m].state # "none"
    /\ notice' = [notice EXCEPT ![n].state = "sending", ![n].delivered = delivered]
    /\ Tell(n, delivered)
    /\ UNCHANGED <<retrier, electable, crossed, deaths>>

CreateNotice(n) ==
    /\ notice[n].state = "sending"
    /\ notice' = [notice EXCEPT ![n].state = "row", ![n].attempts = 1]
    /\ UNCHANGED <<retrier, electable, told, crossed, deaths>>

\* A channel throws or the process dies: notify swallows it and no row remains.
SenderDies(n) ==
    /\ notice[n].state = "sending"
    /\ notice' = [notice EXCEPT ![n].state = "lost"]
    /\ UNCHANGED <<retrier, electable, told, crossed, deaths>>

(****************************************************************************)
(* retryFailed: the oldest rows with attempts left, delivered ones included.*)
(****************************************************************************)
NextFiring ==
    /\ ~electable
    /\ electable' = TRUE
    /\ UNCHANGED <<notice, retrier, told, crossed, deaths>>

Retriable == {n \in Notices : notice[n].state = "row" /\ notice[n].attempts < MaxAttempts}
Taken == {n \in Retriable : Cardinality({m \in Retriable : m < n}) < RetryBatch}

\* Mutant: every channel is tried again.
FailedIn_All(row) == Channels
FailedIn(row) == Channels \ row.delivered

\* What is read here is what the run goes by, however long it takes.
ListRetriable(r) ==
    /\ retrier[r] = Waits
    /\ electable
    /\ electable' = FALSE
    /\ retrier' = [retrier EXCEPT ![r] =
           [at |-> "deliver", rows |-> {[of |-> n, delivered |-> notice[n].delivered] : n \in Taken}]]
    /\ crossed' = crossed \cup {n \in Taken :
           \E o \in Retriers : \E row \in retrier[o].rows : row.of = n}
    /\ UNCHANGED <<notice, told, deaths>>

OldestRow(r) == CHOOSE row \in retrier[r].rows : \A other \in retrier[r].rows : row.of <= other.of

SkipDelivered(r) ==
    /\ retrier[r].at = "deliver" /\ retrier[r].rows # {}
    /\ FailedIn(OldestRow(r)) = {}
    /\ retrier' = [retrier EXCEPT ![r].rows = @ \ {OldestRow(r)}]
    /\ UNCHANGED <<notice, electable, told, crossed, deaths>>

DeliverAgain(r, delivered) ==
    /\ retrier[r].at = "deliver" /\ retrier[r].rows # {}
    /\ FailedIn(OldestRow(r)) # {}
    /\ delivered \subseteq FailedIn(OldestRow(r))
    /\ Tell(OldestRow(r).of, delivered)
    /\ retrier' = [retrier EXCEPT ![r] =
           [at |-> "write", rows |-> @.rows, next |-> OldestRow(r).delivered \cup delivered]]
    /\ UNCHANGED <<notice, electable, crossed, deaths>>

WriteDelivery(r) ==
    /\ retrier[r].at = "write"
    /\ notice' = [notice EXCEPT ![OldestRow(r).of].delivered = retrier[r].next,
                                ![OldestRow(r).of].attempts = @ + 1]
    /\ retrier' = [retrier EXCEPT ![r] = [at |-> "deliver", rows |-> @.rows \ {OldestRow(r)}]]
    /\ UNCHANGED <<electable, told, crossed, deaths>>

EndRetry(r) ==
    /\ retrier[r].at = "deliver" /\ retrier[r].rows = {}
    /\ retrier' = [retrier EXCEPT ![r] = Waits]
    /\ UNCHANGED <<notice, electable, told, crossed, deaths>>

RetrierDies(r) ==
    /\ retrier[r] # Waits
    /\ deaths < MaxDeaths
    /\ deaths' = deaths + 1
    /\ crossed' = IF retrier[r].at = "write" THEN crossed \cup {OldestRow(r).of} ELSE crossed
    /\ retrier' = [retrier EXCEPT ![r] = Waits]
    /\ UNCHANGED <<notice, electable, told>>

RetryStep(r) ==
    \/ ListRetriable(r) \/ SkipDelivered(r) \/ WriteDelivery(r) \/ EndRetry(r)
    \/ \E delivered \in SUBSET Channels : DeliverAgain(r, delivered)

OutboxNext ==
    \/ NextFiring
    \/ \E n \in Notices :
          \/ CreateNotice(n) \/ SenderDies(n)
          \/ \E delivered \in SUBSET Channels : Send(n, delivered)
    \/ \E r \in Retriers : RetryStep(r) \/ RetrierDies(r)

\* Cron fires again and again, and some run of the job goes on.
OutboxFairness ==
    /\ WF_outboxVars(NextFiring)
    /\ WF_outboxVars(\E r \in Retriers : RetryStep(r))

OutboxSpec == OutboxInit /\ [][OutboxNext]_outboxVars
FairOutboxSpec == OutboxSpec /\ OutboxFairness

(****************************************************************************)
(* Properties.                                                              *)
(****************************************************************************)
\* A channel that delivered a notification does not deliver it again, and the row
\* says of each channel what happened, unless two runs had the row at once or a run
\* died after it delivered and before it wrote.
DeliveredOnce ==
    \A n \in Notices \ crossed : notice[n].state = "row" =>
        /\ \A c \in Channels : told[n][c] <= 1
        /\ \A c \in notice[n].delivered : told[n][c] = 1
        /\ notice[n].attempts <= MaxAttempts

\* What failed is tried again until it is delivered or its attempts are used up.
RetriedUntilGivenUp ==
    \A n \in Notices :
        notice[n].state = "row"
            ~> (notice[n].delivered = Channels \/ notice[n].attempts = MaxAttempts)
=============================================================================
