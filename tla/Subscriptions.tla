---------------------------- MODULE Subscriptions ----------------------------
(****************************************************************************)
(* The subscriptions of one student: MembershipService.subscribe, the daily *)
(* billing job AutopayService.runDue, and the services a plan brings        *)
(* (EntitlementService.syncSubscriptionProducts).                           *)
(*                                                                          *)
(* Time counts billing periods.  runDue reads the due subscriptions once    *)
(* and works through them: claim the period by moving next_billing_at,      *)
(* charge, then write what came of it, each in a transaction of its own.    *)
(* The cron lock is not held to the end (it expires), so passes may overlap.*)
(* subscribe writes in one transaction and syncs in two more.               *)
(*                                                                          *)
(* No code creates a pending subscription; rows in status pending are there *)
(* from the start (Pending).                                                *)
(****************************************************************************)
EXTENDS Integers, FiniteSets

CONSTANTS
    Subs,        \* ids of subscriptions
    Pending,     \* those that may be there, unpaid, at the start
    Runners,     \* passes of runDue in flight
    Subscribers, \* subscribe calls in flight
    MaxPeriod,   \* bound of the clock
    MaxCaptures  \* bound of the charges of one period

\* active_subscription_id IS NULL.
NoSub == "none"

\* The clock starts in period 1.
ASSUME SubscriptionsAssumption ==
    /\ Pending \subseteq Subs /\ NoSub \notin Subs
    /\ MaxPeriod \in Nat \ {0} /\ MaxCaptures \in Nat

VARIABLES
    period,      \* now
    sub,         \* student_subscription: status, started_at and next_billing_at
    activeSub,   \* student_profile.active_subscription_id, and the grade with it
    booked,      \* payment rows of status done: which period of which subscription
    bundle,      \* live service_entitlement rows of source subscription, by the
                 \* subscription they were written for
    runner,      \* what each pass of runDue is doing
    subscriber,  \* what each subscribe call is doing
    captures,    \* history: successful charges of each period
    lost,        \* history: periods of a pass that died, that failed after the next
                 \* claim, or that a claim computed from an old list jumped over
    beside,      \* history: subscriptions left active by a transaction that had not
                 \* seen them, having begun before they were
    unsynced     \* history: the last sync was cut short, overlapped or never made

tables == <<sub, activeSub, booked, bundle>>
billingHistory == <<captures, lost, beside>>
subscriptionsVars == <<period, tables, runner, subscriber, billingHistory, unsynced>>

Resting == [at |-> "idle"]
Absent == [status |-> "none", started |-> 0, next |-> 0]
Periods == 1 .. MaxPeriod

Billable(s) == sub[s].status \in {"active", "pending"}
\* computeNextBilling, in periods.
NextBilling(due) == due + 1

SubscriptionsInit ==
    /\ period = 1
    /\ \E seeded \in SUBSET Pending :
          sub = [s \in Subs |-> IF s \in seeded
                                THEN [status |-> "pending", started |-> 0, next |-> 1]
                                ELSE Absent]
    /\ activeSub = NoSub
    /\ booked = {} /\ bundle = {}
    /\ runner = [r \in Runners |-> Resting]
    /\ subscriber = [c \in Subscribers |-> Resting]
    /\ captures = [s \in Subs |-> [p \in Periods |-> 0]]
    /\ lost = {} /\ beside = {} /\ unsynced = FALSE

(****************************************************************************)
(* AutopayService.runDue.  cur is the subscription a pass is working on, and*)
(* read the list it works through.                                          *)
(****************************************************************************)
DueAt(now) == {s \in Subs : Billable(s) /\ sub[s].next <= now}
DueDate(r) == runner[r].read[runner[r].cur].next
CurrentPeriod(r) == <<runner[r].cur, DueDate(r)>>

ListDue(r) ==
    /\ runner[r] = Resting
    /\ DueAt(period) # {}
    /\ runner' = [runner EXCEPT ![r] =
           [at |-> "claim", now |-> period, cur |-> NoSub,
            read |-> [s \in DueAt(period) |-> sub[s]], left |-> DueAt(period)]]
    /\ UNCHANGED <<period, tables, subscriber, billingHistory, unsynced>>

\* The pass goes on with its list, or is done.
Continue(r) ==
    runner' = [runner EXCEPT ![r] =
        IF @.left = {} THEN Resting ELSE [@ EXCEPT !.at = "claim", !.cur = NoSub]]

\* Mutant: the claim does not ask whether the subscription is still due.
StillDue_Status(s, now) == Billable(s)
\* updateMany where status and next_billing_at <= now.
StillDue(s, now) == Billable(s) /\ sub[s].next <= now

\* The new date comes from the row in the list, not from the row now.
ClaimPeriod(r, s) ==
    /\ runner[r].at = "claim"
    /\ s \in runner[r].left
    /\ LET left == runner[r].left \ {s}
       IN IF StillDue(s, runner[r].now)
          THEN /\ sub' = [sub EXCEPT ![s].next = NextBilling(runner[r].read[s].next)]
               /\ runner' = [runner EXCEPT ![r].at = "charge", ![r].cur = s,
                                          ![r].left = left]
               /\ lost' = lost \cup {<<s, p>> : p \in sub[s].next .. runner[r].read[s].next - 1}
          ELSE /\ runner' = [runner EXCEPT ![r] =
                     IF left = {} THEN Resting ELSE [@ EXCEPT !.left = left]]
               /\ UNCHANGED <<sub, lost>>
    /\ UNCHANGED <<period, activeSub, booked, bundle, subscriber, captures, beside, unsynced>>

\* pg.charge answers done; the money has moved.
ChargeSucceeds(r) ==
    /\ runner[r].at = "charge"
    /\ captures[runner[r].cur][DueDate(r)] < MaxCaptures
    /\ captures' = [captures EXCEPT ![runner[r].cur][DueDate(r)] = @ + 1]
    /\ runner' = [runner EXCEPT ![r].at = "charged"]
    /\ UNCHANGED <<period, tables, subscriber, lost, beside, unsynced>>

\* It answers failed, or throws.
ChargeFails(r) ==
    /\ runner[r].at = "charge"
    /\ runner' = [runner EXCEPT ![r].at = "failed"]
    /\ UNCHANGED <<period, tables, subscriber, billingHistory, unsynced>>

BookPayment(r) ==
    /\ runner[r].at = "charged"
    /\ booked' = booked \cup {CurrentPeriod(r)}
    /\ IF runner[r].read[runner[r].cur].status = "pending"
       THEN runner' = [runner EXCEPT ![r].at = "activate"]
       ELSE Continue(r)
    /\ UNCHANGED <<period, sub, activeSub, bundle, subscriber, billingHistory, unsynced>>

\* Mutant: the other subscriptions include the one just paid.
OthersActive_All(s) == {o \in Subs : sub[o].status = "active" \/ o = s}
\* updateMany where status active and id not sub.id.
OthersActive(s) == {o \in Subs \ {s} : sub[o].status = "active"}

\* The first payment of a pending subscription; its products are not synced.
ActivatePending(r) ==
    /\ runner[r].at = "activate"
    /\ LET s == runner[r].cur
       IN /\ sub' = [o \in Subs |->
                 CASE o \in OthersActive(s) -> [sub[o] EXCEPT !.status = "inactive"]
                   [] o = s -> [sub[o] EXCEPT !.status = "active"]
                   [] OTHER -> sub[o]]
          /\ activeSub' = s
    /\ unsynced' = TRUE
    /\ Continue(r)
    /\ UNCHANGED <<period, booked, bundle, subscriber, billingHistory>>

\* Mutant: the claim is not rolled back.
GiveBackPeriod_Never(r) == FALSE
\* updateMany where next_billing_at is the one this pass wrote.
GiveBackPeriod(r) == sub[runner[r].cur].next = NextBilling(DueDate(r))

RollbackClaim(r) ==
    /\ runner[r].at = "failed"
    /\ LET s == runner[r].cur
       IN sub' = IF GiveBackPeriod(r) THEN [sub EXCEPT ![s].next = DueDate(r)] ELSE sub
    /\ lost' = IF sub[runner[r].cur].next # NextBilling(DueDate(r))
               THEN lost \cup {CurrentPeriod(r)} ELSE lost
    /\ Continue(r)
    /\ UNCHANGED <<period, activeSub, booked, bundle, subscriber, captures, beside, unsynced>>

\* A crash, or any other exception, ends the pass where it is.
PassDies(r) ==
    /\ runner[r] # Resting
    /\ lost' = IF runner[r].at \in {"charge", "charged", "failed"}
               THEN lost \cup {CurrentPeriod(r)} ELSE lost
    /\ runner' = [runner EXCEPT ![r] = Resting]
    /\ UNCHANGED <<period, tables, subscriber, captures, beside, unsynced>>

(****************************************************************************)
(* MembershipService.doSubscribe and syncSubscriptionProducts.  The update  *)
(* that deactivates sees the rows committed when it starts.                 *)
(****************************************************************************)
BeginSubscribe(c, s) ==
    /\ subscriber[c] = Resting
    /\ sub[s] = Absent
    /\ \A d \in Subscribers : subscriber[d] # Resting => subscriber[d].id # s
    /\ subscriber' = [subscriber EXCEPT ![c] =
           [at |-> "write", id |-> s, now |-> period,
            seen |-> {o \in Subs : sub[o].status = "active"}]]
    /\ UNCHANGED <<period, tables, runner, billingHistory, unsynced>>

Syncing(c) == subscriber[c].at \in {"revoke", "grant"}

CommitSubscribe(c) ==
    /\ subscriber[c].at = "write"
    /\ LET new == subscriber[c].id
       IN /\ sub' = [o \in Subs |->
                 CASE o = new -> [status |-> "active", started |-> subscriber[c].now,
                                 next |-> NextBilling(subscriber[c].now)]
                   [] o \in subscriber[c].seen \ {new} /\ sub[o].status = "active" ->
                         [sub[o] EXCEPT !.status = "inactive"]
                   [] OTHER -> sub[o]]
          /\ activeSub' = new
    /\ subscriber' = [subscriber EXCEPT ![c].at = "revoke"]
    /\ unsynced' = \E d \in Subscribers \ {c} : Syncing(d)
    /\ beside' = beside \cup {o \in Subs \ subscriber[c].seen : sub[o].status = "active"}
    /\ UNCHANGED <<period, booked, bundle, runner, captures, lost>>

\* Mutant: the rows of the previous plan stay.
RevokedBundle_Keep == bundle
\* All rows of source subscription.
RevokedBundle == {}

SyncRevoke(c) ==
    /\ subscriber[c].at = "revoke"
    /\ bundle' = RevokedBundle
    /\ subscriber' = [subscriber EXCEPT ![c].at = "grant"]
    /\ UNCHANGED <<period, sub, activeSub, booked, runner, billingHistory, unsynced>>

SyncGrant(c) ==
    /\ subscriber[c].at = "grant"
    /\ bundle' = bundle \cup {subscriber[c].id}
    /\ subscriber' = [subscriber EXCEPT ![c] = Resting]
    /\ UNCHANGED <<period, sub, activeSub, booked, runner, billingHistory, unsynced>>

SubscribeDies(c) ==
    /\ subscriber[c] # Resting
    /\ unsynced' = (unsynced \/ Syncing(c))
    /\ subscriber' = [subscriber EXCEPT ![c] = Resting]
    /\ UNCHANGED <<period, tables, runner, billingHistory>>

NextPeriod ==
    /\ period < MaxPeriod
    /\ period' = period + 1
    /\ UNCHANGED <<tables, runner, subscriber, billingHistory, unsynced>>

RunnerStep(r) ==
    \/ ListDue(r) \/ ChargeSucceeds(r) \/ ChargeFails(r) \/ BookPayment(r)
    \/ ActivatePending(r) \/ RollbackClaim(r) \/ PassDies(r)
    \/ \E s \in Subs : ClaimPeriod(r, s)

SubscriberStep(c) ==
    \/ \E s \in Subs : BeginSubscribe(c, s)
    \/ CommitSubscribe(c) \/ SyncRevoke(c) \/ SyncGrant(c) \/ SubscribeDies(c)

SubscriptionsNext ==
    \/ \E r \in Runners : RunnerStep(r)
    \/ \E c \in Subscribers : SubscriberStep(c)
    \/ NextPeriod

SubscriptionsSpec == SubscriptionsInit /\ [][SubscriptionsNext]_subscriptionsVars

(****************************************************************************)
(* Properties.                                                              *)
(****************************************************************************)
\* Passes that overlap charge a period twice only once the subscription is overdue
\* by a whole period: the claim of one of them then leaves it still due.
ChargedTwiceOnlyInArrears ==
    [][\A r \in Runners :
          ChargeSucceeds(r) /\ captures[runner[r].cur][DueDate(r)] > 0
              => period > DueDate(r)]_subscriptionsVars

\* No period is passed over: once the next billing date has moved past it, it was
\* charged, or a pass is working on it, or it was lost in one of the three ways the
\* history names; and a charge is in the payment table unless its pass died or is
\* about to write it.
NoPeriodSkipped ==
    \A s \in Subs, p \in Periods :
        /\ sub[s].started < p /\ p < sub[s].next =>
              \/ captures[s][p] > 0
              \/ <<s, p>> \in lost
              \/ \E r \in Runners : /\ runner[r].at \in {"charge", "failed"}
                                    /\ CurrentPeriod(r) = <<s, p>>
        /\ captures[s][p] > 0 =>
              \/ <<s, p>> \in booked \cup lost
              \/ \E r \in Runners : /\ runner[r].at = "charged"
                                    /\ CurrentPeriod(r) = <<s, p>>

\* Whatever subscriptions and first payments overlap, the subscription that gives
\* the student the grade is an active one, and the only one but for those that a
\* plan change under way meanwhile could not see; a pending one became active only by
\* a charge; and the services of a plan are those of that subscription, except
\* while or after a sync was cut short or overlapped, or after an activation.
MembershipConsistent ==
    /\ activeSub # NoSub => sub[activeSub].status = "active"
    /\ \A s \in Subs : sub[s].status = "active" => s \in {activeSub} \cup beside
    /\ \A s \in Pending : sub[s].started = 0 /\ sub[s].status \in {"active", "inactive"} =>
           \E p \in Periods : captures[s][p] > 0
    /\ ~unsynced /\ (\A c \in Subscribers : ~Syncing(c)) =>
           bundle = (IF activeSub = NoSub THEN {} ELSE {activeSub})
=============================================================================
