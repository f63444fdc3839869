----------------------------- MODULE CreditLedger -----------------------------
(****************************************************************************)
(* The credit account of one student: CreditService and WeeklyGrantService  *)
(* over the tables credit_account, weekly_credit_grant (the lots),          *)
(* credit_transaction and payment.                                          *)
(*                                                                          *)
(* consumeWithin, refundWithin and chargeWithin hold the row lock of the    *)
(* account from their first read on, so each of them is one step.  The      *)
(* weekly jobs and the PG refund read before they lock, or never lock;      *)
(* they are processes with a step per read and a step for the commit.       *)
(*                                                                          *)
(* Time counts half weeks: at odd times it is Sunday 23:59, when the weekly *)
(* lots expire and the expiry job runs.                                     *)
(****************************************************************************)
EXTENDS Integers, FiniteSets, Functions

CONSTANTS
    Procs,       \* processes that may run a weekly job or a PG refund
    Refs,        \* bookings that pay with this account
    Price,       \* credits of each booking
    Keys,        \* idempotency keys of PG payments
    PayAmount,   \* credits of one charge
    Weekly,      \* membership_grade.weekly_credits
    Monthly,     \* expire_policy is end_of_month
    MaxLots, MaxTime, MaxCharges    \* bounds

ASSUME LedgerAssumption ==
    /\ Price \in [Refs -> Nat \ {0}]
    /\ PayAmount \in Nat \ {0} /\ Weekly \in Nat \ {0}
    /\ MaxLots \in Nat /\ MaxTime \in Nat /\ MaxCharges \in Nat
    /\ Monthly \in BOOLEAN

VARIABLES
    exists,     \* the credit_account row exists
    purchased,  \* credit_account.purchased_balance
    granted,    \* credit_account.granted_balance
    lots,       \* weekly_credit_grant: a function on the ids in use
    spend,      \* the split in meta of the SPEND row of each booking
    open,       \* bookings that were paid and not given back
    payment,    \* the PG payment of each key
    txn,        \* the credit_transaction row written last
    charges,    \* mock charges made, only there to bound them
    pgRefunds,  \* history: PG refunds applied to each key
    crossed,    \* history: work that two jobs had begun at once, or one ended on old reads
    now,
    job         \* what each process is doing

vars == <<exists, purchased, granted, lots, spend, open, payment, txn, charges,
          pgRefunds, crossed, now, job>>

balances == <<exists, purchased, granted, lots>>
bookings == <<spend, open>>
pg       == <<payment, pgRefunds>>

NoSplit == [granted |-> <<>>, purchased |-> 0]

LotIds == 1 .. MaxLots
NextLot == Cardinality(DOMAIN lots) + 1

NotThere == [status |-> "none"]
Idle == [op |-> "idle"]

\* A job has looked; it crosses another that looked for the same and is not done.
Begin(p, work) ==
    /\ job' = [job EXCEPT ![p] = work]
    /\ crossed' = IF \E q \in Procs : job[q] = work THEN crossed \cup {work} ELSE crossed

Remaining(ls) == [l \in DOMAIN ls |-> ls[l].remaining]
InLots(ls) == SumFunction(Remaining(ls))

\* What the student can spend: consumeWithin looks at the lots and at
\* purchased_balance, never at granted_balance.
Spendable == purchased + InLots(lots)

(****************************************************************************)
(* credit-consume.ts and credit-refund.ts.                                  *)
(****************************************************************************)
\* Mutant: latest expiry first.
Sooner_Latest(ls, l, m) ==
    \/ ls[l].exp > ls[m].exp
    \/ ls[l].exp = ls[m].exp /\ l < m

\* Lot l is taken before lot m: soonest expiry first, those that expire together
\* in any fixed order.
Sooner(ls, l, m) ==
    \/ ls[l].exp < ls[m].exp
    \/ ls[l].exp = ls[m].exp /\ l < m

Lesser(a, b) == IF a < b THEN a ELSE b

\* What the loop over the lots still needs when it comes to lot l: every lot
\* before it has given all it had, or the loop has ended.
NeedAt(ls, amount, l) ==
    amount - SumFunctionOnSet(Remaining(ls), {m \in DOMAIN ls : Sooner(ls, m, l)})

\* [used : what each lot gives, purchased : what purchased credits give,
\*  shortfall : what nobody could give]
ConsumeCredits(ls, bought, amount) ==
    LET used == [l \in DOMAIN ls |->
                    IF NeedAt(ls, amount, l) > 0
                    THEN Lesser(ls[l].remaining, NeedAt(ls, amount, l)) ELSE 0]
        need == amount - SumFunction(used)
        fromBought == Lesser(bought, need)
    IN [used |-> used, purchased |-> fromBought, shortfall |-> need - fromBought]

\* Mutant: an expired lot is restored.
Alive_Always(ls, l) == l \in DOMAIN ls

\* A lot that has not expired gets its part back, the rest becomes purchased.
Alive(ls, l) == l \in DOMAIN ls /\ ls[l].exp > now

\* Mutant: what came from an expired lot is lost.
PlanRefund_LoseExpired(split, ls) ==
    LET living == {l \in DOMAIN split.granted : Alive(ls, l)}
    IN [restore |-> [l \in living |-> split.granted[l]], toPurchased |-> split.purchased]

PlanRefund(split, ls) ==
    LET living == {l \in DOMAIN split.granted : Alive(ls, l)}
        dead   == DOMAIN split.granted \ living
    IN [restore |-> [l \in living |-> split.granted[l]],
        toPurchased |-> split.purchased + SumFunctionOnSet(split.granted, dead)]

(****************************************************************************)
(* Rows.                                                                    *)
(****************************************************************************)
\* endOfWeekKst and endOfMonthKst (a month of two weeks).
EndOfPeriod(t) == IF Monthly THEN (t \div 4) * 4 + 3 ELSE (t \div 2) * 2 + 1

AddLot(ls, exp) ==
    [l \in DOMAIN ls \cup {NextLot} |->
        IF l = NextLot THEN [exp |-> exp, amount |-> Weekly, remaining |-> Weekly] ELSE ls[l]]

\* A new credit_transaction row; mark tells it from the one before.
Record(type, amount) == txn' = [type |-> type, amount |-> amount, mark |-> ~txn.mark]

(****************************************************************************)
(* CreditService.                                                           *)
(****************************************************************************)
\* ensureAccountWithin: the account with its first lot, once.  GET /credits
\* calls it alone, consumeWithin before anything else.
EnsureAccount ==
    /\ ~exists
    /\ NextLot \in LotIds
    /\ exists' = TRUE
    /\ purchased' = 0
    /\ granted' = Weekly
    /\ lots' = AddLot(lots, EndOfPeriod(now))
    /\ Record("WEEKLY_GRANT", Weekly)
    /\ UNCHANGED <<bookings, pg, charges, crossed, now, job>>

\* Mutant: the credits come out of granted_balance but not out of the lots.
DrawLots_Forgotten(ls, used) == ls

DrawLots(ls, used) == [l \in DOMAIN ls |-> [ls[l] EXCEPT !.remaining = @ - used[l]]]

Affordable(plan) == plan.shortfall = 0

\* consumeWithin for a booking: it makes the account first if need be, and
\* undoes that too when the credits fall short.
Consume(ref) ==
    LET had   == IF exists THEN lots ELSE AddLot(lots, EndOfPeriod(now))
        plan  == ConsumeCredits(had, purchased, Price[ref])
        drawn == SumFunction(plan.used)
    IN /\ exists \/ NextLot \in LotIds
       /\ spend[ref] = NoSplit
       /\ Affordable(plan)
       /\ exists' = TRUE
       /\ lots' = DrawLots(had, plan.used)
       /\ granted' = (IF exists THEN granted ELSE Weekly) - drawn
       /\ purchased' = purchased - plan.purchased
       /\ spend' = [spend EXCEPT ![ref] =
                      [granted |-> [l \in {m \in DOMAIN had : plan.used[m] > 0} |-> plan.used[l]],
                       purchased |-> plan.purchased]]
       /\ open' = open \cup {ref}
       /\ Record("SPEND", -Price[ref])
       /\ UNCHANGED <<pg, charges, crossed, now, job>>

\* refundWithin for a booking that paid: its caller gives back once.
Refund(ref) ==
    LET plan == PlanRefund(spend[ref], lots)
        back == SumFunction(plan.restore)
    IN /\ ref \in open
       /\ lots' = [l \in DOMAIN lots |->
                     IF l \in DOMAIN plan.restore
                     THEN [lots[l] EXCEPT !.remaining = @ + plan.restore[l]] ELSE lots[l]]
       /\ granted' = granted + back
       /\ purchased' = purchased + plan.toPurchased
       /\ open' = open \ {ref}
       /\ Record("REFUND", Price[ref])
       /\ UNCHANGED <<exists, spend, pg, charges, crossed, now, job>>

\* chargeWithin: the mock PG, or a payment request that was paid.
Charge ==
    /\ exists
    /\ charges < MaxCharges
    /\ charges' = charges + 1
    /\ purchased' = purchased + PayAmount
    /\ Record("CHARGE", PayAmount)
    /\ UNCHANGED <<exists, granted, lots, bookings, pg, crossed, now, job>>

\* The idempotency key has no payment yet (and its UNIQUE index).
KeyIsNew(key) == payment[key] = NotThere

\* applyPgCharge.
PgCharge(key) ==
    /\ exists
    /\ KeyIsNew(key)
    /\ purchased' = purchased + PayAmount
    /\ payment' = [payment EXCEPT ![key] = [status |-> "done"]]
    /\ Record("CHARGE", PayAmount)
    /\ UNCHANGED <<exists, granted, lots, bookings, charges, crossed, pgRefunds, now, job>>

\* Mutant: refunded_at is not looked at.
Refundable_Unchecked(key) == payment[key] # NotThere

Refundable(key) == payment[key].status = "done"

\* applyPgRefund reads the payment, and only then locks the account.
PgRefundRead(p, key) ==
    /\ job[p] = Idle
    /\ Refundable(key)
    /\ Begin(p, [op |-> "pgRefund", of |-> key])
    /\ UNCHANGED <<balances, bookings, pg, txn, charges, now>>

PgRefundCommit(p) ==
    /\ job[p].op = "pgRefund"
    /\ LET key == job[p].of
           dec == Lesser(PayAmount, purchased)
       IN /\ purchased' = purchased - dec
          /\ Record("REFUND", dec)
          /\ payment' = [payment EXCEPT ![key].status = "refunded"]
          /\ pgRefunds' = [pgRefunds EXCEPT ![key] = @ + 1]
    /\ job' = [job EXCEPT ![p] = Idle]
    /\ UNCHANGED <<exists, granted, lots, bookings, charges, crossed, now>>

(****************************************************************************)
(* WeeklyGrantService.                                                      *)
(****************************************************************************)
\* Mutant: every run of the grant job grants.
GrantedAlready_Never(exp) == FALSE

GrantedAlready(exp) == \E l \in DOMAIN lots : lots[l].exp = exp

\* runGrant, on Monday by cron or at any time by an administrator: looks for a
\* lot of the period outside the transaction that will create one.
GrantRead(p) ==
    /\ job[p] = Idle
    /\ exists
    /\ ~GrantedAlready(EndOfPeriod(now))
    /\ Begin(p, [op |-> "grant", of |-> EndOfPeriod(now)])
    /\ UNCHANGED <<balances, bookings, pg, txn, charges, now>>

GrantCommit(p) ==
    /\ job[p].op = "grant"
    /\ NextLot \in LotIds
    /\ lots' = AddLot(lots, job[p].of)
    /\ granted' = granted + Weekly
    /\ Record("WEEKLY_GRANT", Weekly)
    /\ job' = [job EXCEPT ![p] = Idle]
    /\ UNCHANGED <<exists, purchased, bookings, pg, charges, crossed, now>>

Due(ls) == {l \in DOMAIN ls : ls[l].remaining > 0 /\ ls[l].exp <= now}

\* runExpire, on Sunday 23:59: reads the lots that are due, with what remains.
ExpireList(p) ==
    /\ job[p] = Idle
    /\ now % 2 = 1
    /\ Due(lots) # {}
    /\ job' = [job EXCEPT ![p] =
                 [op |-> "expire", todo |-> [l \in Due(lots) |-> lots[l].remaining]]]
    /\ UNCHANGED <<balances, bookings, pg, txn, charges, crossed, now>>

\* For each lot a transaction that reads the account without locking it ...
ExpireRead(p) ==
    /\ job[p].op = "expire"
    /\ \E l \in DOMAIN job[p].todo :
         job' = [job EXCEPT ![p] = [op |-> "expireLot", todo |-> job[p].todo, lot |-> l,
                                    granted |-> granted]]
    /\ UNCHANGED <<balances, bookings, pg, txn, charges, crossed, now>>

\* ... and writes what it computed from both reads.
ExpireCommit(p) ==
    /\ job[p].op = "expireLot"
    /\ LET l == job[p].lot
           stale == job[p].todo[l]
           left == DOMAIN job[p].todo \ {l}
           rest == job[p].granted - stale
           changed == stale # lots[l].remaining \/ job[p].granted # granted
       IN /\ granted' = IF rest < 0 THEN 0 ELSE rest
          /\ lots' = [lots EXCEPT ![l].remaining = 0]
          /\ Record("WEEKLY_EXPIRE", -stale)
          /\ job' = [job EXCEPT ![p] =
                       IF left = {} THEN Idle
                       ELSE [op |-> "expire", todo |-> [m \in left |-> job[p].todo[m]]]]
          /\ crossed' = IF changed THEN crossed \cup {[op |-> "expire", of |-> l]} ELSE crossed
    /\ UNCHANGED <<exists, purchased, bookings, pg, charges, now>>

\* The process dies, or Postgres breaks a deadlock (the job holds a lot and
\* wants the account, a consumption the reverse): what it committed stays.
Abort(p) ==
    /\ job[p] # Idle
    /\ job' = [job EXCEPT ![p] = Idle]
    /\ UNCHANGED <<balances, bookings, pg, txn, charges, crossed, now>>

Tick ==
    /\ now < MaxTime
    /\ now' = now + 1
    /\ UNCHANGED <<balances, bookings, pg, txn, charges, crossed, job>>

(****************************************************************************)
(* The specification.                                                       *)
(****************************************************************************)
Init ==
    /\ exists = FALSE
    /\ purchased = 0 /\ granted = 0
    /\ lots = <<>>
    /\ spend = [r \in Refs |-> NoSplit]
    /\ open = {}
    /\ payment = [k \in Keys |-> NotThere]
    /\ txn = [type |-> "none", amount |-> 0, mark |-> FALSE]
    /\ charges = 0
    /\ pgRefunds = [k \in Keys |-> 0]
    /\ crossed = {}
    /\ now = 0
    /\ job = [p \in Procs |-> Idle]

Next ==
    \/ EnsureAccount
    \/ \E ref \in Refs : Consume(ref) \/ Refund(ref)
    \/ Charge
    \/ \E key \in Keys : PgCharge(key)
    \/ \E p \in Procs, key \in Keys : PgRefundRead(p, key)
    \/ \E p \in Procs :
         \/ PgRefundCommit(p)
         \/ GrantRead(p) \/ GrantCommit(p)
         \/ ExpireList(p) \/ ExpireRead(p) \/ ExpireCommit(p)
         \/ Abort(p)
    \/ Tick

Spec == Init /\ [][Next]_vars

(****************************************************************************)
(* Properties that hold whatever the processes interleave.                  *)
(****************************************************************************)
\* A SPEND, CHARGE, WEEKLY_GRANT or booking REFUND row records exactly the
\* change of what the student can spend, however the split over lots and
\* purchased credits fell out and whatever jobs were half way (consumeWithin,
\* refundWithin, chargeWithin, runGrant).
NewRow(types) == txn'.mark # txn.mark /\ txn'.type \in types
RowsMoveCredits ==
    [][/\ exists
       /\ \/ NewRow({"SPEND", "CHARGE", "WEEKLY_GRANT"})
          \/ NewRow({"REFUND"}) /\ open' # open
       => Spendable' - Spendable = txn'.amount]_vars

\* Granted credits go before purchased ones, and those that expire sooner
\* before those that expire later (credit-consume.ts).
SoonestSpentFirst ==
    [][NewRow({"SPEND"}) =>
         /\ purchased' < purchased => InLots(lots') = 0
         /\ \A l, m \in DOMAIN lots :
              lots[l].exp < lots[m].exp /\ lots'[m].remaining < lots[m].remaining
              => lots'[l].remaining = 0]_vars

\* Nothing is carried over: once a lot has expired no refund and no job fills
\* it again (planRefund gives the expired part back as purchased credits).
NoCarryOver ==
    [][\A l \in DOMAIN lots :
         lots[l].exp <= now => lots'[l].remaining <= lots[l].remaining]_vars

\* A period gets a second lot, and a payment is taken back a second time, only
\* by jobs that had all looked (runGrant for a lot of the period, applyPgRefund
\* at refunded_at) before one of them wrote: not by a later run, by the first
\* grant of a new account, or by a job that died and was run again.
TwiceOnlyWhenCrossed ==
    /\ \A l, m \in DOMAIN lots :
         l # m /\ lots[l].exp = lots[m].exp => [op |-> "grant", of |-> lots[l].exp] \in crossed
    /\ \A k \in Keys : pgRefunds[k] > 1 => [op |-> "pgRefund", of |-> k] \in crossed

\* granted_balance, which the app shows, is the sum of what the lots hold, and
\* no lot holds less than nothing or more than was granted into it
\* (consumeWithin, refundWithin, runGrant and runExpire all maintain both).
GrantedIsLots ==
    /\ granted = InLots(lots)
    /\ \A l \in DOMAIN lots : lots[l].remaining \in 0 .. lots[l].amount

\* They part only by an expiry (runExpire) that wrote what it had computed from a
\* lot or an account changed since: not by any other call, alone or interleaved.
DriftOnlyWhenStale ==
    (\A w \in crossed : w.op # "expire") => GrantedIsLots

\* The two together: what the jobs that do not lock the account can do to it, and
\* only when another call falls between their reads and their writes.
SlipsNeedACrossing == TwiceOnlyWhenCrossed /\ DriftOnlyWhenStale
=============================================================================
