------------------------------- MODULE Payroll -------------------------------
(****************************************************************************)
(* The monthly settlement of one teacher: payroll_estimate and the calls    *)
(* settle and markPaid of PayrollService, by administrators who overlap.    *)
(* settle computes the revenue of the current month, looks for the month's  *)
(* row and writes it; no unique index holds the rows of a month to one.     *)
(* Shares, deductions and the base salary are left out: what is settled     *)
(* counts in the revenue that it was computed from.                         *)
(****************************************************************************)
EXTENDS Integers, FiniteSets, FiniteSetsExt

CONSTANTS
    Admins,                            \* calls of settle and markPaid under way
    MaxMonth, MaxSessions, MaxRows, MaxSettled     \* bounds

ASSUME PayrollAssumption ==
    MaxMonth \in Nat \ {0} /\ {MaxSessions, MaxRows, MaxSettled} \subseteq Nat

Months == 1 .. MaxMonth
Rows == 1 .. MaxRows

VARIABLES
    month,       \* the current one
    given,       \* consultations done, by the month they started in; each brings one
    estimate,    \* payroll_estimate, a function on the rows in use
    admin,       \* what each administrator's call is doing
    settled,     \* history: settlements written for each month
    paidOut,     \* history: payments made for each month
    paidTwice    \* history: payments by a call that had read the row before another paid it

payrollVars == <<month, given, estimate, admin, settled, paidOut, paidTwice>>

Vacant == [at |-> "free"]

\* Mutant: all that the teacher ever gave.
ConfirmedRevenue_Ever(m) == MapThenSumSet(LAMBDA n : given[n], Months)

ConfirmedRevenue(m) == given[m]

RowsOf(m) == {r \in DOMAIN estimate : estimate[r].month = m}

Payable(r) == estimate[r].status # "paid"

PayrollInit ==
    /\ month = 1
    /\ given = [m \in Months |-> 0]
    /\ estimate = [r \in {} |-> {}]
    /\ admin = [a \in Admins |-> Vacant]
    /\ settled = [m \in Months |-> 0]
    /\ paidOut = [m \in Months |-> 0]
    /\ paidTwice = [m \in Months |-> 0]

----------------------------------------------------------------------------

\* A consultation is completed in its month or later.
GiveSession(m) ==
    /\ m <= month /\ given[m] < MaxSessions
    /\ given' = [given EXCEPT ![m] = @ + 1]
    /\ UNCHANGED <<month, estimate, admin, settled, paidOut, paidTwice>>

NextMonth ==
    /\ month < MaxMonth
    /\ month' = month + 1
    /\ UNCHANGED <<given, estimate, admin, settled, paidOut, paidTwice>>

\* settle: the amount of the current month.
Compute(a) ==
    /\ admin[a] = Vacant
    /\ admin' = [admin EXCEPT ![a] = [at |-> "computed", month |-> month,
                                      amount |-> ConfirmedRevenue(month)]]
    /\ UNCHANGED <<month, given, estimate, settled, paidOut, paidTwice>>

\* settle: the month's row, any of them when there are several; 0 when none.
FindRow(a) ==
    /\ admin[a].at = "computed"
    /\ LET m == admin[a].month
       IN \E r \in IF RowsOf(m) = {} THEN {0} ELSE RowsOf(m) :
             admin' = [admin EXCEPT ![a] = [at |-> "found", month |-> m,
                                            amount |-> admin[a].amount, row |-> r]]
    /\ UNCHANGED <<month, given, estimate, settled, paidOut, paidTwice>>

\* settle: the row is confirmed again or made, whatever has become of it since.
Settle(a) ==
    /\ admin[a].at = "found"
    /\ LET m == admin[a].month
           new == Cardinality(DOMAIN estimate) + 1
           r == IF admin[a].row = 0 THEN new ELSE admin[a].row
           row == [month |-> m, status |-> "confirmed", amount |-> admin[a].amount]
       IN /\ r \in Rows /\ settled[m] < MaxSettled
          /\ estimate' = [i \in DOMAIN estimate \cup {r} |-> IF i = r THEN row ELSE estimate[i]]
          /\ settled' = [settled EXCEPT ![m] = @ + 1]
    /\ admin' = [admin EXCEPT ![a] = Vacant]
    /\ UNCHANGED <<month, given, paidOut, paidTwice>>

\* markPaid: reads a row of the month it is asked for, then updates it by its id.
ReadUnpaid(a, r) ==
    /\ admin[a] = Vacant
    /\ r \in DOMAIN estimate /\ Payable(r)
    /\ admin' = [admin EXCEPT ![a] = [at |-> "pays", row |-> r, read |-> estimate[r].status]]
    /\ UNCHANGED <<month, given, estimate, settled, paidOut, paidTwice>>

MarkPaid(a) ==
    /\ admin[a].at = "pays"
    /\ LET r == admin[a].row
           m == estimate[r].month
       IN /\ estimate' = [estimate EXCEPT ![r].status = "paid"]
          /\ paidOut' = [paidOut EXCEPT ![m] = @ + 1]
          /\ paidTwice' = IF estimate[r].status = "paid" /\ admin[a].read # "paid"
                          THEN [paidTwice EXCEPT ![m] = @ + 1] ELSE paidTwice
    /\ admin' = [admin EXCEPT ![a] = Vacant]
    /\ UNCHANGED <<month, given, settled>>

\* The call dies between two steps.
GiveUp(a) ==
    /\ admin[a] # Vacant
    /\ admin' = [admin EXCEPT ![a] = Vacant]
    /\ UNCHANGED <<month, given, estimate, settled, paidOut, paidTwice>>

PayrollNext ==
    \/ NextMonth
    \/ \E m \in Months : GiveSession(m)
    \/ \E a \in Admins :
          \/ Compute(a) \/ FindRow(a) \/ Settle(a) \/ MarkPaid(a) \/ GiveUp(a)
          \/ \E r \in Rows : ReadUnpaid(a, r)

PayrollSpec == PayrollInit /\ [][PayrollNext]_payrollVars

----------------------------------------------------------------------------

\* A month is paid no more often than it was settled, but for calls of markPaid
\* that had both read its row unpaid; and several rows of a month are each paid once.
PaidOncePerSettlement == \A m \in Months : paidOut[m] <= settled[m] + paidTwice[m]

\* Whatever the rows of a month say, none says more than the teacher earned in it:
\* a session that crosses a settlement, or the month's end, counts in no other month.
NoMonthOverstated ==
    \A r \in DOMAIN estimate : estimate[r].amount <= given[estimate[r].month]

\* The two together: a settlement is fair to the one who pays.
SettlementIsFair == PaidOncePerSettlement /\ NoMonthOverstated
=============================================================================
