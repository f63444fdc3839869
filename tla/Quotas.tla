-------------------------------- MODULE Quotas --------------------------------
(****************************************************************************)
(* The three layers in front of the paid language model, on one day of one  *)
(* user: the count of the user (consume, or check and record for what his   *)
(* grade entitles him to), the total of the day and the count of the        *)
(* purpose.  The counters live in a cache whose incr is atomic and which may*)
(* be away: get then answers null and incr answers 0, whether the increment *)
(* was lost or only its reply.                                              *)
(****************************************************************************)
EXTENDS Integers, FiniteSets

CONSTANTS
    Askers,            \* requests in flight
    Purposes,
    ReservedPurposes,  \* those that may use the total to the full
    TotalLimit,        \* LLM_DAILY_CALL_LIMIT
    DiscretionaryTotal,
    PurposeLimit,
    AbuseLimit,        \* calls of one user a day
    Entitled,          \* aiReportsPerMonth of the user's grade
    MaxEntitled,       \* bounds: attempts on the entitlement,
    MaxOther           \*   and the others

ASSUME QuotasAssumption ==
    /\ ReservedPurposes \subseteq Purposes
    /\ PurposeLimit \in [Purposes -> Nat \ {0}]
    /\ {TotalLimit, DiscretionaryTotal, AbuseLimit} \subseteq Nat \ {0}
    /\ {Entitled, MaxEntitled, MaxOther} \subseteq Nat
    /\ DiscretionaryTotal <= TotalLimit       \* discretionaryTotalLimit
    /\ IsFiniteSet(Purposes) /\ IsFiniteSet(Askers) /\ Askers # {}

VARIABLES
    total, byPurpose,   \* counters of UsageQuota
    byUser,             \* counter of SubjectQuota.consume
    recorded,           \* counter of SubjectQuota.record
    asker,              \* what each request is doing
    tries,              \* attempts begun, entitled ones apart
    called,             \* history: calls let through, by purpose
    succeeded,          \* history: entitled work that succeeded
    missed              \* history: entitled checks and records without the cache

quotasVars == <<total, byPurpose, byUser, recorded, asker, tries,
                called, succeeded, missed>>

Quiet == [at |-> "quiet"]

QuotasInit ==
    /\ total = 0 /\ byPurpose = [p \in Purposes |-> 0] /\ byUser = 0 /\ recorded = 0
    /\ asker = [a \in Askers |-> Quiet]
    /\ tries = [entitled |-> 0, other |-> 0]
    /\ called = [p \in Purposes |-> 0]
    /\ succeeded = 0 /\ missed = 0

\* The cache is away: the increment is lost, or its reply is.
MayCount(counter) == {counter, counter + 1}

Goes(a, record) == asker' = [asker EXCEPT ![a] = record]

\* Mutant: one more than the limit.
Within_OneMore(used, limit) == used <= limit + 1
\* What incr returned, not what was there before.
Within(used, limit) == used <= limit

(****************************************************************************)
(* SubjectQuota.consume: counted first; without the cache it lets pass.     *)
(****************************************************************************)
ConsumeSubject(a, p) ==
    /\ asker[a] = Quiet
    /\ tries.other < MaxOther
    /\ tries' = [tries EXCEPT !.other = @ + 1]
    /\ byUser' = byUser + 1
    /\ Goes(a, IF Within(byUser + 1, AbuseLimit)
               THEN [at |-> "total", of |-> p, entitled |-> FALSE] ELSE Quiet)
    /\ UNCHANGED <<total, byPurpose, recorded, called, succeeded, missed>>

ConsumeWithoutCache(a, p) ==
    /\ asker[a] = Quiet
    /\ tries.other < MaxOther
    /\ tries' = [tries EXCEPT !.other = @ + 1]
    /\ byUser' \in MayCount(byUser)
    /\ Goes(a, [at |-> "total", of |-> p, entitled |-> FALSE])
    /\ UNCHANGED <<total, byPurpose, recorded, called, succeeded, missed>>

(****************************************************************************)
(* AiEntitlementService.run: check, work, record what succeeded.            *)
(****************************************************************************)
\* A grade without the benefit is refused before the counter is read; a counter
\* that cannot be read counts as unused.
CheckEntitlement(a, p, away) ==
    /\ asker[a] = Quiet
    /\ p \in ReservedPurposes
    /\ tries.entitled < MaxEntitled
    /\ Entitled > 0
    /\ away \/ recorded < Entitled
    /\ tries' = [tries EXCEPT !.entitled = @ + 1]
    /\ missed' = IF away THEN missed + 1 ELSE missed
    /\ Goes(a, [at |-> "total", of |-> p, entitled |-> TRUE])
    /\ UNCHANGED <<total, byPurpose, byUser, recorded, called, succeeded>>

Record(a, away) ==
    /\ asker[a].at = "record"
    /\ IF away THEN recorded' \in MayCount(recorded) /\ missed' = missed + 1
               ELSE recorded' = recorded + 1 /\ UNCHANGED missed
    /\ Goes(a, Quiet)
    /\ UNCHANGED <<total, byPurpose, byUser, tries, called, succeeded>>

(****************************************************************************)
(* QuotaLlmProvider.guard: the total, then the purpose.  What was counted   *)
(* stays counted when the next counter, or the cache, refuses.              *)
(****************************************************************************)
Ceiling(p) == IF p \in ReservedPurposes THEN TotalLimit ELSE DiscretionaryTotal

ConsumeTotal(a) ==
    /\ asker[a].at = "total"
    /\ total' = total + 1
    /\ Goes(a, IF Within(total + 1, Ceiling(asker[a].of))
               THEN [asker[a] EXCEPT !.at = "purpose"] ELSE Quiet)
    /\ UNCHANGED <<byPurpose, byUser, recorded, tries, called, succeeded, missed>>

ConsumePurpose(a) ==
    /\ asker[a].at = "purpose"
    /\ LET p == asker[a].of
       IN /\ byPurpose' = [byPurpose EXCEPT ![p] = @ + 1]
          /\ Goes(a, IF Within(byPurpose[p] + 1, PurposeLimit[p])
                     THEN [asker[a] EXCEPT !.at = "call"] ELSE Quiet)
    /\ UNCHANGED <<total, byUser, recorded, tries, called, succeeded, missed>>

\* Fail closed: the cache answers 0.
GuardWithoutCache(a) ==
    /\ asker[a].at \in {"total", "purpose"}
    /\ IF asker[a].at = "total"
       THEN total' \in MayCount(total) /\ UNCHANGED byPurpose
       ELSE /\ \E n \in MayCount(byPurpose[asker[a].of]) :
                  byPurpose' = [byPurpose EXCEPT ![asker[a].of] = n]
            /\ UNCHANGED total
    /\ Goes(a, Quiet)
    /\ UNCHANGED <<byUser, recorded, tries, called, succeeded, missed>>

Call(a, works) ==
    /\ asker[a].at = "call"
    /\ called' = [called EXCEPT ![asker[a].of] = @ + 1]
    /\ succeeded' = IF asker[a].entitled /\ works THEN succeeded + 1 ELSE succeeded
    /\ Goes(a, IF asker[a].entitled /\ works THEN [at |-> "record"] ELSE Quiet)
    /\ UNCHANGED <<total, byPurpose, byUser, recorded, tries, missed>>

QuotasNext ==
    \E a \in Askers :
        \/ ConsumeTotal(a) \/ ConsumePurpose(a) \/ GuardWithoutCache(a)
        \/ \E p \in Purposes : ConsumeSubject(a, p) \/ ConsumeWithoutCache(a, p)
        \/ \E p \in Purposes, away \in BOOLEAN : CheckEntitlement(a, p, away)
        \/ \E away \in BOOLEAN : Record(a, away)
        \/ \E works \in BOOLEAN : Call(a, works)

QuotasSpec == QuotasInit /\ [][QuotasNext]_quotasVars

(****************************************************************************)
(* Properties.                                                              *)
(****************************************************************************)
CallsOf(P) == Cardinality({c \in P \X (1 .. MaxEntitled + MaxOther) : c[2] <= called[c[1]]})

\* However requests interleave and whenever the cache is away, the model is called no
\* more often than each limit allows, the reserve is never spent by the others, and
\* work a grade entitles to is done beyond the limit only by requests that were under
\* way together or were not counted for want of the cache: work that failed costs nothing.
SpentWithinLimits ==
    /\ \A p \in Purposes : called[p] <= PurposeLimit[p]
    /\ CallsOf(Purposes) <= TotalLimit
    /\ CallsOf(Purposes \ ReservedPurposes) <= DiscretionaryTotal
    /\ succeeded <= Entitled + missed + Cardinality(Askers) - 1
    /\ recorded + Cardinality({a \in Askers : asker[a].at = "record"})
           \in succeeded - missed .. succeeded
=============================================================================
