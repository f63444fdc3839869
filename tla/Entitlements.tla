----------------------------- MODULE Entitlements -----------------------------
(****************************************************************************)
(* service_entitlement and redemption_code: what opens the paid services of *)
(* an account.  A product is a set of services; a grant writes one row for  *)
(* each of them in one transaction.  Redeeming a code claims it by a        *)
(* conditional update and grants in a second transaction.  The expiry check *)
(* reads the rows, tells their owners one by one and then marks the rows it *)
(* has read.                                                                *)
(****************************************************************************)
EXTENDS Integers, FiniteSets

CONSTANTS
    Accounts,     \* users who may redeem
    Codes,        \* redemption_code rows
    CodeProduct,  \* product_key of a code
    Products,     \* the services each product opens (PRODUCTS)
    Redeemers,    \* redeem calls in flight
    ExpiryJobs,   \* expiry checks in flight
    ValidUntil,   \* valid_until of a code
    GrantDays,    \* grant_expires_at of a code, as an instant
    WithinDays,   \* the notice period of the expiry check
    MaxDay        \* bound of the calendar

\* redeemed_by IS NULL.
Nobody == "nobody"

\* Every product opens a service, and nobody is no account.
ASSUME EntitlementsAssumption ==
    /\ Nobody \notin Accounts
    /\ \A p \in DOMAIN Products : Products[p] # {}
    /\ CodeProduct \in [Codes -> DOMAIN Products]
    /\ ValidUntil \in [Codes -> Nat] /\ GrantDays \in [Codes -> Nat]
    /\ WithinDays \in Nat /\ MaxDay \in Nat

VARIABLES
    today,
    entitled,    \* service_entitlement rows
    revoked,     \* those with revoked_at
    marked,      \* those with expiry_notified_at
    redeemedBy,  \* redemption_code.redeemed_by
    redeem,      \* what each redeem call is doing
    expiry,      \* what each expiry check is doing
    announced,   \* history: rows whose owner was told of them
    unredeemed   \* history: codes whose call ended between claim and grant

entitlementRows == <<entitled, revoked, marked>>
entitlementsVars == <<today, entitled, revoked, marked, redeemedBy, redeem, expiry,
                      announced, unredeemed>>

NoWork == [at |-> "idle"]

\* PRODUCTS[key].services, one row for each.
GrantRows(owner, product, source, of, until) ==
    {[owner |-> owner, service |-> s, source |-> source, of |-> of, until |-> until] :
        s \in Products[product]}

EntitlementsInit ==
    /\ today = 0
    /\ entitled = {} /\ revoked = {} /\ marked = {}
    /\ redeemedBy = [c \in Codes |-> Nobody]
    /\ redeem = [r \in Redeemers |-> NoWork]
    /\ expiry = [j \in ExpiryJobs |-> NoWork]
    /\ announced = {} /\ unredeemed = {}

(****************************************************************************)
(* RedemptionService.redeem.                                                *)
(****************************************************************************)
ReadCode(r, a, c) ==
    /\ redeem[r] = NoWork
    /\ redeemedBy[c] = Nobody
    /\ ValidUntil[c] >= today
    /\ redeem' = [redeem EXCEPT ![r] = [at |-> "claim", by |-> a, code |-> c]]
    /\ UNCHANGED <<today, entitlementRows, redeemedBy, expiry, announced, unredeemed>>

\* Mutant: claimed by the id alone.
Unclaimed_ById(c) == TRUE
\* redeemed_by IS NULL in the WHERE of the claim.
Unclaimed(c) == redeemedBy[c] = Nobody

ClaimCode(r) ==
    /\ redeem[r].at = "claim"
    /\ IF Unclaimed(redeem[r].code)
       THEN /\ redeemedBy' = [redeemedBy EXCEPT ![redeem[r].code] = redeem[r].by]
            /\ redeem' = [redeem EXCEPT ![r].at = "grant"]
       ELSE /\ redeem' = [redeem EXCEPT ![r] = NoWork]
            /\ UNCHANGED redeemedBy
    /\ UNCHANGED <<today, entitlementRows, expiry, announced, unredeemed>>

GrantCode(r) ==
    /\ redeem[r].at = "grant"
    /\ LET c == redeem[r].code
       IN entitled' = entitled \cup
              GrantRows(redeem[r].by, CodeProduct[c], "redemption", c, GrantDays[c])
    /\ redeem' = [redeem EXCEPT ![r] = NoWork]
    /\ UNCHANGED <<today, revoked, marked, redeemedBy, expiry, announced, unredeemed>>

\* The grant fails or the process dies: the claim stays.
RedeemEnds(r) ==
    /\ redeem[r] # NoWork
    /\ unredeemed' = IF redeem[r].at = "grant" THEN unredeemed \cup {redeem[r].code}
                                              ELSE unredeemed
    /\ redeem' = [redeem EXCEPT ![r] = NoWork]
    /\ UNCHANGED <<today, entitlementRows, redeemedBy, expiry, announced>>

(****************************************************************************)
(* EntitlementService: revoke and runExpiryCheck.                           *)
(****************************************************************************)
RevokeRow(e) ==
    /\ e \in entitled \ revoked
    /\ revoked' = revoked \cup {e}
    /\ UNCHANGED <<today, entitled, marked, redeemedBy, redeem, expiry, announced, unredeemed>>

ExpiryDue ==
    {e \in entitled \ (revoked \cup marked) :
        e.until > today /\ e.until <= today + WithinDays}

ListExpiring(j) ==
    /\ expiry[j] = NoWork
    /\ ExpiryDue # {}
    /\ expiry' = [expiry EXCEPT ![j] =
           [at |-> "notify", due |-> ExpiryDue, left |-> {e.owner : e \in ExpiryDue}]]
    /\ UNCHANGED <<today, entitlementRows, redeemedBy, redeem, announced, unredeemed>>

NotifyOwner(j, a) ==
    /\ expiry[j].at = "notify"
    /\ a \in expiry[j].left
    /\ announced' = announced \cup {e \in expiry[j].due : e.owner = a}
    /\ expiry' = [expiry EXCEPT ![j].left = @ \ {a}]
    /\ UNCHANGED <<today, entitlementRows, redeemedBy, redeem, unredeemed>>

\* The rows that were read, not those that are due now.
MarkSet(j) == expiry[j].due

MarkNotified(j) ==
    /\ expiry[j].at = "notify"
    /\ expiry[j].left = {}
    /\ marked' = marked \cup MarkSet(j)
    /\ expiry' = [expiry EXCEPT ![j] = NoWork]
    /\ UNCHANGED <<today, entitled, revoked, redeemedBy, redeem, announced, unredeemed>>

ExpiryDies(j) ==
    /\ expiry[j] # NoWork
    /\ expiry' = [expiry EXCEPT ![j] = NoWork]
    /\ UNCHANGED <<today, entitlementRows, redeemedBy, redeem, announced, unredeemed>>

EntitlementDay ==
    /\ today < MaxDay
    /\ today' = today + 1
    /\ UNCHANGED <<entitlementRows, redeemedBy, redeem, expiry, announced, unredeemed>>

EntitlementsNext ==
    \/ \E r \in Redeemers :
          \/ \E a \in Accounts, c \in Codes : ReadCode(r, a, c)
          \/ ClaimCode(r) \/ GrantCode(r) \/ RedeemEnds(r)
    \/ \E e \in entitled : RevokeRow(e)
    \/ \E j \in ExpiryJobs :
          \/ ListExpiring(j) \/ MarkNotified(j) \/ ExpiryDies(j)
          \/ \E a \in Accounts : NotifyOwner(j, a)
    \/ EntitlementDay

EntitlementsSpec == EntitlementsInit /\ [][EntitlementsNext]_entitlementsVars

(****************************************************************************)
(* Properties.                                                              *)
(****************************************************************************)
FromCode(c) == {e \in entitled : e.source = "redemption" /\ e.of = c}

\* A code is worth exactly one grant, all services of its product, to the account
\* that claimed it; claimed without a grant it is only while its call is between
\* the two transactions, or was cut short there.
CodeIsOneGrant ==
    \A c \in Codes :
        /\ FromCode(c) \in {{}, GrantRows(redeemedBy[c], CodeProduct[c], "redemption",
                                          c, GrantDays[c])}
        /\ redeemedBy[c] # Nobody /\ FromCode(c) = {} =>
              \/ c \in unredeemed
              \/ \E r \in Redeemers : redeem[r].at = "grant" /\ redeem[r].code = c

\* A row marked as announced was announced, although rows are granted and revoked
\* while the check is sending (a check that dies may announce a row twice).
MarkedIsTold == marked \subseteq announced

\* The two together: grants and notices agree with the codes and the rows.
EntitlementsConsistent == CodeIsOneGrant /\ MarkedIsTold
=============================================================================
