----------------------------- MODULE GuardianLinks -----------------------------
(****************************************************************************)
(* One guardian and one student: the link between them, with the history    *)
(* that limits how often a refused guardian may ask again, and the plans    *)
(* the guardian proposes over the link.                                     *)
(*                                                                          *)
(* requestLink revives an ended link only if it is still ended; respondLink *)
(* and propose check a row they have read and then write by id; accept and  *)
(* decline claim the proposal, and accept makes the student's task after.   *)
(****************************************************************************)
EXTENDS Integers, FiniteSets

CONSTANTS
    LinkCalls,     \* requests about the link in flight
    PlanCalls,     \* requests about plans in flight
    Plans,         \* guardian_plan_item rows
    RelinkMax,     \* RELINK_MAX_ATTEMPTS
    MaxUnlocks     \* bound: unlocks by an administrator

ASSUME GuardianAssumption ==
    /\ IsFiniteSet(LinkCalls) /\ LinkCalls # {}
    /\ RelinkMax \in Nat \ {0} /\ MaxUnlocks \in Nat

VARIABLES
    guardianLink,  \* guardian_student_link.status
    attempts,    \* link events that revived it, since the last unlock
    cooling,     \* the last event that ended it, since the last unlock, is recent
    unlocks,     \* admin_unlock events
    linkCall,    \* what each request about the link is doing
    plan,        \* guardian_plan_item.status
    planCall,    \* what each request about a plan is doing
    tasks,       \* student_task rows made from a plan
    proposals, acceptances, refusals,  \* history: how often each plan was ...
    taskless     \* history: acceptances cut short before the task

planHistory == <<proposals, acceptances, refusals, taskless>>
linkVars == <<guardianLink, attempts, cooling, unlocks, linkCall>>
planVars == <<plan, planCall, tasks, planHistory>>
guardianVars == <<linkVars, planVars>>

NoRequest == [at |-> "none"]
Ended == {"rejected", "revoked"}

GuardianInit ==
    /\ guardianLink = "absent" /\ attempts = 0 /\ cooling = FALSE /\ unlocks = 0
    /\ linkCall = [c \in LinkCalls |-> NoRequest]
    /\ plan = [p \in Plans |-> "draft"]
    /\ planCall = [c \in PlanCalls |-> NoRequest]
    /\ tasks = [p \in Plans |-> 0]
    /\ proposals = [p \in Plans |-> 0]
    /\ acceptances = [p \in Plans |-> 0] /\ refusals = [p \in Plans |-> 0]
    /\ taskless = [p \in Plans |-> 0]

(****************************************************************************)
(* requestLink.                                                             *)
(****************************************************************************)
\* The pair is unique: of two first requests one is refused by the index.
FirstRequest ==
    /\ guardianLink = "absent"
    /\ guardianLink' = "pending"
    /\ UNCHANGED <<attempts, cooling, unlocks, linkCall, planVars>>

\* evaluateRelink on relinkHistory.
MayRelink == attempts < RelinkMax /\ ~cooling

ReadRelink(c) ==
    /\ linkCall[c] = NoRequest
    /\ guardianLink \in Ended
    /\ MayRelink
    /\ linkCall' = [linkCall EXCEPT ![c] = [at |-> "relink"]]
    /\ UNCHANGED <<guardianLink, attempts, cooling, unlocks, planVars>>

\* Mutant: revived by id.
StillEnded_ById == TRUE
\* updateMany where status in RELINKABLE_STATUSES.
StillEnded == guardianLink \in Ended

Relink(c) ==
    /\ linkCall[c].at = "relink"
    /\ IF StillEnded THEN guardianLink' = "pending" /\ attempts' = attempts + 1
                     ELSE UNCHANGED <<guardianLink, attempts>>
    /\ linkCall' = [linkCall EXCEPT ![c] = NoRequest]
    /\ UNCHANGED <<cooling, unlocks, planVars>>

(****************************************************************************)
(* respondLink, by the student or an administrator; unlockRelink; time.     *)
(****************************************************************************)
\* GUARDIAN_LINK_TRANSITIONS and GUARDIAN_LINK_ADMIN_TRANSITIONS.
LinkTransitions(admin) ==
    {<<"pending", "approved">>, <<"pending", "rejected">>, <<"approved", "revoked">>}
        \cup IF admin THEN {<<"rejected", "approved">>, <<"revoked", "approved">>} ELSE {}

ReadRespond(c, admin, to) ==
    /\ linkCall[c] = NoRequest
    /\ <<guardianLink, to>> \in LinkTransitions(admin)
    /\ linkCall' = [linkCall EXCEPT ![c] = [at |-> "respond", to |-> to]]
    /\ UNCHANGED <<guardianLink, attempts, cooling, unlocks, planVars>>

Respond(c) ==
    /\ linkCall[c].at = "respond"
    /\ guardianLink' = linkCall[c].to
    /\ cooling' = (cooling \/ guardianLink' \in Ended)
    /\ linkCall' = [linkCall EXCEPT ![c] = NoRequest]
    /\ UNCHANGED <<attempts, unlocks, planVars>>

CooldownPasses ==
    /\ cooling
    /\ cooling' = FALSE
    /\ UNCHANGED <<guardianLink, attempts, unlocks, linkCall, planVars>>

ReadUnlock(c) ==
    /\ linkCall[c] = NoRequest
    /\ guardianLink \in Ended /\ ~MayRelink
    /\ unlocks < MaxUnlocks
    /\ linkCall' = [linkCall EXCEPT ![c] = [at |-> "unlock"]]
    /\ UNCHANGED <<guardianLink, attempts, cooling, unlocks, planVars>>

\* A note in the history: everything before it no longer counts.
Unlock(c) ==
    /\ linkCall[c].at = "unlock"
    /\ unlocks < MaxUnlocks
    /\ unlocks' = unlocks + 1
    /\ attempts' = 0 /\ cooling' = FALSE
    /\ linkCall' = [linkCall EXCEPT ![c] = NoRequest]
    /\ UNCHANGED <<guardianLink, planVars>>

(****************************************************************************)
(* The plans.  The guardian needs an approved link when he proposes; the    *)
(* answer of the student does not look at the link again.                   *)
(****************************************************************************)
ReadPropose(c, p) ==
    /\ planCall[c] = NoRequest
    /\ plan[p] = "draft"
    /\ guardianLink = "approved"
    /\ planCall' = [planCall EXCEPT ![c] = [at |-> "propose", plan |-> p]]
    /\ UNCHANGED <<linkVars, plan, tasks, planHistory>>

\* By id: a second proposal may come after the answer to the first.
Propose(c) ==
    /\ planCall[c].at = "propose"
    /\ plan' = [plan EXCEPT ![planCall[c].plan] = "proposed"]
    /\ proposals' = [proposals EXCEPT ![planCall[c].plan] =
                         IF plan[planCall[c].plan] = "proposed" THEN @ ELSE @ + 1]
    /\ planCall' = [planCall EXCEPT ![c] = NoRequest]
    /\ UNCHANGED <<linkVars, tasks, acceptances, refusals, taskless>>

ReadProposal(c, p, next) ==
    /\ planCall[c] = NoRequest
    /\ plan[p] = "proposed"
    /\ planCall' = [planCall EXCEPT ![c] = [at |-> next, plan |-> p]]
    /\ UNCHANGED <<linkVars, plan, tasks, planHistory>>

\* Mutant: answered by id.
StillProposed_ById(p) == TRUE
\* claimProposal: updateMany where status = proposed.
StillProposed(p) == plan[p] = "proposed"

Accept(c) ==
    /\ planCall[c].at = "accepted"
    /\ LET p == planCall[c].plan
       IN IF StillProposed(p)
          THEN /\ plan' = [plan EXCEPT ![p] = "accepted"]
               /\ acceptances' = [acceptances EXCEPT ![p] = @ + 1]
               /\ planCall' = [planCall EXCEPT ![c].at = "task"]
          ELSE /\ planCall' = [planCall EXCEPT ![c] = NoRequest]
               /\ UNCHANGED <<plan, acceptances>>
    /\ UNCHANGED <<linkVars, tasks, proposals, refusals, taskless>>

CreateTask(c) ==
    /\ planCall[c].at = "task"
    /\ tasks' = [tasks EXCEPT ![planCall[c].plan] = @ + 1]
    /\ planCall' = [planCall EXCEPT ![c] = NoRequest]
    /\ UNCHANGED <<linkVars, plan, planHistory>>

AcceptDies(c) ==
    /\ planCall[c].at = "task"
    /\ taskless' = [taskless EXCEPT ![planCall[c].plan] = @ + 1]
    /\ planCall' = [planCall EXCEPT ![c] = NoRequest]
    /\ UNCHANGED <<linkVars, plan, tasks, proposals, acceptances, refusals>>

Decline(c) ==
    /\ planCall[c].at = "declined"
    /\ LET p == planCall[c].plan
       IN IF StillProposed(p)
          THEN /\ plan' = [plan EXCEPT ![p] = "declined"]
               /\ refusals' = [refusals EXCEPT ![p] = @ + 1]
          ELSE UNCHANGED <<plan, refusals>>
    /\ planCall' = [planCall EXCEPT ![c] = NoRequest]
    /\ UNCHANGED <<linkVars, tasks, proposals, acceptances, taskless>>

LinkNext ==
    \/ FirstRequest \/ CooldownPasses
    \/ \E c \in LinkCalls :
          \/ ReadRelink(c) \/ Relink(c) \/ Respond(c) \/ ReadUnlock(c) \/ Unlock(c)
          \/ \E admin \in BOOLEAN, to \in {"approved", "rejected", "revoked"} :
                ReadRespond(c, admin, to)

PlanNext ==
    \E c \in PlanCalls :
        \/ Propose(c) \/ Accept(c) \/ CreateTask(c) \/ AcceptDies(c) \/ Decline(c)
        \/ \E p \in Plans :
              \/ ReadPropose(c, p)
              \/ \E next \in {"accepted", "declined"} : ReadProposal(c, p, next)

GuardianNext == LinkNext \/ PlanNext

GuardianSpec == GuardianInit /\ [][GuardianNext]_guardianVars

(****************************************************************************)
(* Properties.                                                              *)
(****************************************************************************)
\* A guardian who asks again reopens only a link that was refused or taken back:
\* never one the student or an administrator approved meanwhile.  And he asks again
\* no more often than the limit, requests that were under way together apart.
RelinkedOnlyWhenEnded ==
    [][/\ guardianLink # "pending" /\ guardianLink' = "pending" => guardianLink \in {"absent"} \cup Ended
       /\ attempts' <= RelinkMax + Cardinality(LinkCalls) - 1]_guardianVars

\* The student answers each proposal once: as often as a plan was accepted there is
\* a task, or one is being made, or its request was cut short; a plan proposed twice,
\* because two proposals overlapped its answer, may be answered twice, not more often.
AnsweredOncePerProposal ==
    \A p \in Plans :
        LET answered == acceptances[p] + refusals[p]
        IN /\ answered = proposals[p] - (IF plan[p] = "proposed" THEN 1 ELSE 0)
           /\ acceptances[p] = tasks[p] + taskless[p]
                 + Cardinality({c \in PlanCalls :
                       planCall[c].at = "task" /\ planCall[c].plan = p})
=============================================================================
