----------------------------- MODULE AcademyClaims -----------------------------
(****************************************************************************)
(* Who runs an academy: teachers claim it, administrators approve or reject.*)
(* Submission and review check first and write later, by id; a rejection is *)
(* three writes.                                                            *)
(****************************************************************************)
EXTENDS FiniteSets

CONSTANTS
    Claims,       \* academy_claim rows of one academy, each of its own claimant
    Desks         \* requests of claimants and administrators in flight

NoOwner == "no owner"

ASSUME ClaimsAssumption == NoOwner \notin Claims

VARIABLES
    claim,        \* academy_claim.status
    academy,      \* claim_status, and owner_id as the claim that gave it
    desk,         \* what each request is doing
    overlapped,   \* history: claims submitted or reviewed while another request on
                  \* the same academy was under way, or whose request died half way
    together,     \* history: claims read as the only one before another's row was there
    judgedTwice     \* history: claims two administrators judged at the same time

crossings == <<overlapped, together, judgedTwice>>
claimsVars == <<claim, academy, desk, crossings>>

Closed == [at |-> "closed"]

ClaimsInit ==
    /\ claim = [c \in Claims |-> "absent"]
    /\ academy = [status |-> "none", owner |-> NoOwner]
    /\ desk = [d \in Desks |-> Closed]
    /\ overlapped = {} /\ together = {} /\ judgedTwice = {}

WithStatus(statuses) == {c \in Claims : claim[c] \in statuses}
UnderWay == {desk[d].of : d \in {d \in Desks : desk[d] # Closed}}
InStep(steps) == {desk[d].of : d \in {d \in Desks : desk[d].at \in steps}}

Opens(d, at, c) ==
    /\ desk[d] = Closed
    /\ desk' = [desk EXCEPT ![d] = [at |-> at, of |-> c]]
    /\ overlapped' = IF UnderWay = {} THEN overlapped ELSE overlapped \cup UnderWay \cup {c}
Shuts(d) == desk' = [desk EXCEPT ![d] = Closed]

(****************************************************************************)
(* submit.                                                                  *)
(****************************************************************************)
\* Mutant: an approved claim does not stop another.
NoActiveClaim_PendingOnly == WithStatus({"pending"}) = {}
NoActiveClaim == WithStatus({"pending", "approved"}) = {}

ReadClaims(d, c) ==
    /\ claim[c] = "absent" /\ c \notin UnderWay
    /\ NoActiveClaim
    /\ Opens(d, "create", c)
    /\ together' = IF InStep({"create"}) = {} THEN together
                   ELSE together \cup InStep({"create"}) \cup {c}
    /\ UNCHANGED <<claim, academy, judgedTwice>>

CreateClaim(d) ==
    /\ desk[d].at = "create"
    /\ claim' = [claim EXCEPT ![desk[d].of] = "pending"]
    /\ desk' = [desk EXCEPT ![d].at = "mark"]
    /\ UNCHANGED <<academy, crossings>>

MarkPending(d) ==
    /\ desk[d].at = "mark"
    /\ academy' = [academy EXCEPT !.status = "pending"]
    /\ Shuts(d)
    /\ UNCHANGED <<claim, crossings>>

(****************************************************************************)
(* review.                                                                  *)
(****************************************************************************)
ReadPending(d, c, verdict) ==
    /\ claim[c] = "pending"
    /\ Opens(d, verdict, c)
    /\ judgedTwice' = judgedTwice \cup ({c} \cap InStep({"approve", "reject"}))
    /\ UNCHANGED <<claim, academy, together>>

\* Claim and academy in one transaction.
ApproveClaim(d) ==
    /\ desk[d].at = "approve"
    /\ claim' = [claim EXCEPT ![desk[d].of] = "approved"]
    /\ academy' = [status |-> "approved", owner |-> desk[d].of]
    /\ Shuts(d)
    /\ UNCHANGED crossings

RejectClaim(d) ==
    /\ desk[d].at = "reject"
    /\ claim' = [claim EXCEPT ![desk[d].of] = "rejected"]
    /\ desk' = [desk EXCEPT ![d].at = "look"]
    /\ UNCHANGED <<academy, crossings>>

ReadStillApproved(d) ==
    /\ desk[d].at = "look"
    /\ IF WithStatus({"approved"}) = {} THEN desk' = [desk EXCEPT ![d].at = "restore"] ELSE Shuts(d)
    /\ UNCHANGED <<claim, academy, crossings>>

RestoreAcademy(d) ==
    /\ desk[d].at = "restore"
    /\ academy' = [academy EXCEPT !.status = "none"]
    /\ Shuts(d)
    /\ UNCHANGED <<claim, crossings>>

DeskDies(d) ==
    /\ desk[d] # Closed
    /\ overlapped' = IF desk[d].at \in {"mark", "look", "restore"}
                  THEN overlapped \cup {desk[d].of} ELSE overlapped
    /\ Shuts(d)
    /\ UNCHANGED <<claim, academy, together, judgedTwice>>

ClaimsNext ==
    \E d \in Desks :
        \/ CreateClaim(d) \/ MarkPending(d) \/ ApproveClaim(d) \/ RejectClaim(d)
        \/ ReadStillApproved(d) \/ RestoreAcademy(d) \/ DeskDies(d)
        \/ \E c \in Claims :
              \/ ReadClaims(d, c)
              \/ \E verdict \in {"approve", "reject"} : ReadPending(d, c, verdict)

ClaimsSpec == ClaimsInit /\ [][ClaimsNext]_claimsVars

(****************************************************************************)
(* Properties.                                                              *)
(****************************************************************************)
\* An academy has at most one active claim, its owner is who holds the approved one,
\* and it says pending, approved or none as its claims do.  Two active claims need
\* submissions that were read together, an owner without an approved claim, who may
\* still edit the academy (assertOwner), needs two administrators who judged his claim
\* at the same time, and no other crossing of requests breaks either.
OneOwner ==
    /\ \A c, o \in WithStatus({"pending", "approved"}) :
          c # o => {c, o} \subseteq together \/ {c, o} \cap judgedTwice # {}
    /\ academy.owner = NoOwner => WithStatus({"approved"}) = {}
    /\ academy.owner \notin judgedTwice =>
          /\ academy.owner # NoOwner => claim[academy.owner] = "approved"
          /\ WithStatus({"approved"}) \subseteq {academy.owner} \cup together \cup judgedTwice
    /\ overlapped = {} /\ UnderWay = {} =>
          academy.status = IF WithStatus({"approved"}) # {} THEN "approved"
                           ELSE IF WithStatus({"pending"}) # {} THEN "pending" ELSE "none"
=============================================================================
