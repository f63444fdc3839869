----------------------------- MODULE PeopleProofs -----------------------------
(****************************************************************************)
(* What holds of reviews, academy claims, guardian links, consulting, chat  *)
(* rooms and calendars for every number of requests in flight.              *)
(****************************************************************************)
EXTENDS Evaluation, AcademyClaims, GuardianLinks, Consulting, Chat, Availability,
        FiniteSetTheorems, WellFoundedInduction, TLAPS

(****************************************************************************)
(* Reviews.                                                                 *)
(****************************************************************************)
RaterRecords ==
    [at : {"none"}]
    \cup [at : {"lock", "insert"}, of : Done]
    \cup [at : {"commit"}, of : Done, sees : SUBSET (Done \X Raters)]

EvaluationTypeOK ==
    /\ reviews \in SUBSET (Done \X Raters)
    /\ rater \in [Raters -> RaterRecords]

InTransaction(r) == rater[r].at \in {"insert", "commit"}

\* One transaction at a time holds the teacher's row, and the one about to commit has
\* seen all that is committed and writes about a consultation nobody has reviewed.
EvaluationInv ==
    /\ EvaluationTypeOK
    /\ RatingIsCurrent
    /\ \A r, o \in Raters : InTransaction(r) /\ InTransaction(o) => r = o
    /\ \A r \in Raters : rater[r].at = "commit" =>
          /\ rater[r].sees = reviews \cup {<<rater[r].of, r>>}
          /\ ~Reviewed(rater[r].of)

\* A request that waits for the lock keeps its consultation when it gets it.
LEMMA LockedRater ==
    ASSUME EvaluationTypeOK, NEW r \in Raters, LockTeacher(r)
    PROVE  /\ rater[r] \in [at : {"lock", "insert"}, of : Done]
           /\ rater' = [rater EXCEPT ![r] = [at |-> "insert", of |-> rater[r].of]]
  <1>1. rater[r] \in [at : {"lock", "insert"}, of : Done]
    BY DEF EvaluationTypeOK, RaterRecords, LockTeacher
  <1>2. [rater[r] EXCEPT !.at = "insert"] = [at |-> "insert", of |-> rater[r].of]
    BY <1>1
  <1> QED BY <1>1, <1>2 DEF LockTeacher, Rates

\* The records of requests are never undefined or of a foreign shape.
LEMMA EvaluationType ==
    ASSUME EvaluationTypeOK, [EvaluationNext]_evaluationVars
    PROVE  EvaluationTypeOK'
  <1>1. ASSUME NEW r \in Raters, LockTeacher(r) PROVE EvaluationTypeOK'
    <2>1. [at |-> "insert", of |-> rater[r].of] \in RaterRecords
      BY <1>1, LockedRater DEF RaterRecords
    <2> QED BY <2>1, <1>1, LockedRater DEF LockTeacher, EvaluationTypeOK
  <1>2. ASSUME NEW r \in Raters, InsertReview(r) PROVE EvaluationTypeOK'
    <2>1. rater[r].of \in Done
      BY <1>2 DEF InsertReview, EvaluationTypeOK, RaterRecords
    <2>2. [at |-> "commit", of |-> rater[r].of, sees |-> reviews \cup {<<rater[r].of, r>>}]
            \in RaterRecords
      BY <2>1 DEF EvaluationTypeOK, RaterRecords
    <2>3. NotRating \in RaterRecords
      BY DEF NotRating, RaterRecords
    <2> QED BY <2>2, <2>3, <1>2 DEF InsertReview, Rates, EvaluationTypeOK
  <1>3. ASSUME NEW r \in Raters, CommitReview(r) PROVE EvaluationTypeOK'
    <2>1. rater[r].of \in Done
      BY <1>3 DEF CommitReview, EvaluationTypeOK, RaterRecords
    <2>2. NotRating \in RaterRecords
      BY DEF NotRating, RaterRecords
    <2> QED BY <2>1, <2>2, <1>3 DEF CommitReview, Rates, EvaluationTypeOK
  <1>4. ASSUME NEW r \in Raters, RollBack(r) PROVE EvaluationTypeOK'
    BY <1>4 DEF RollBack, NotRating, Rates, EvaluationTypeOK, RaterRecords
  <1>5. ASSUME NEW r \in Raters, NEW b \in Done, ReadReview(r, b) PROVE EvaluationTypeOK'
    BY <1>5 DEF ReadReview, Rates, EvaluationTypeOK, RaterRecords
  <1>6. CASE UNCHANGED evaluationVars
    BY <1>6 DEF evaluationVars, EvaluationTypeOK
  <1> QED BY <1>1, <1>2, <1>3, <1>4, <1>5, <1>6 DEF EvaluationNext

\* The lock on the teacher's row keeps what a transaction read true until it commits.
LEMMA EvaluationStep ==
    ASSUME EvaluationInv, [EvaluationNext]_evaluationVars
    PROVE  EvaluationInv'
  <1>0. EvaluationTypeOK /\ EvaluationTypeOK'
    BY EvaluationType DEF EvaluationInv
  <1> USE <1>0 DEF EvaluationInv, EvaluationTypeOK, RaterRecords, NotRating, Rates,
                   InTransaction, RatingIsCurrent, Reviewed
  <1>1. ASSUME NEW r \in Raters, LockTeacher(r) PROVE EvaluationInv'
    <2>1. rater' = [rater EXCEPT ![r] = [at |-> "insert", of |-> rater[r].of]]
      BY <1>1, LockedRater
    <2>2. /\ rater'[r].at = "insert"
          /\ \A o \in Raters \ {r} : rater'[o] = rater[o] /\ ~InTransaction(o)
      BY <2>1, <1>1 DEF LockTeacher, TeacherFree
    <2> QED BY <2>2, <1>1 DEF LockTeacher
  <1>2. ASSUME NEW r \in Raters, InsertReview(r) PROVE EvaluationInv'
    BY <1>2 DEF InsertReview
  <1>3. ASSUME NEW r \in Raters, CommitReview(r) PROVE EvaluationInv'
    <2>1. /\ rater'[r].at = "none"
          /\ \A o \in Raters \ {r} : rater'[o] = rater[o] /\ ~InTransaction(o)
      BY <1>3 DEF CommitReview
    <2>2. reviews' = rater[r].sees /\ rated' = reviews'
      BY <1>3 DEF CommitReview
    <2>3. RatingIsCurrent'
      <3>1. \A x \in reviews : x[1] # rater[r].of
        BY <1>3 DEF CommitReview
      <3> QED BY <3>1, <2>2, <1>3 DEF CommitReview
    <2> QED BY <2>1, <2>2, <2>3
  <1>4. ASSUME NEW r \in Raters, RollBack(r) PROVE EvaluationInv'
    BY <1>4 DEF RollBack
  <1>5. ASSUME NEW r \in Raters, NEW b \in Done, ReadReview(r, b) PROVE EvaluationInv'
    BY <1>5 DEF ReadReview
  <1>6. CASE UNCHANGED evaluationVars
    BY <1>6 DEF evaluationVars
  <1> QED BY <1>1, <1>2, <1>3, <1>4, <1>5, <1>6 DEF EvaluationNext

\* The published rating is always that of all the reviews, one a consultation, for
\* every number of consultations and of students who review at the same time.
THEOREM RatingAlwaysCurrent == EvaluationSpec => []RatingIsCurrent
  <1>1. EvaluationInit => EvaluationInv
    BY DEF EvaluationInit, EvaluationInv, EvaluationTypeOK, RaterRecords, NotRating,
           InTransaction, RatingIsCurrent, Reviewed
  <1>2. EvaluationInv /\ [EvaluationNext]_evaluationVars => EvaluationInv'
    BY EvaluationStep
  <1>3. EvaluationInv => RatingIsCurrent
    BY DEF EvaluationInv
  <1> QED BY <1>1, <1>2, <1>3, PTL DEF EvaluationSpec

(****************************************************************************)
(* Academy claims.                                                          *)
(****************************************************************************)
DeskSteps == {"create", "mark", "approve", "reject", "look", "restore"}

ClaimsTypeOK ==
    /\ claim \in [Claims -> {"absent", "pending", "approved", "rejected"}]
    /\ academy \in [status : {"none", "pending", "approved"}, owner : Claims \cup {NoOwner}]
    /\ desk \in [Desks -> [at : {"closed"}] \cup [at : DeskSteps, of : Claims]]
    /\ overlapped \in SUBSET Claims /\ together \in SUBSET Claims /\ judgedTwice \in SUBSET Claims

Active(c) == claim[c] \in {"pending", "approved"}
Busy(d) == desk[d].at # "closed"

\* Two requests at a time are both on record.
CrossingsOnRecord ==
    \A d, e \in Desks : d # e /\ Busy(d) /\ Busy(e) => {desk[d].of, desk[e].of} \subseteq overlapped

\* Two claims are active, or about to be, only after their requests crossed.
OneActive ==
    /\ \A c, o \in Claims : c # o /\ Active(c) /\ Active(o) => c \in overlapped
    /\ \A d \in Desks, c \in Claims :
          desk[d].at \in {"create", "approve"} /\ desk[d].of # c /\ Active(c) =>
             {desk[d].of, c} \subseteq overlapped

\* What a request that was handled alone read is still so.
ReadingStands ==
    \A d \in Desks : Busy(d) /\ desk[d].of \notin overlapped =>
        /\ desk[d].at = "create" => claim[desk[d].of] = "absent"
        /\ desk[d].at \in {"mark", "approve", "reject"} => claim[desk[d].of] = "pending"

\* While no request crossed another, the academy says what its claims say except
\* between two writes of one request, and a rejection leaves no active claim.
AcademyFollows ==
    overlapped = {} =>
        /\ \/ \E d \in Desks : desk[d].at \in {"mark", "look", "restore"}
           \/ academy.status = IF WithStatus({"approved"}) # {} THEN "approved"
                               ELSE IF WithStatus({"pending"}) # {} THEN "pending" ELSE "none"
        /\ \A d \in Desks : desk[d].at \in {"look", "restore"} => \A c \in Claims : ~Active(c)

\* A submission goes on with a claim of its own that is not there yet, a review with
\* one that is pending unless two administrators judge it.
Verdicts == {"approve", "reject"}
OnItsOwnClaim ==
    \A d \in Desks :
        /\ desk[d].at = "create" =>
              /\ claim[desk[d].of] = "absent"
              /\ \A e \in Desks : e # d /\ desk[e].at = "create" =>
                    desk[e].of # desk[d].of /\ {desk[d].of, desk[e].of} \subseteq together
        /\ desk[d].at \in Verdicts =>
              /\ claim[desk[d].of] # "absent"
              /\ claim[desk[d].of] = "pending" \/ desk[d].of \in judgedTwice
              /\ \A e \in Desks : e # d /\ desk[e].at \in Verdicts /\ desk[e].of = desk[d].of =>
                    desk[d].of \in judgedTwice

\* Two claims are active, or one is about to be beside another, only when they were
\* submitted together or one of them was judged twice at once.
Excused(c, o) == {c, o} \subseteq together \/ c \in judgedTwice \/ o \in judgedTwice
ActiveOnce ==
    /\ \A c, o \in Claims : c # o /\ Active(c) /\ Active(o) => Excused(c, o)
    /\ \A d \in Desks, c \in Claims :
          desk[d].at = "create" /\ Active(c) => {desk[d].of, c} \subseteq together \/ c \in judgedTwice

OwnerApproved ==
    /\ academy.owner = NoOwner => WithStatus({"approved"}) = {}
    /\ academy.owner \notin judgedTwice =>
          /\ academy.owner # NoOwner => claim[academy.owner] = "approved"
          /\ WithStatus({"approved"}) \subseteq {academy.owner} \cup together \cup judgedTwice

ClaimsInv ==
    /\ ClaimsTypeOK
    /\ CrossingsOnRecord
    /\ OneActive
    /\ ReadingStands
    /\ AcademyFollows
    /\ OnItsOwnClaim
    /\ ActiveOnce
    /\ OwnerApproved

\* A request in flight has a claim.
LEMMA BusyDesk ==
    ASSUME ClaimsTypeOK, NEW d \in Desks, Busy(d)
    PROVE  desk[d] \in [at : DeskSteps, of : Claims]
  BY DEF ClaimsTypeOK, Busy

\* A request that goes on keeps its claim.
LEMMA DeskGoesOn ==
    ASSUME ClaimsTypeOK, NEW d \in Desks, Busy(d), NEW a,
           desk' = [desk EXCEPT ![d].at = a]
    PROVE  desk' = [desk EXCEPT ![d] = [at |-> a, of |-> desk[d].of]]
  <1>1. [desk[d] EXCEPT !.at = a] = [at |-> a, of |-> desk[d].of]
    BY BusyDesk
  <1> QED BY <1>1

\* A desk is shut or busy.
LEMMA ShutOrBusy ==
    ASSUME ClaimsTypeOK, NEW d \in Desks
    PROVE  desk[d] # Closed <=> Busy(d)
  BY DEF ClaimsTypeOK, Closed, Busy, DeskSteps

\* What is under way is what the requests in flight are about.
LEMMA UnderWayIsBusy ==
    ASSUME ClaimsTypeOK
    PROVE  UnderWay = {desk[d].of : d \in {e \in Desks : Busy(e)}}
  BY ShutOrBusy DEF UnderWay

\* The requests and the claims keep their shapes.
LEMMA ClaimsType ==
    ASSUME ClaimsTypeOK, [ClaimsNext]_claimsVars
    PROVE  ClaimsTypeOK'
  <1> USE DEF ClaimsTypeOK, DeskSteps, Closed, Shuts, crossings, InStep
  <1>1. ASSUME NEW d \in Desks, NEW c \in Claims, ReadClaims(d, c) PROVE ClaimsTypeOK'
    <2>1. UnderWay \in SUBSET Claims /\ InStep({"create"}) \in SUBSET Claims
      BY DEF UnderWay
    <2>2. overlapped' \in SUBSET Claims /\ together' \in SUBSET Claims
      BY <1>1, <2>1 DEF ReadClaims, Opens
    <2>3. desk' \in [Desks -> [at : {"closed"}] \cup [at : DeskSteps, of : Claims]]
      BY <1>1 DEF ReadClaims, Opens
    <2> QED BY <1>1, <2>2, <2>3 DEF ReadClaims
  <1>2. ASSUME NEW d \in Desks, NEW c \in Claims, NEW verdict \in {"approve", "reject"},
               ReadPending(d, c, verdict) PROVE ClaimsTypeOK'
    <2>1. UnderWay \in SUBSET Claims
      BY DEF UnderWay
    <2>2. overlapped' \in SUBSET Claims /\ judgedTwice' \in SUBSET Claims
      BY <1>2, <2>1 DEF ReadPending, Opens
    <2>3. desk' \in [Desks -> [at : {"closed"}] \cup [at : DeskSteps, of : Claims]]
      BY <1>2 DEF ReadPending, Opens
    <2> QED BY <1>2, <2>2, <2>3 DEF ReadPending
  <1>3. ASSUME NEW d \in Desks, CreateClaim(d) PROVE ClaimsTypeOK'
    <2>1. Busy(d) /\ desk[d].of \in Claims
      BY <1>3 DEF CreateClaim, Busy
    <2> QED BY <1>3, <2>1, DeskGoesOn DEF CreateClaim
  <1>4. ASSUME NEW d \in Desks, MarkPending(d) PROVE ClaimsTypeOK'
    BY <1>4 DEF MarkPending
  <1>5. ASSUME NEW d \in Desks, ApproveClaim(d) PROVE ClaimsTypeOK'
    BY <1>5 DEF ApproveClaim
  <1>6. ASSUME NEW d \in Desks, RejectClaim(d) PROVE ClaimsTypeOK'
    <2>1. Busy(d) /\ desk[d].of \in Claims
      BY <1>6 DEF RejectClaim, Busy
    <2> QED BY <1>6, <2>1, DeskGoesOn DEF RejectClaim
  <1>7. ASSUME NEW d \in Desks, ReadStillApproved(d) PROVE ClaimsTypeOK'
    <2>1. Busy(d) /\ desk[d].of \in Claims
      BY <1>7 DEF ReadStillApproved, Busy
    <2> QED BY <1>7, <2>1, DeskGoesOn DEF ReadStillApproved
  <1>8. ASSUME NEW d \in Desks, RestoreAcademy(d) PROVE ClaimsTypeOK'
    BY <1>8 DEF RestoreAcademy
  <1>9. ASSUME NEW d \in Desks, DeskDies(d) PROVE ClaimsTypeOK'
    BY <1>9 DEF DeskDies
  <1>10. CASE UNCHANGED claimsVars
    BY <1>10 DEF claimsVars
  <1> QED BY <1>1, <1>2, <1>3, <1>4, <1>5, <1>6, <1>7, <1>8, <1>9, <1>10 DEF ClaimsNext

\* A request that opens finds no other one, or is on record with all of them.
LEMMA DeskOpens ==
    ASSUME ClaimsTypeOK, NEW d \in Desks, NEW c \in Claims, NEW a \in DeskSteps, Opens(d, a, c)
    PROVE  /\ desk'[d] = [at |-> a, of |-> c]
           /\ \A e \in Desks \ {d} : desk'[e] = desk[e]
           /\ overlapped \subseteq overlapped'
           /\ ~Busy(d)
           /\ \A e \in Desks : Busy(e) => {c, desk[e].of} \subseteq overlapped'
  <1>1. \A e \in Desks : Busy(e) => desk[e].of \in UnderWay
    BY UnderWayIsBusy
  <1> QED BY <1>1 DEF Opens, ClaimsTypeOK, Closed, Busy

\* The two readings that open a request, and the steps that go on with one, keep the
\* invariant: a claim can only be changed behind a request that crossed another.
LEMMA ClaimsStep ==
    ASSUME ClaimsInv, [ClaimsNext]_claimsVars
    PROVE  ClaimsInv'
  <1>0. ClaimsTypeOK /\ ClaimsTypeOK'
    BY ClaimsType DEF ClaimsInv
  <1> USE <1>0 DEF ClaimsInv, crossings
  <1>1. ASSUME NEW d \in Desks, NEW c \in Claims, ReadClaims(d, c) PROVE ClaimsInv'
    <2>0. /\ together \subseteq together'
          /\ \A e \in Desks : desk[e].at = "create" => {c, desk[e].of} \subseteq together'
      BY <1>1 DEF ReadClaims, InStep
    <2>1. "create" \in DeskSteps /\ Opens(d, "create", c)
      BY <1>1 DEF ReadClaims, DeskSteps
    <2>2. /\ desk'[d] = [at |-> "create", of |-> c]
          /\ \A e \in Desks \ {d} : desk'[e] = desk[e]
          /\ overlapped \subseteq overlapped'
          /\ ~Busy(d)
          /\ \A e \in Desks : Busy(e) => {c, desk[e].of} \subseteq overlapped'
      BY <2>1, DeskOpens
    <2>3. CrossingsOnRecord'
      BY <1>1, <2>1, <2>2 DEF CrossingsOnRecord, Busy
    <2>4. OneActive'
      BY <1>1, <2>1, <2>2 DEF ReadClaims, NoActiveClaim, OneActive, WithStatus, Active
    <2>5. ReadingStands'
      BY <1>1, <2>1, <2>2 DEF ReadClaims, ReadingStands, Busy
    <2>6. AcademyFollows'
      BY <1>1, <2>1, <2>2 DEF ReadClaims, AcademyFollows, WithStatus, Busy
    <2>7. OwnerApproved'
      BY <1>1, <2>0, <2>1, <2>2 DEF ReadClaims, OwnerApproved, WithStatus
    <2>8. OnItsOwnClaim'
      BY <1>1, <2>0, <2>1, <2>2, UnderWayIsBusy DEF ReadClaims, OnItsOwnClaim, Verdicts, Busy, ClaimsTypeOK
    <2>9. ActiveOnce'
      BY <1>1, <2>0, <2>1, <2>2 DEF ReadClaims, NoActiveClaim, WithStatus, OnItsOwnClaim, ActiveOnce, Excused, Verdicts, Active, Busy,
         ClaimsTypeOK
    <2> QED BY <2>3, <2>4, <2>5, <2>6, <2>7, <2>8, <2>9
  <1>2. ASSUME NEW d \in Desks, NEW c \in Claims, NEW v \in {"approve", "reject"},
      ReadPending(d, c, v) PROVE ClaimsInv'
    <2>0. /\ judgedTwice \subseteq judgedTwice'
          /\ \A e \in Desks : desk[e].at \in Verdicts /\ desk[e].of = c => c \in judgedTwice'
      BY <1>2 DEF ReadPending, InStep, Verdicts
    <2>1. v \in DeskSteps /\ Opens(d, v, c)
      BY <1>2 DEF ReadPending, DeskSteps
    <2>2. /\ desk'[d] = [at |-> v, of |-> c]
          /\ \A e \in Desks \ {d} : desk'[e] = desk[e]
          /\ overlapped \subseteq overlapped'
          /\ ~Busy(d)
          /\ \A e \in Desks : Busy(e) => {c, desk[e].of} \subseteq overlapped'
      BY <2>1, DeskOpens
    <2>3. CrossingsOnRecord'
      BY <1>2, <2>1, <2>2 DEF CrossingsOnRecord, Busy
    <2>4. OneActive'
      BY <1>2, <2>1, <2>2 DEF ReadPending, OneActive, Active
    <2>5. ReadingStands'
      BY <1>2, <2>1, <2>2 DEF ReadPending, ReadingStands, Busy
    <2>6. AcademyFollows'
      BY <1>2, <2>1, <2>2 DEF ReadPending, AcademyFollows, WithStatus, Busy
    <2>7. OwnerApproved'
      BY <1>2, <2>0, <2>1, <2>2 DEF ReadPending, OwnerApproved, WithStatus
    <2>8. OnItsOwnClaim'
      BY <1>2, <2>0, <2>1, <2>2 DEF ReadPending, OnItsOwnClaim, Verdicts, Busy, ClaimsTypeOK
    <2>9. ActiveOnce'
      BY <1>2, <2>0, <2>1, <2>2 DEF ReadPending, OnItsOwnClaim, ActiveOnce, Excused, Verdicts, Active, Busy,
         ClaimsTypeOK
    <2> QED BY <2>3, <2>4, <2>5, <2>6, <2>7, <2>8, <2>9
  <1>3. ASSUME NEW d \in Desks, CreateClaim(d) PROVE ClaimsInv'
    <2>1. Busy(d) /\ desk[d].of \in Claims
      BY <1>3 DEF CreateClaim, Busy, ClaimsTypeOK
    <2>2. /\ desk'[d] = [at |-> "mark", of |-> desk[d].of]
          /\ \A e \in Desks \ {d} : desk'[e] = desk[e]
      BY <1>3, <2>1, DeskGoesOn DEF CreateClaim, ClaimsTypeOK
    <2>3. CrossingsOnRecord'
      BY <1>3, <2>1, <2>2 DEF CreateClaim, CrossingsOnRecord, Busy
    <2>4. OneActive'
      BY <1>3, <2>1, <2>2 DEF CreateClaim, CrossingsOnRecord, OneActive, Active, Busy
    <2>5. ReadingStands'
      BY <1>3, <2>1, <2>2 DEF CreateClaim, CrossingsOnRecord, ReadingStands, Busy, ClaimsTypeOK
    <2>6. AcademyFollows'
      BY <1>3, <2>1, <2>2 DEF CreateClaim, CrossingsOnRecord, AcademyFollows, Busy
    <2>7. OwnerApproved'
      BY <1>3, <2>1, <2>2 DEF CreateClaim, OnItsOwnClaim, OwnerApproved, WithStatus, ClaimsTypeOK
    <2>8. OnItsOwnClaim'
      BY <1>3, <2>1, <2>2 DEF CreateClaim, OnItsOwnClaim, Verdicts, Busy, ClaimsTypeOK
    <2>9. ActiveOnce'
      BY <1>3, <2>1, <2>2 DEF CreateClaim, OnItsOwnClaim, ActiveOnce, Excused, Verdicts, Active, Busy,
         ClaimsTypeOK
    <2> QED BY <2>3, <2>4, <2>5, <2>6, <2>7, <2>8, <2>9
  <1>4. ASSUME NEW d \in Desks, MarkPending(d) PROVE ClaimsInv'
    <2>1. Busy(d) /\ desk[d].of \in Claims
      BY <1>4 DEF MarkPending, Busy, ClaimsTypeOK
    <2>2. /\ desk'[d] = [at |-> "closed"]
          /\ \A e \in Desks \ {d} : desk'[e] = desk[e]
      BY <1>4 DEF MarkPending, Shuts, Closed, ClaimsTypeOK
    <2>3. CrossingsOnRecord'
      BY <1>4, <2>1, <2>2 DEF MarkPending, CrossingsOnRecord, Busy
    <2>4. OneActive'
      BY <1>4, <2>1, <2>2 DEF MarkPending, OneActive, Active
    <2>5. ReadingStands'
      BY <1>4, <2>1, <2>2 DEF MarkPending, ReadingStands, Busy
    <2>6. AcademyFollows'
      BY <1>4, <2>1, <2>2 DEF MarkPending, OneActive, ReadingStands, AcademyFollows, WithStatus,
         Active
    <2>7. OwnerApproved'
      BY <1>4, <2>1, <2>2 DEF MarkPending, OwnerApproved, WithStatus
    <2>8. OnItsOwnClaim'
      BY <1>4, <2>1, <2>2 DEF MarkPending, OnItsOwnClaim, Verdicts, Busy, ClaimsTypeOK
    <2>9. ActiveOnce'
      BY <1>4, <2>1, <2>2 DEF MarkPending, OnItsOwnClaim, ActiveOnce, Excused, Verdicts, Active, Busy,
         ClaimsTypeOK
    <2> QED BY <2>3, <2>4, <2>5, <2>6, <2>7, <2>8, <2>9
  <1>5. ASSUME NEW d \in Desks, ApproveClaim(d) PROVE ClaimsInv'
    <2>1. Busy(d) /\ desk[d].of \in Claims
      BY <1>5 DEF ApproveClaim, Busy, ClaimsTypeOK
    <2>2. /\ desk'[d] = [at |-> "closed"]
          /\ \A e \in Desks \ {d} : desk'[e] = desk[e]
      BY <1>5 DEF ApproveClaim, Shuts, Closed, ClaimsTypeOK
    <2>3. CrossingsOnRecord'
      BY <1>5, <2>1, <2>2 DEF ApproveClaim, CrossingsOnRecord, Busy
    <2>4. OneActive'
      BY <1>5, <2>1, <2>2 DEF ApproveClaim, CrossingsOnRecord, OneActive, Active, Busy
    <2>5. ReadingStands'
      BY <1>5, <2>1, <2>2 DEF ApproveClaim, CrossingsOnRecord, ReadingStands, Busy
    <2>6. AcademyFollows'
      BY <1>5, <2>1, <2>2 DEF ApproveClaim, ReadingStands, AcademyFollows, WithStatus, Active,
         ClaimsTypeOK
    <2>7. OwnerApproved'
      <3>1. /\ academy'.owner = desk[d].of /\ academy'.owner # NoOwner
            /\ claim'[desk[d].of] = "approved"
        BY <1>5, <2>1, ClaimsAssumption DEF ApproveClaim, ClaimsTypeOK
      <3>2. ASSUME NEW c \in Claims, claim'[c] = "approved", c # desk[d].of, desk[d].of \notin judgedTwice
            PROVE  c \in together \cup judgedTwice
        <4>1. claim[desk[d].of] = "pending" /\ claim[c] = "approved"
          BY <1>5, <2>1, <3>2 DEF ApproveClaim, OnItsOwnClaim, Verdicts, ClaimsTypeOK
        <4> QED BY <2>1, <3>2, <4>1 DEF ActiveOnce, Excused, Active
      <3> QED BY <3>1, <3>2, <1>5 DEF ApproveClaim, OwnerApproved, WithStatus
    <2>8. OnItsOwnClaim'
      <3>1. /\ claim'[desk[d].of] = "approved"
            /\ \A c \in Claims : c # desk[d].of => claim'[c] = claim[c]
        BY <1>5, <2>1 DEF ApproveClaim, ClaimsTypeOK
      <3>2. desk[d].at \in Verdicts /\ claim[desk[d].of] # "absent"
        BY <1>5 DEF ApproveClaim, OnItsOwnClaim, Verdicts
      <3>3. \A e \in Desks : desk[e].at \in Verdicts \cup {"create"} => desk[e].of \in Claims
        BY DEF ClaimsTypeOK, Verdicts
      <3> QED BY <1>5, <2>2, <3>1, <3>2, <3>3 DEF ApproveClaim, OnItsOwnClaim, Verdicts
    <2>9. ActiveOnce'
      BY <1>5, <2>1, <2>2 DEF ApproveClaim, OnItsOwnClaim, ActiveOnce, Excused, Verdicts, Active, Busy,
         ClaimsTypeOK
    <2> QED BY <2>3, <2>4, <2>5, <2>6, <2>7, <2>8, <2>9
  <1>6. ASSUME NEW d \in Desks, RejectClaim(d) PROVE ClaimsInv'
    <2>1. Busy(d) /\ desk[d].of \in Claims
      BY <1>6 DEF RejectClaim, Busy, ClaimsTypeOK
    <2>2. /\ desk'[d] = [at |-> "look", of |-> desk[d].of]
          /\ \A e \in Desks \ {d} : desk'[e] = desk[e]
      BY <1>6, <2>1, DeskGoesOn DEF RejectClaim, ClaimsTypeOK
    <2>3. CrossingsOnRecord'
      BY <1>6, <2>1, <2>2 DEF RejectClaim, CrossingsOnRecord, Busy
    <2>4. OneActive'
      BY <1>6, <2>1, <2>2 DEF RejectClaim, OneActive, Active
    <2>5. ReadingStands'
      BY <1>6, <2>1, <2>2 DEF RejectClaim, CrossingsOnRecord, ReadingStands, Busy
    <2>6. AcademyFollows'
      BY <1>6, <2>1, <2>2 DEF RejectClaim, OneActive, ReadingStands, AcademyFollows, Active,
         ClaimsTypeOK
    <2>7. OwnerApproved'
      BY <1>6, <2>1, <2>2 DEF RejectClaim, OnItsOwnClaim, Verdicts, OwnerApproved, WithStatus, ClaimsTypeOK
    <2>8. OnItsOwnClaim'
      <3>1. /\ claim'[desk[d].of] = "rejected"
            /\ \A c \in Claims : c # desk[d].of => claim'[c] = claim[c]
        BY <1>6, <2>1 DEF RejectClaim, ClaimsTypeOK
      <3>2. desk[d].at \in Verdicts /\ claim[desk[d].of] # "absent"
        BY <1>6 DEF RejectClaim, OnItsOwnClaim, Verdicts
      <3>3. \A e \in Desks : desk[e].at \in Verdicts \cup {"create"} => desk[e].of \in Claims
        BY DEF ClaimsTypeOK, Verdicts
      <3> QED BY <1>6, <2>2, <3>1, <3>2, <3>3 DEF RejectClaim, OnItsOwnClaim, Verdicts
    <2>9. ActiveOnce'
      BY <1>6, <2>1, <2>2 DEF RejectClaim, OnItsOwnClaim, ActiveOnce, Excused, Verdicts, Active, Busy,
         ClaimsTypeOK
    <2> QED BY <2>3, <2>4, <2>5, <2>6, <2>7, <2>8, <2>9
  <1>7. ASSUME NEW d \in Desks, ReadStillApproved(d) PROVE ClaimsInv'
    <2>1. Busy(d) /\ desk[d].of \in Claims
      BY <1>7 DEF ReadStillApproved, Busy, ClaimsTypeOK
    <2>2. /\ desk'[d] \in {[at |-> "restore", of |-> desk[d].of], [at |-> "closed"]}
          /\ desk'[d].at = "closed" => WithStatus({"approved"}) # {}
          /\ \A e \in Desks \ {d} : desk'[e] = desk[e]
      BY <1>7, <2>1, DeskGoesOn DEF ReadStillApproved, Shuts, Closed, ClaimsTypeOK
    <2>3. CrossingsOnRecord'
      BY <1>7, <2>1, <2>2 DEF ReadStillApproved, CrossingsOnRecord, Busy
    <2>4. OneActive'
      BY <1>7, <2>1, <2>2 DEF ReadStillApproved, OneActive, Active
    <2>5. ReadingStands'
      BY <1>7, <2>1, <2>2 DEF ReadStillApproved, ReadingStands, Busy
    <2>6. AcademyFollows'
      BY <1>7, <2>1, <2>2 DEF ReadStillApproved, AcademyFollows, WithStatus, Active
    <2>7. OwnerApproved'
      BY <1>7, <2>1, <2>2 DEF ReadStillApproved, OwnerApproved, WithStatus
    <2>8. OnItsOwnClaim'
      BY <1>7, <2>1, <2>2 DEF ReadStillApproved, OnItsOwnClaim, Verdicts, Busy, ClaimsTypeOK
    <2>9. ActiveOnce'
      BY <1>7, <2>1, <2>2 DEF ReadStillApproved, OnItsOwnClaim, ActiveOnce, Excused, Verdicts, Active, Busy,
         ClaimsTypeOK
    <2> QED BY <2>3, <2>4, <2>5, <2>6, <2>7, <2>8, <2>9
  <1>8. ASSUME NEW d \in Desks, RestoreAcademy(d) PROVE ClaimsInv'
    <2>1. Busy(d) /\ desk[d].of \in Claims
      BY <1>8 DEF RestoreAcademy, Busy, ClaimsTypeOK
    <2>2. /\ desk'[d] = [at |-> "closed"]
          /\ \A e \in Desks \ {d} : desk'[e] = desk[e]
      BY <1>8 DEF RestoreAcademy, Shuts, Closed, ClaimsTypeOK
    <2>3. CrossingsOnRecord'
      BY <1>8, <2>1, <2>2 DEF RestoreAcademy, CrossingsOnRecord, Busy
    <2>4. OneActive'
      BY <1>8, <2>1, <2>2 DEF RestoreAcademy, OneActive, Active
    <2>5. ReadingStands'
      BY <1>8, <2>1, <2>2 DEF RestoreAcademy, ReadingStands, Busy
    <2>6. AcademyFollows'
      BY <1>8, <2>1, <2>2 DEF RestoreAcademy, AcademyFollows, WithStatus, Active
    <2>7. OwnerApproved'
      BY <1>8, <2>1, <2>2 DEF RestoreAcademy, OwnerApproved, WithStatus
    <2>8. OnItsOwnClaim'
      BY <1>8, <2>1, <2>2 DEF RestoreAcademy, OnItsOwnClaim, Verdicts, Busy, ClaimsTypeOK
    <2>9. ActiveOnce'
      BY <1>8, <2>1, <2>2 DEF RestoreAcademy, OnItsOwnClaim, ActiveOnce, Excused, Verdicts, Active, Busy,
         ClaimsTypeOK
    <2> QED BY <2>3, <2>4, <2>5, <2>6, <2>7, <2>8, <2>9
  <1>9. ASSUME NEW d \in Desks, DeskDies(d) PROVE ClaimsInv'
    <2>1. Busy(d) /\ desk[d].of \in Claims
      <3>1. desk[d] # Closed
        BY <1>9 DEF DeskDies
      <3> QED BY <3>1, ShutOrBusy, BusyDesk
    <2>2. /\ desk'[d] = [at |-> "closed"]
          /\ \A e \in Desks \ {d} : desk'[e] = desk[e]
      BY <1>9 DEF DeskDies, Shuts, Closed, ClaimsTypeOK
    <2>3. CrossingsOnRecord'
      BY <1>9, <2>1, <2>2 DEF DeskDies, CrossingsOnRecord, Busy
    <2>4. OneActive'
      BY <1>9, <2>1, <2>2 DEF DeskDies, OneActive, Active
    <2>5. ReadingStands'
      BY <1>9, <2>1, <2>2 DEF DeskDies, ReadingStands, Busy
    <2>6. AcademyFollows'
      BY <1>9, <2>1, <2>2 DEF DeskDies, AcademyFollows, WithStatus, Active
    <2>7. OwnerApproved'
      BY <1>9, <2>1, <2>2 DEF DeskDies, CrossingsOnRecord, OneActive, ReadingStands,
          AcademyFollows, OwnerApproved, WithStatus, Active, Busy, ClaimsTypeOK
    <2>8. OnItsOwnClaim'
      BY <1>9, <2>1, <2>2 DEF DeskDies, OnItsOwnClaim, Verdicts, Busy, ClaimsTypeOK
    <2>9. ActiveOnce'
      BY <1>9, <2>1, <2>2 DEF DeskDies, OnItsOwnClaim, ActiveOnce, Excused, Verdicts, Active, Busy,
         ClaimsTypeOK
    <2> QED BY <2>3, <2>4, <2>5, <2>6, <2>7, <2>8, <2>9
  <1>10. CASE UNCHANGED claimsVars
    BY <1>10 DEF claimsVars, ClaimsTypeOK, CrossingsOnRecord, OneActive, ReadingStands, AcademyFollows,
                 OwnerApproved, OnItsOwnClaim, ActiveOnce,
                 Excused, Verdicts, WithStatus, Active, Busy
  <1> QED BY <1>1, <1>2, <1>3, <1>4, <1>5, <1>6, <1>7, <1>8, <1>9, <1>10 DEF ClaimsNext

\* At most one active claim of an academy unless submissions were read together, its
\* owner the one whose claim is approved unless two administrators judged it at once, and
\* a status that follows the claims, for every number of claims and of requests.
THEOREM AcademyHasOneOwner == ClaimsSpec => []OneOwner
  <1>1. ClaimsInit => ClaimsInv
    <2> SUFFICES ASSUME ClaimsInit PROVE ClaimsInv
      OBVIOUS
    <2>1. ClaimsTypeOK
      BY DEF ClaimsInit, ClaimsTypeOK, Closed
    <2>2. /\ \A c \in Claims : claim[c] = "absent"
          /\ \A d \in Desks : desk[d].at = "closed"
          /\ academy = [status |-> "none", owner |-> NoOwner]
      BY DEF ClaimsInit, Closed
    <2>3. CrossingsOnRecord /\ ReadingStands
      BY <2>2 DEF CrossingsOnRecord, ReadingStands, Busy
    <2>4. OneActive /\ ActiveOnce
      BY <2>2 DEF OneActive, ActiveOnce, Active
    <2>5. AcademyFollows /\ OwnerApproved
      BY <2>2 DEF AcademyFollows, OwnerApproved, WithStatus
    <2>6. OnItsOwnClaim
      BY <2>2 DEF OnItsOwnClaim, Verdicts
    <2> QED BY <2>1, <2>3, <2>4, <2>5, <2>6 DEF ClaimsInv
  <1>2. ClaimsInv /\ [ClaimsNext]_claimsVars => ClaimsInv'
    BY ClaimsStep
  <1>3. ClaimsInv => OneOwner
    <2> SUFFICES ASSUME ClaimsInv PROVE OneOwner
      OBVIOUS
    <2>1. OwnerApproved
      BY DEF ClaimsInv
    <2>2. ASSUME overlapped = {}, UnderWay = {}
          PROVE  academy.status = IF WithStatus({"approved"}) # {} THEN "approved"
                                  ELSE IF WithStatus({"pending"}) # {} THEN "pending" ELSE "none"
      <3>1. \A d \in Desks : ~Busy(d)
        BY <2>2, UnderWayIsBusy DEF ClaimsInv
      <3> QED BY <2>2, <3>1 DEF ClaimsInv, AcademyFollows, Busy
    <2>3. \A c, o \in WithStatus({"pending", "approved"}) :
             c # o => {c, o} \subseteq together \/ {c, o} \cap judgedTwice # {}
      BY DEF ClaimsInv, ActiveOnce, Excused, Active, WithStatus
    <2> QED BY <2>1, <2>2, <2>3 DEF OneOwner, OwnerApproved
  <1> QED BY <1>1, <1>2, <1>3, PTL DEF ClaimsSpec

(****************************************************************************)
(* University consulting.                                                   *)
(****************************************************************************)
Statuses == {"submitted", "awaiting_payment", "paid", "in_review"}

OfficerRecords ==
    [at : {"desk", "submit", "analysis"}]
    \cup [at : {"charge", "row", "confirm", "assign"}, read : Statuses]

ConsultingTypeOK ==
    /\ application \in Statuses
    /\ fee \in {"none", "pending", "paid"}
    /\ analysis \in {"none", "running", "done", "failed"}
    /\ officer \in [Officers -> OfficerRecords]
    /\ early \in BOOLEAN

\* An analysis runs, and an application is past its payment, only on a confirmed
\* payment; a confirmation under way read a status the application has not gone back
\* from; and a confirmed payment has moved it, unless the confirmation came too early.
ConsultingInv ==
    /\ ConsultingTypeOK
    /\ application \in {"paid", "in_review"} \/ analysis # "none" => fee = "paid"
    /\ \A o \in Officers : officer[o].at = "analysis" => fee = "paid"
    /\ \A o \in Officers : officer[o].at = "confirm" =>
          Progress[application] >= Progress[officer[o].read]
    /\ fee = "paid" /\ ~early => application \in {"paid", "in_review"}

ConsultingMove ==
    /\ Progress[application'] >= Progress[application]
    /\ application' \in {"paid", "in_review"} \/ analysis' # "none" => fee' = "paid"
    /\ fee' = "paid" /\ ~early' => application' \in {"paid", "in_review"}

\* The record that a request leaves behind is of its own shape.
LEMMA ConsultingTurn ==
    ASSUME ConsultingTypeOK, NEW o \in Officers, NEW record \in OfficerRecords, Turns(o, record)
    PROVE  /\ officer' \in [Officers -> OfficerRecords]
           /\ officer'[o] = record
           /\ \A q \in Officers \ {o} : officer'[q] = officer[q]
  BY DEF ConsultingTypeOK, Turns

\* The order of the life cycle.
LEMMA ProgressValues ==
    /\ Progress["submitted"] = 0 /\ Progress["awaiting_payment"] = 1
    /\ Progress["paid"] = 2 /\ Progress["in_review"] = 3
  BY DEF Progress

\* Every request keeps the invariant and never takes the application back: what it
\* read can only be behind what is stored when it writes.
LEMMA ConsultingStep ==
    ASSUME ConsultingInv, [ConsultingNext]_consultingVars
    PROVE  ConsultingInv' /\ ConsultingMove
  <1> DEFINE Kept == ConsultingInv' /\ ConsultingMove
  <1>0. ConsultingTypeOK /\ AtDesk \in OfficerRecords
    BY DEF ConsultingInv, AtDesk, OfficerRecords
  <1>a. \A x \in Statuses : Progress[x] \in 0 .. 3
    BY ProgressValues DEF Statuses
  <1>b. \A q \in Officers : officer[q].at = "confirm" => officer[q].read \in Statuses
    BY <1>0 DEF ConsultingTypeOK, OfficerRecords
  <1> USE <1>a, <1>b, ProgressValues DEF ConsultingInv, ConsultingMove, Statuses
  <1>1. ASSUME NEW o \in Officers, ReadSubmit(o) PROVE Kept
    <2>1. [at |-> "submit"] \in OfficerRecords
      BY <1>0 DEF ConsultingTypeOK, OfficerRecords
    <2>2. /\ officer' \in [Officers -> OfficerRecords]
          /\ officer'[o] = [at |-> "submit"]
          /\ \A q \in Officers \ {o} : officer'[q] = officer[q]
      BY <1>0, <2>1, <1>1, ConsultingTurn DEF ReadSubmit
    <2> QED BY <1>0, <1>1, <2>2 DEF ReadSubmit, ConsultingTypeOK
  <1>2. ASSUME NEW o \in Officers, Submit(o) PROVE Kept
    <2>1. /\ officer' \in [Officers -> OfficerRecords]
          /\ officer'[o] = AtDesk
          /\ \A q \in Officers \ {o} : officer'[q] = officer[q]
      BY <1>0, <1>2, ConsultingTurn DEF Submit
    <2>2. application' \in Statuses /\ Progress[application'] >= Progress[application]
      BY <1>0, <1>2 DEF Submit, ConsultingTypeOK
    <2>3. \A q \in Officers \ {o} : officer[q].at = "confirm" =>
              Progress[application'] >= Progress[officer[q].read]
      BY <1>0, <2>2 DEF ConsultingTypeOK
    <2> QED BY <1>0, <1>2, <2>1, <2>2, <2>3 DEF Submit, ConsultingTypeOK, AtDesk
  <1>3. ASSUME NEW o \in Officers, ReadCreatePayment(o) PROVE Kept
    <2>1. [at |-> "charge", read |-> application] \in OfficerRecords
      BY <1>0 DEF ConsultingTypeOK, OfficerRecords
    <2>2. /\ officer' \in [Officers -> OfficerRecords]
          /\ officer'[o] = [at |-> "charge", read |-> application]
          /\ \A q \in Officers \ {o} : officer'[q] = officer[q]
      BY <1>0, <2>1, <1>3, ConsultingTurn DEF ReadCreatePayment
    <2> QED BY <1>0, <1>3, <2>2 DEF ReadCreatePayment, ConsultingTypeOK
  <1>4. ASSUME NEW o \in Officers, CreateCharge(o) PROVE Kept
    <2>1. officer[o] \in [at : {"charge", "row", "confirm", "assign"}, read : Statuses]
      BY <1>0, <1>4 DEF CreateCharge, ConsultingTypeOK, OfficerRecords
    <2>2. [officer[o] EXCEPT !.at = "row"] = [at |-> "row", read |-> officer[o].read]
      BY <2>1
    <2>3. [at |-> "row", read |-> officer[o].read] \in OfficerRecords
      BY <2>1 DEF OfficerRecords
    <2>4. /\ officer' \in [Officers -> OfficerRecords]
          /\ officer'[o] = [at |-> "row", read |-> officer[o].read]
          /\ \A q \in Officers \ {o} : officer'[q] = officer[q]
      BY <1>0, <1>4, <2>2, <2>3, ConsultingTurn DEF CreateCharge
    <2> QED BY <1>0, <1>4, <2>4 DEF CreateCharge, ConsultingTypeOK
  <1>5. ASSUME NEW o \in Officers, CreatePaymentRow(o) PROVE Kept
    <2>1. PICK record \in {AtDesk, [at |-> "submit"]} : Turns(o, record)
      BY <1>5 DEF CreatePaymentRow
    <2>2. record \in OfficerRecords /\ record.at \in {"desk", "submit"}
      BY <2>1 DEF AtDesk, OfficerRecords
    <2>3. /\ officer' \in [Officers -> OfficerRecords]
          /\ officer'[o] = record
          /\ \A q \in Officers \ {o} : officer'[q] = officer[q]
      BY <1>0, <2>1, <2>2, ConsultingTurn
    <2> QED BY <1>0, <1>5, <2>2, <2>3 DEF CreatePaymentRow, ConsultingTypeOK
  <1>6. ASSUME NEW o \in Officers, ReadConfirm(o) PROVE Kept
    <2>1. [at |-> "confirm", read |-> application] \in OfficerRecords
      BY <1>0 DEF ConsultingTypeOK, OfficerRecords
    <2>2. /\ officer' \in [Officers -> OfficerRecords]
          /\ officer'[o] = [at |-> "confirm", read |-> application]
          /\ \A q \in Officers \ {o} : officer'[q] = officer[q]
      BY <1>0, <2>1, <1>6, ConsultingTurn DEF ReadConfirm
    <2> QED BY <1>0, <1>6, <2>2 DEF ReadConfirm, ConsultingTypeOK
  <1>7. ASSUME NEW o \in Officers, ConfirmPayment(o) PROVE Kept
    <2>1. /\ officer' \in [Officers -> OfficerRecords]
          /\ officer'[o] = AtDesk
          /\ \A q \in Officers \ {o} : officer'[q] = officer[q]
      BY <1>0, <1>7, ConsultingTurn DEF ConfirmPayment
    <2>2. officer[o].read \in Statuses
      BY <1>0, <1>7 DEF ConfirmPayment, ConsultingTypeOK, OfficerRecords
    <2>3. application' \in Statuses /\ Progress[application'] >= Progress[application]
      BY <1>0, <1>7, <2>2 DEF ConfirmPayment, StillAwaiting, ConsultingTypeOK
    <2>4. \A q \in Officers \ {o} : officer[q].at = "confirm" =>
              Progress[application'] >= Progress[officer[q].read]
      BY <1>0, <2>3 DEF ConsultingTypeOK
    <2>5. ConsultingTypeOK'
      BY <1>0, <1>7, <2>1, <2>3 DEF ConfirmPayment, ConsultingTypeOK
    <2>6. fee' = "paid" /\ (~early' => application' \in {"paid", "in_review"})
      <3>1. Progress[application] >= Progress[officer[o].read]
        BY <1>7 DEF ConfirmPayment
      <3>2. ~early' => officer[o].read # "submitted"
        BY <1>7 DEF ConfirmPayment
      <3>3. officer[o].read # "submitted" => application # "submitted"
        BY <1>0, <2>2, <3>1 DEF ConsultingTypeOK
      <3>4. application' = IF officer[o].read = "awaiting_payment" /\ application = "awaiting_payment"
                           THEN "paid" ELSE application
        BY <1>7 DEF ConfirmPayment, StillAwaiting
      <3>5. officer[o].read \in {"paid", "in_review"} => application # "awaiting_payment"
        BY <1>0, <2>2, <3>1 DEF ConsultingTypeOK
      <3>6. fee' = "paid"
        BY <1>7 DEF ConfirmPayment
      <3> QED BY <1>0, <2>2, <3>2, <3>3, <3>4, <3>5, <3>6 DEF ConsultingTypeOK
    <2>7. \A q \in Officers : officer'[q].at = "confirm" => officer[q].at = "confirm" /\ q # o
      BY <2>1 DEF AtDesk
    <2>8. \A q \in Officers : officer'[q].at = "confirm" =>
              Progress[application'] >= Progress[officer'[q].read]
      BY <2>1, <2>4, <2>7
    <2> QED BY <2>3, <2>5, <2>6, <2>8
  <1>8. ASSUME NEW o \in Officers, ReadAssign(o) PROVE Kept
    <2>1. [at |-> "assign", read |-> application] \in OfficerRecords
      BY <1>0 DEF ConsultingTypeOK, OfficerRecords
    <2>2. /\ officer' \in [Officers -> OfficerRecords]
          /\ officer'[o] = [at |-> "assign", read |-> application]
          /\ \A q \in Officers \ {o} : officer'[q] = officer[q]
      BY <1>0, <2>1, <1>8, ConsultingTurn DEF ReadAssign
    <2> QED BY <1>0, <1>8, <2>2 DEF ReadAssign, ConsultingTypeOK
  <1>9. ASSUME NEW o \in Officers, AssignConsultant(o) PROVE Kept
    <2>1. /\ officer' \in [Officers -> OfficerRecords]
          /\ officer'[o] = AtDesk
          /\ \A q \in Officers \ {o} : officer'[q] = officer[q]
      BY <1>0, <1>9, ConsultingTurn DEF AssignConsultant
    <2>2. officer[o].read \in Statuses
      BY <1>0, <1>9 DEF AssignConsultant, ConsultingTypeOK, OfficerRecords
    <2>3. application' \in Statuses /\ Progress[application'] >= Progress[application]
      BY <1>0, <1>9, <2>2 DEF AssignConsultant, ConsultingTypeOK
    <2>4. \A q \in Officers \ {o} : officer[q].at = "confirm" =>
              Progress[application'] >= Progress[officer[q].read]
      BY <1>0, <2>3 DEF ConsultingTypeOK
    <2> QED BY <1>0, <1>9, <2>1, <2>2, <2>3, <2>4 DEF AssignConsultant, ConsultingTypeOK, AtDesk
  <1>10. ASSUME NEW o \in Officers, StartAnalysis(o) PROVE Kept
    <2>1. [at |-> "analysis"] \in OfficerRecords
      BY <1>0 DEF ConsultingTypeOK, OfficerRecords
    <2>2. /\ officer' \in [Officers -> OfficerRecords]
          /\ officer'[o] = [at |-> "analysis"]
          /\ \A q \in Officers \ {o} : officer'[q] = officer[q]
      BY <1>0, <2>1, <1>10, ConsultingTurn DEF StartAnalysis
    <2> QED BY <1>0, <1>10, <2>2 DEF StartAnalysis, ConsultingTypeOK
  <1>11. ASSUME NEW o \in Officers, OfficerDies(o) PROVE Kept
    <2>1. /\ officer' \in [Officers -> OfficerRecords]
          /\ officer'[o] = AtDesk
          /\ \A q \in Officers \ {o} : officer'[q] = officer[q]
      BY <1>0, <1>11, ConsultingTurn DEF OfficerDies
    <2> QED BY <1>0, <1>11, <2>1 DEF OfficerDies, ConsultingTypeOK, AtDesk
  <1>12. ASSUME NEW o \in Officers, NEW result \in {"done", "failed"}, EndAnalysis(o, result) PROVE Kept
    <2>1. /\ officer' \in [Officers -> OfficerRecords]
          /\ officer'[o] = AtDesk
          /\ \A q \in Officers \ {o} : officer'[q] = officer[q]
      BY <1>0, <1>12, ConsultingTurn DEF EndAnalysis
    <2> QED BY <1>0, <1>12, <2>1 DEF EndAnalysis, ConsultingTypeOK, AtDesk
  <1>13. CASE UNCHANGED consultingVars
    BY <1>0, <1>13 DEF consultingVars, ConsultingTypeOK
  <1> QED
    BY <1>1, <1>2, <1>3, <1>4, <1>5, <1>6, <1>7, <1>8, <1>9, <1>10, <1>11, <1>12, <1>13
       DEF ConsultingNext

\* An application never goes back, is paid, reviewed or analysed only on a confirmed
\* payment, and a confirmed payment takes it out of the queue of the unpaid unless the
\* confirmation had read it too early: for every number of requests in flight.
THEOREM ReviewedWhenPaid == ConsultingSpec => PaidBeforeReview
  <1>1. ConsultingInit => ConsultingInv
    <2> SUFFICES ASSUME ConsultingInit PROVE ConsultingInv
      OBVIOUS
    <2>1. ConsultingTypeOK
      BY DEF ConsultingInit, ConsultingTypeOK, OfficerRecords, Statuses, AtDesk
    <2>2. \A o \in Officers : officer[o].at = "desk"
      BY DEF ConsultingInit, AtDesk
    <2> QED BY <2>1, <2>2 DEF ConsultingInit, ConsultingInv
  <1>2. ConsultingInv /\ [ConsultingNext]_consultingVars => ConsultingInv' /\ [ConsultingMove]_consultingVars
    BY ConsultingStep
  <1> QED BY <1>1, <1>2, PTL DEF ConsultingSpec, PaidBeforeReview, ConsultingMove

(****************************************************************************)
(* The link of a guardian and a student.                                    *)
(****************************************************************************)
LinkRecords ==
    [at : {"none", "relink", "unlock"}]
    \cup [at : {"respond"}, to : {"approved", "rejected", "revoked"}]

LinkTypeOK ==
    /\ guardianLink \in {"absent", "pending", "approved", "rejected", "revoked"}
    /\ attempts \in Nat
    /\ linkCall \in [LinkCalls -> LinkRecords]

Relinking == {c \in LinkCalls : linkCall[c].at = "relink"}

\* The requests that have passed the check are counted before they write.
LinkInv ==
    /\ LinkTypeOK
    /\ attempts + Cardinality(Relinking) <= RelinkMax + Cardinality(LinkCalls) - 1

LinkMove ==
    /\ guardianLink # "pending" /\ guardianLink' = "pending" => guardianLink \in {"absent"} \cup Ended
    /\ attempts' <= RelinkMax + Cardinality(LinkCalls) - 1

\* Of the requests in flight no more can have passed the check than there are.
LEMMA SubsetOfCalls ==
    ASSUME NEW S \in SUBSET LinkCalls
    PROVE  /\ IsFiniteSet(S) /\ Cardinality(S) \in Nat
           /\ Cardinality(LinkCalls) \in Nat \ {0}
           /\ Cardinality(S) <= Cardinality(LinkCalls)
  <1>1. IsFiniteSet(S) /\ Cardinality(S) <= Cardinality(LinkCalls)
    BY GuardianAssumption, FS_Subset
  <1>2. Cardinality(LinkCalls) # 0
    BY GuardianAssumption, FS_EmptySet
  <1> QED BY <1>1, <1>2, GuardianAssumption, FS_CardinalityType

\* The requests about the link count what has passed the check, those about the plans
\* leave it alone.
LEMMA LinkStep ==
    ASSUME LinkInv, [GuardianNext]_guardianVars
    PROVE  LinkInv' /\ LinkMove
  <1> DEFINE N == Cardinality(LinkCalls)
             K == Cardinality(Relinking)
  <1>0. LinkTypeOK /\ RelinkMax \in Nat \ {0} /\ N \in Nat \ {0}
    BY GuardianAssumption, SubsetOfCalls DEF LinkInv
  <1>1. K \in Nat /\ K <= N /\ IsFiniteSet(Relinking)
    BY SubsetOfCalls DEF Relinking
  <1>2. K' \in Nat /\ K' <= N
    <2>1. Relinking' \in SUBSET LinkCalls
      BY DEF Relinking
    <2> QED BY <2>1, SubsetOfCalls
  <1>3. attempts + K <= RelinkMax + N - 1
    BY DEF LinkInv
  \* Enough to show of each step.
  <1>4. ASSUME LinkTypeOK', attempts' + K' <= RelinkMax + N - 1,
               guardianLink # "pending" /\ guardianLink' = "pending" =>
                  guardianLink \in {"absent"} \cup Ended
        PROVE  LinkInv' /\ LinkMove
    BY <1>0, <1>2, <1>4 DEF LinkInv, LinkMove, LinkTypeOK
  <1>5. ASSUME UNCHANGED <<attempts, linkCall>>, LinkTypeOK',
               guardianLink # "pending" /\ guardianLink' = "pending" =>
                  guardianLink \in {"absent"} \cup Ended
        PROVE  LinkInv' /\ LinkMove
    <2>1. Relinking' = Relinking
      BY <1>5 DEF Relinking
    <2> QED BY <1>3, <1>4, <1>5, <2>1
  <1>6. CASE FirstRequest
    BY <1>0, <1>5, <1>6 DEF FirstRequest, LinkTypeOK
  <1>7. CASE CooldownPasses
    BY <1>0, <1>5, <1>7 DEF CooldownPasses, LinkTypeOK
  <1>8. ASSUME NEW c \in LinkCalls, ReadRelink(c) PROVE LinkInv' /\ LinkMove
    <2>1. LinkTypeOK'
      BY <1>0, <1>8 DEF ReadRelink, LinkTypeOK, LinkRecords
    <2>2. attempts' <= RelinkMax - 1
      BY <1>0, <1>8 DEF ReadRelink, MayRelink, LinkTypeOK
    <2> QED BY <1>0, <1>2, <1>4, <1>8, <2>1, <2>2 DEF ReadRelink, LinkTypeOK
  <1>9. ASSUME NEW c \in LinkCalls, Relink(c) PROVE LinkInv' /\ LinkMove
    <2>1. LinkTypeOK'
      BY <1>0, <1>9 DEF Relink, LinkTypeOK, LinkRecords, NoRequest
    <2>2. c \in Relinking /\ Relinking' = Relinking \ {c}
      BY <1>0, <1>9 DEF Relink, LinkTypeOK, Relinking, NoRequest
    <2>3. K' = K - 1
      BY <1>1, <2>2, FS_RemoveElement
    <2>4. attempts' <= attempts + 1 /\ attempts' \in Nat
      BY <1>0, <1>9 DEF Relink, LinkTypeOK
    <2> QED BY <1>0, <1>1, <1>3, <1>4, <1>9, <2>1, <2>3, <2>4 DEF Relink, StillEnded, LinkTypeOK
  <1>10. ASSUME NEW c \in LinkCalls, Respond(c) PROVE LinkInv' /\ LinkMove
    <2>1. linkCall[c].to \in {"approved", "rejected", "revoked"}
      BY <1>0, <1>10 DEF Respond, LinkTypeOK, LinkRecords
    <2>2. LinkTypeOK'
      BY <1>0, <1>10, <2>1 DEF Respond, LinkTypeOK, LinkRecords, NoRequest
    <2>3. Relinking' = Relinking
      BY <1>0, <1>10 DEF Respond, LinkTypeOK, Relinking, NoRequest
    <2> QED BY <1>3, <1>4, <1>10, <2>1, <2>2, <2>3 DEF Respond
  <1>11. ASSUME NEW c \in LinkCalls, ReadUnlock(c) PROVE LinkInv' /\ LinkMove
    <2>1. LinkTypeOK'
      BY <1>0, <1>11 DEF ReadUnlock, LinkTypeOK, LinkRecords
    <2>2. Relinking' = Relinking
      BY <1>0, <1>11 DEF ReadUnlock, LinkTypeOK, Relinking, NoRequest
    <2> QED BY <1>3, <1>4, <1>11, <2>1, <2>2 DEF ReadUnlock
  <1>12. ASSUME NEW c \in LinkCalls, Unlock(c) PROVE LinkInv' /\ LinkMove
    <2>1. LinkTypeOK' /\ attempts' = 0
      BY <1>0, <1>12 DEF Unlock, LinkTypeOK, LinkRecords, NoRequest
    <2> QED BY <1>0, <1>2, <1>4, <1>12, <2>1 DEF Unlock
  <1>13. ASSUME NEW c \in LinkCalls, NEW admin \in BOOLEAN,
                NEW to \in {"approved", "rejected", "revoked"}, ReadRespond(c, admin, to)
         PROVE  LinkInv' /\ LinkMove
    <2>1. LinkTypeOK'
      BY <1>0, <1>13 DEF ReadRespond, LinkTypeOK, LinkRecords
    <2>2. Relinking' = Relinking
      BY <1>0, <1>13 DEF ReadRespond, LinkTypeOK, Relinking, NoRequest
    <2> QED BY <1>3, <1>4, <1>13, <2>1, <2>2 DEF ReadRespond
  <1>14. CASE PlanNext \/ UNCHANGED guardianVars
    <2>1. UNCHANGED <<guardianLink, attempts, linkCall>>
      BY <1>14 DEF PlanNext, guardianVars, linkVars, Propose, Accept, CreateTask, AcceptDies, Decline,
                   ReadPropose, ReadProposal
    <2> QED BY <1>0, <1>5, <2>1 DEF LinkTypeOK
  <1> QED
    BY <1>6, <1>7, <1>8, <1>9, <1>10, <1>11, <1>12, <1>13, <1>14 DEF GuardianNext, LinkNext

\* A link reopens only when it was ended, never over an approval, and it is asked for
\* again no more often than the limit and the requests under way together allow: for
\* every limit and every number of requests.
THEOREM ReopenedOnlyWhenEnded == GuardianSpec => RelinkedOnlyWhenEnded
  <1>1. GuardianInit => LinkInv
    <2> SUFFICES ASSUME GuardianInit PROVE LinkInv
      OBVIOUS
    <2>1. LinkTypeOK /\ attempts = 0
      BY DEF GuardianInit, LinkTypeOK, LinkRecords, NoRequest
    <2>2. Relinking \in SUBSET LinkCalls
      BY DEF Relinking
    <2> QED BY <2>1, <2>2, SubsetOfCalls, GuardianAssumption DEF LinkInv
  <1>2. LinkInv /\ [GuardianNext]_guardianVars => LinkInv' /\ [LinkMove]_guardianVars
    BY LinkStep
  <1> QED BY <1>1, <1>2, PTL DEF GuardianSpec, RelinkedOnlyWhenEnded, LinkMove

(****************************************************************************)
(* The plans of a guardian.                                                 *)
(****************************************************************************)
PlanRecords ==
    [at : {"none"}] \cup [at : {"propose", "accepted", "declined", "task"}, plan : Plans]

PlanTypeOK ==
    /\ plan \in [Plans -> {"draft", "proposed", "accepted", "declined"}]
    /\ planCall \in [PlanCalls -> PlanRecords]
    /\ proposals \in [Plans -> Nat] /\ acceptances \in [Plans -> Nat]
    /\ refusals \in [Plans -> Nat] /\ tasks \in [Plans -> Nat] /\ taskless \in [Plans -> Nat]

\* The requests between the acceptance of a plan and its task.
TaskDue(p) == {c \in PlanCalls : planCall[c].at = "task" /\ planCall[c].plan = p}

\* A plan is answered as often as it was proposed, the open proposal apart.
AnswersMatch(p) ==
    acceptances[p] + refusals[p] = proposals[p] - (IF plan[p] = "proposed" THEN 1 ELSE 0)

\* Finitely many requests owe a task, and with them the tasks match the acceptances.
TasksMatch(p) ==
    /\ IsFiniteSet(TaskDue(p))
    /\ acceptances[p] = tasks[p] + taskless[p] + Cardinality(TaskDue(p))

PlanInv ==
    /\ PlanTypeOK
    /\ \A p \in Plans : AnswersMatch(p) /\ TasksMatch(p)

\* The idle record and the records of a plan's requests are told apart.
LEMMA PlanRecord ==
    ASSUME PlanTypeOK, NEW c \in PlanCalls, planCall[c].at # "none"
    PROVE  planCall[c] \in [at : {"propose", "accepted", "declined", "task"}, plan : Plans]
  BY DEF PlanTypeOK, PlanRecords

\* A request that has no task to make and takes none on changes no due task.
LEMMA SameTasksDue ==
    ASSUME PlanTypeOK, NEW c \in PlanCalls, NEW record, planCall[c].at # "task", record.at # "task",
           planCall' = [planCall EXCEPT ![c] = record]
    PROVE  \A p \in Plans : TaskDue(p)' = TaskDue(p)
  BY DEF PlanTypeOK, TaskDue

\* The request that made its task, or that died before, owes it no longer.
LEMMA TaskNoLongerDue ==
    ASSUME PlanInv, NEW c \in PlanCalls, planCall[c].at = "task",
           planCall' = [planCall EXCEPT ![c] = NoRequest]
    PROVE  /\ planCall[c].plan \in Plans
           /\ \A p \in Plans :
                 /\ IsFiniteSet(TaskDue(p)')
                 /\ Cardinality(TaskDue(p)) \in Nat
                 /\ Cardinality(TaskDue(p)') = IF p = planCall[c].plan THEN Cardinality(TaskDue(p)) - 1
                                               ELSE Cardinality(TaskDue(p))
  <1>1. planCall[c].plan \in Plans
    BY PlanRecord DEF PlanInv
  <1>2. ASSUME NEW p \in Plans, p = planCall[c].plan
        PROVE  c \in TaskDue(p) /\ TaskDue(p)' = TaskDue(p) \ {c}
    BY <1>2 DEF PlanInv, PlanTypeOK, TaskDue, NoRequest
  <1>3. ASSUME NEW p \in Plans, p # planCall[c].plan
        PROVE  TaskDue(p)' = TaskDue(p)
    BY <1>3 DEF PlanInv, PlanTypeOK, TaskDue, NoRequest
  <1>4. \A p \in Plans : IsFiniteSet(TaskDue(p)) /\ Cardinality(TaskDue(p)) \in Nat
    BY FS_CardinalityType DEF PlanInv, TasksMatch
  <1> QED BY <1>1, <1>2, <1>3, <1>4, FS_RemoveElement

\* The request that accepted a plan owes its task.
LEMMA TaskComesDue ==
    ASSUME PlanInv, NEW c \in PlanCalls, planCall[c].at = "accepted",
           planCall' = [planCall EXCEPT ![c].at = "task"]
    PROVE  /\ planCall[c].plan \in Plans
           /\ planCall' \in [PlanCalls -> PlanRecords]
           /\ \A p \in Plans :
                 /\ IsFiniteSet(TaskDue(p)')
                 /\ Cardinality(TaskDue(p)) \in Nat
                 /\ Cardinality(TaskDue(p)') = IF p = planCall[c].plan THEN Cardinality(TaskDue(p)) + 1
                                               ELSE Cardinality(TaskDue(p))
  <1>1. planCall[c] \in [at : {"propose", "accepted", "declined", "task"}, plan : Plans]
    BY PlanRecord DEF PlanInv
  <1>2. [planCall[c] EXCEPT !.at = "task"] = [at |-> "task", plan |-> planCall[c].plan]
    BY <1>1
  <1>3. planCall' = [planCall EXCEPT ![c] = [at |-> "task", plan |-> planCall[c].plan]]
    BY <1>2
  <1>4. planCall' \in [PlanCalls -> PlanRecords]
    BY <1>1, <1>3 DEF PlanInv, PlanTypeOK, PlanRecords
  <1>5. ASSUME NEW p \in Plans, p = planCall[c].plan
        PROVE  c \notin TaskDue(p) /\ TaskDue(p)' = TaskDue(p) \cup {c}
    BY <1>3, <1>5 DEF PlanInv, PlanTypeOK, TaskDue
  <1>6. ASSUME NEW p \in Plans, p # planCall[c].plan
        PROVE  TaskDue(p)' = TaskDue(p)
    BY <1>3, <1>6 DEF PlanInv, PlanTypeOK, TaskDue
  <1>7. \A p \in Plans : IsFiniteSet(TaskDue(p)) /\ Cardinality(TaskDue(p)) \in Nat
    BY FS_CardinalityType DEF PlanInv, TasksMatch
  <1> QED BY <1>1, <1>4, <1>5, <1>6, <1>7, FS_AddElement

\* Each step of a request about a plan keeps the two accounts of it.
LEMMA PlanStep ==
    ASSUME PlanInv, [GuardianNext]_guardianVars
    PROVE  PlanInv'
  <1>0. PlanTypeOK /\ NoRequest \in PlanRecords /\ NoRequest.at = "none"
    BY DEF PlanInv, NoRequest, PlanRecords
  <1>1. \A p \in Plans : Cardinality(TaskDue(p)) \in Nat
    BY FS_CardinalityType DEF PlanInv, TasksMatch
  \* A step that touches neither the tasks nor the history.
  <1>2. ASSUME PlanTypeOK', UNCHANGED <<plan, tasks, planHistory>>,
               \A p \in Plans : TaskDue(p)' = TaskDue(p)
        PROVE  PlanInv'
    BY <1>2 DEF PlanInv, AnswersMatch, TasksMatch, planHistory
  <1>3. ASSUME NEW c \in PlanCalls, NEW p \in Plans, ReadPropose(c, p) PROVE PlanInv'
    <2> DEFINE record == [at |-> "propose", plan |-> p]
    <2>1. record \in PlanRecords /\ record.at # "task"
      BY DEF PlanRecords
    <2>2. planCall' = [planCall EXCEPT ![c] = record] /\ planCall[c].at = "none"
      BY <1>3 DEF ReadPropose, NoRequest
    <2> HIDE DEF record
    <2>3. \A q \in Plans : TaskDue(q)' = TaskDue(q)
      BY <1>0, <2>1, <2>2, SameTasksDue
    <2>4. PlanTypeOK'
      BY <1>0, <1>3, <2>1, <2>2 DEF ReadPropose, PlanTypeOK, planHistory
    <2> QED BY <1>2, <1>3, <2>3, <2>4 DEF ReadPropose
  <1>4. ASSUME NEW c \in PlanCalls, NEW p \in Plans, NEW next \in {"accepted", "declined"},
               ReadProposal(c, p, next)
        PROVE  PlanInv'
    <2> DEFINE record == [at |-> next, plan |-> p]
    <2>1. record \in PlanRecords /\ record.at # "task"
      BY DEF PlanRecords
    <2>2. planCall' = [planCall EXCEPT ![c] = record] /\ planCall[c].at = "none"
      BY <1>4 DEF ReadProposal, NoRequest
    <2> HIDE DEF record
    <2>3. \A q \in Plans : TaskDue(q)' = TaskDue(q)
      BY <1>0, <2>1, <2>2, SameTasksDue
    <2>4. PlanTypeOK'
      BY <1>0, <1>4, <2>1, <2>2 DEF ReadProposal, PlanTypeOK, planHistory
    <2> QED BY <1>2, <1>4, <2>3, <2>4 DEF ReadProposal
  <1>5. ASSUME NEW c \in PlanCalls, Propose(c) PROVE PlanInv'
    <2>1. planCall[c].plan \in Plans
      BY <1>0, <1>5, PlanRecord DEF Propose
    <2>2. \A q \in Plans : TaskDue(q)' = TaskDue(q)
      BY <1>0, <1>5, SameTasksDue DEF Propose
    <2>3. PlanTypeOK'
      BY <1>0, <1>5, <2>1 DEF Propose, PlanTypeOK
    <2>4. \A p \in Plans : AnswersMatch(p)'
      BY <1>0, <1>5, <2>1 DEF Propose, PlanInv, PlanTypeOK, AnswersMatch
    <2>5. \A p \in Plans : TasksMatch(p)'
      BY <1>5, <2>2 DEF Propose, PlanInv, TasksMatch
    <2> QED BY <2>3, <2>4, <2>5 DEF PlanInv
  <1>6. ASSUME NEW c \in PlanCalls, Accept(c) PROVE PlanInv'
    <2>1. planCall[c].plan \in Plans
      BY <1>0, <1>6, PlanRecord DEF Accept
    <2>2. CASE plan[planCall[c].plan] = "proposed"
      <3>1. /\ plan' = [plan EXCEPT ![planCall[c].plan] = "accepted"]
            /\ acceptances' = [acceptances EXCEPT ![planCall[c].plan] = @ + 1]
            /\ planCall' = [planCall EXCEPT ![c].at = "task"]
            /\ planCall[c].at = "accepted"
            /\ UNCHANGED <<tasks, proposals, refusals, taskless>>
        BY <1>6, <2>2 DEF Accept, StillProposed
      <3>2. /\ planCall' \in [PlanCalls -> PlanRecords]
            /\ \A p \in Plans :
                  /\ IsFiniteSet(TaskDue(p)')
                  /\ Cardinality(TaskDue(p)') = IF p = planCall[c].plan
                                                THEN Cardinality(TaskDue(p)) + 1
                                                ELSE Cardinality(TaskDue(p))
        BY <3>1, TaskComesDue
      <3>3. PlanTypeOK'
        BY <1>0, <2>1, <3>1, <3>2 DEF PlanTypeOK
      <3>4. \A p \in Plans : AnswersMatch(p)'
        BY <1>0, <2>1, <2>2, <3>1 DEF PlanInv, PlanTypeOK, AnswersMatch
      <3>5. \A p \in Plans : TasksMatch(p)'
        BY <1>0, <1>1, <2>1, <3>1, <3>2 DEF PlanInv, PlanTypeOK, TasksMatch
      <3> QED BY <3>3, <3>4, <3>5 DEF PlanInv
    <2>3. CASE plan[planCall[c].plan] # "proposed"
      <3>1. /\ planCall' = [planCall EXCEPT ![c] = NoRequest] /\ planCall[c].at = "accepted"
            /\ UNCHANGED <<plan, tasks, planHistory>>
        BY <1>6, <2>3 DEF Accept, StillProposed, planHistory
      <3>2. \A q \in Plans : TaskDue(q)' = TaskDue(q)
        BY <1>0, <3>1, SameTasksDue
      <3>3. PlanTypeOK'
        BY <1>0, <3>1 DEF PlanTypeOK, planHistory
      <3> QED BY <1>2, <3>1, <3>2, <3>3
    <2> QED BY <2>2, <2>3
  <1>7. ASSUME NEW c \in PlanCalls, CreateTask(c) \/ AcceptDies(c) PROVE PlanInv'
    <2>1. /\ planCall' = [planCall EXCEPT ![c] = NoRequest] /\ planCall[c].at = "task"
          /\ UNCHANGED <<plan, proposals, acceptances, refusals>>
      BY <1>7 DEF CreateTask, AcceptDies, planHistory
    <2>2. /\ planCall[c].plan \in Plans
          /\ \A p \in Plans :
                /\ IsFiniteSet(TaskDue(p)')
                /\ Cardinality(TaskDue(p)') = IF p = planCall[c].plan THEN Cardinality(TaskDue(p)) - 1
                                              ELSE Cardinality(TaskDue(p))
      BY <2>1, TaskNoLongerDue
    <2>3. PlanTypeOK'
      BY <1>0, <1>7, <2>1, <2>2 DEF CreateTask, AcceptDies, PlanTypeOK, planHistory
    <2>4. \A p \in Plans : AnswersMatch(p)'
      BY <2>1 DEF PlanInv, AnswersMatch
    <2>5. \A p \in Plans : tasks'[p] + taskless'[p] =
              IF p = planCall[c].plan THEN tasks[p] + taskless[p] + 1 ELSE tasks[p] + taskless[p]
      BY <1>0, <1>7, <2>2 DEF CreateTask, AcceptDies, PlanTypeOK, planHistory
    <2>6. \A p \in Plans : TasksMatch(p)'
      BY <1>0, <1>1, <2>1, <2>2, <2>5, <2>3 DEF PlanInv, PlanTypeOK, TasksMatch
    <2> QED BY <2>3, <2>4, <2>6 DEF PlanInv
  <1>8. ASSUME NEW c \in PlanCalls, Decline(c) PROVE PlanInv'
    <2>1. planCall[c].plan \in Plans
      BY <1>0, <1>8, PlanRecord DEF Decline
    <2>2. \A q \in Plans : TaskDue(q)' = TaskDue(q)
      BY <1>0, <1>8, SameTasksDue DEF Decline
    <2>3. PlanTypeOK'
      BY <1>0, <1>8, <2>1 DEF Decline, PlanTypeOK
    <2>4. \A p \in Plans : AnswersMatch(p)'
      BY <1>0, <1>8, <2>1 DEF Decline, StillProposed, PlanInv, PlanTypeOK, AnswersMatch
    <2>5. \A p \in Plans : TasksMatch(p)'
      BY <1>8, <2>2 DEF Decline, PlanInv, TasksMatch
    <2> QED BY <2>3, <2>4, <2>5 DEF PlanInv
  <1>9. CASE LinkNext \/ UNCHANGED guardianVars
    <2>1. UNCHANGED planVars
      BY <1>9 DEF LinkNext, guardianVars, FirstRequest, CooldownPasses, ReadRelink, Relink, Respond,
                  ReadUnlock, Unlock, ReadRespond
    <2>2. PlanTypeOK'
      BY <1>0, <2>1 DEF planVars, planHistory, PlanTypeOK
    <2>3. \A p \in Plans : TaskDue(p)' = TaskDue(p)
      BY <2>1 DEF planVars, TaskDue
    <2> QED BY <1>2, <2>1, <2>2, <2>3 DEF planVars
  <1> QED
    BY <1>3, <1>4, <1>5, <1>6, <1>7, <1>8, <1>9 DEF GuardianNext, PlanNext

\* The student answers every proposal once, and every acceptance has its task, or owes
\* it, or lost it with its request: for every number of plans and of requests.
THEOREM EveryProposalAnsweredOnce == GuardianSpec => []AnsweredOncePerProposal
  <1>1. GuardianInit => PlanInv
    <2> SUFFICES ASSUME GuardianInit PROVE PlanInv
      OBVIOUS
    <2>1. PlanTypeOK
      BY DEF GuardianInit, PlanTypeOK, PlanRecords, NoRequest
    <2>2. \A p \in Plans : TaskDue(p) = {}
      BY DEF GuardianInit, TaskDue, NoRequest
    <2> QED BY <2>1, <2>2, FS_EmptySet DEF GuardianInit, PlanInv, AnswersMatch, TasksMatch
  <1>2. PlanInv /\ [GuardianNext]_guardianVars => PlanInv'
    BY PlanStep
  <1>3. PlanInv => AnsweredOncePerProposal
    BY DEF PlanInv, AnsweredOncePerProposal, AnswersMatch, TasksMatch, TaskDue
  <1> QED BY <1>1, <1>2, <1>3, PTL DEF GuardianSpec

(****************************************************************************)
(* Chat rooms.                                                              *)
(****************************************************************************)
Authors == {"student", "teacher"}
MessageRows == [by : Authors \cup {"nobody"}, late : BOOLEAN, deleted : BOOLEAN, liked : SUBSET Authors]
Views == [by : Authors \cup {"nobody"}, deleted : BOOLEAN, liked : SUBSET Authors]
Tidings ==
    [kind : {"message"}, of : Messages, as : Views]
    \cup [kind : {"reaction"}, of : Messages, liked : SUBSET Authors]
    \cup [kind : {"deleted"}, of : Messages]
RoomEvents == Tidings \cup [kind : {"history"}, rows : [Messages -> MessageRows]]
RoomCalls ==
    [at : {"still"}]
    \cup [at : {"save"}, of : Messages, used : Nat, ended : BOOLEAN]
    \cup [at : {"react"}, of : Messages, liked : SUBSET Authors]
    \cup [at : {"tell"}, of : Messages, event : Tidings]
Joining == [at : {"out", "entered", "read", "in"}, rows : [Messages -> MessageRows]]

\* The messages in use.
Sent == {m \in Messages : message[m].by # "nobody"}

\* Rows, joins, wires, screens and calls have their shapes.
ChatTypeOK ==
    /\ message \in [Messages -> MessageRows]
    /\ IsFiniteSet(Sent)
    /\ phase \in {"open", "ended", "closed"}
    /\ socket \in [Devices -> Joining]
    /\ wire \in [Devices -> Seq(RoomEvents)]
    /\ screen \in [Devices -> [Messages -> Views]]
    /\ call \in [Devices -> RoomCalls]
    /\ joins \in Nat /\ calls \in Nat /\ staleSends \in Nat

\* The messages that count against the free ones.
FreeOnes == {m \in Messages : Live(m) /\ message[m].by = "student" /\ message[m].late}

\* A row has a view, and only one that nobody wrote has the empty view.
LEMMA RowShape ==
    ASSUME NEW r \in MessageRows
    PROVE  Shape(r) \in Views /\ (Shape(r) = Nothing => r.by = "nobody")
  BY DEF MessageRows, Views, Shape, Seen, Nothing

\* The row of an id that is not in use.
LEMMA EmptyRow ==
    NoMessage \in MessageRows /\ Shape(NoMessage) = Nothing /\ Nothing \in Views
  BY DEF NoMessage, MessageRows, Shape, Seen, Nothing, Views

\* Finitely many messages were sent, so that the free ones can be counted.
LEMMA FreeCount ==
    ASSUME ChatTypeOK
    PROVE  IsFiniteSet(FreeOnes) /\ CountPostEnd = Cardinality(FreeOnes) /\ CountPostEnd \in Nat
  <1>1. FreeOnes \in SUBSET Sent
    BY DEF FreeOnes, Sent, Live
  <1>2. IsFiniteSet(FreeOnes) /\ Cardinality(FreeOnes) \in Nat
    BY <1>1, FS_Subset, FS_CardinalityType DEF ChatTypeOK
  <1> QED BY <1>2 DEF FreeOnes, CountPostEnd

\* The gateway's count is of them.
CountsTheFree == CountPostEnd = Cardinality(FreeOnes)

\* What the gateway counts are the free ones,
LEMMA CountIsFree == CountsTheFree
  BY DEF CountsTheFree, FreeOnes, CountPostEnd

\* before a step and after it.
LEMMA CountIsFreeNext == CountPostEnd' = Cardinality(FreeOnes')
  <1>1. CountsTheFree'
    BY CountIsFree, PTL
  <1> QED BY <1>1 DEF CountsTheFree

\* A reaction changes nothing else of a view.
LEMMA LikesReplaced ==
    ASSUME NEW v \in Views, NEW new
    PROVE  [v EXCEPT !.liked = new] = Seen(v.by, v.deleted, new)
  BY DEF Seen, Views

\* What an event makes of the view of one message.
After(v, e, m) ==
    CASE e.kind = "history" -> Shape(e.rows[m])
      [] e.kind = "message" -> IF e.of = m /\ v = Nothing THEN e.as ELSE v
      [] e.kind = "reaction" -> IF e.of # m \/ v = Nothing THEN v ELSE [v EXCEPT !.liked = e.liked]
      [] e.kind = "deleted" -> IF e.of # m \/ v = Nothing THEN v ELSE Seen(v.by, TRUE, {})

\* The client applies an event message by message.
LEMMA EventShown ==
    ASSUME NEW s \in [Messages -> Views], NEW e \in RoomEvents, NEW m \in Messages
    PROVE  /\ Shown(s, e) \in [Messages -> Views]
           /\ Shown(s, e)[m] = After(s[m], e, m)
  <1>1. CASE e \in [kind : {"history"}, rows : [Messages -> MessageRows]]
    <2>1. e.kind = "history" /\ e.rows \in [Messages -> MessageRows]
      BY <1>1
    <2>2. Shown(s, e) = [n \in Messages |-> Shape(e.rows[n])]
      BY <2>1 DEF Shown
    <2>3. \A n \in Messages : Shape(e.rows[n]) \in Views
      BY <2>1, RowShape
    <2> QED BY <2>1, <2>2, <2>3 DEF After
  <1>2. CASE e \in [kind : {"message"}, of : Messages, as : Views]
    <2>1. e.kind = "message" /\ e.of \in Messages /\ e.as \in Views
      BY <1>2
    <2>2. Shown(s, e) = IF s[e.of] = Nothing THEN [s EXCEPT ![e.of] = e.as] ELSE s
      BY <2>1 DEF Shown
    <2>3. After(s[m], e, m) = IF e.of = m /\ s[m] = Nothing THEN e.as ELSE s[m]
      BY <2>1 DEF After
    <2> QED BY <2>1, <2>2, <2>3
  <1>3. CASE e \in [kind : {"reaction"}, of : Messages, liked : SUBSET Authors]
    <2>1. e.kind = "reaction" /\ e.of \in Messages /\ e.liked \in SUBSET Authors
      BY <1>3
    <2>2. Shown(s, e) = IF s[e.of] = Nothing THEN s ELSE [s EXCEPT ![e.of].liked = e.liked]
      BY <2>1 DEF Shown
    <2>3. After(s[m], e, m)
            = IF e.of # m \/ s[m] = Nothing THEN s[m] ELSE [s[m] EXCEPT !.liked = e.liked]
      BY <2>1 DEF After
    <2>4. \A n \in Messages : [s[n] EXCEPT !.liked = e.liked] \in Views
      BY <2>1 DEF Views
    <2> QED BY <2>1, <2>2, <2>3, <2>4
  <1>4. CASE e \in [kind : {"deleted"}, of : Messages]
    <2>1. e.kind = "deleted" /\ e.of \in Messages
      BY <1>4
    <2>2. Shown(s, e) = IF s[e.of] = Nothing THEN s
                        ELSE [s EXCEPT ![e.of] = Seen(s[e.of].by, TRUE, {})]
      BY <2>1 DEF Shown
    <2>3. After(s[m], e, m) = IF e.of # m \/ s[m] = Nothing THEN s[m] ELSE Seen(s[m].by, TRUE, {})
      BY <2>1 DEF After
    <2>4. \A n \in Messages : Seen(s[n].by, TRUE, {}) \in Views
      BY DEF Views, Seen
    <2> QED BY <2>1, <2>2, <2>3, <2>4
  <1> QED BY <1>1, <1>2, <1>3, <1>4 DEF RoomEvents, Tidings

\* What an event makes of a view is a view.
LEMMA AfterType ==
    ASSUME NEW v \in Views, NEW e \in RoomEvents, NEW m \in Messages
    PROVE  After(v, e, m) \in Views
  <1>1. [n \in Messages |-> v] \in [Messages -> Views] /\ [n \in Messages |-> v][m] = v
    OBVIOUS
  <1>2. /\ Shown([n \in Messages |-> v], e) \in [Messages -> Views]
        /\ Shown([n \in Messages |-> v], e)[m] = After([n \in Messages |-> v][m], e, m)
    BY <1>1, EventShown
  <1> QED BY <1>1, <1>2

\* Rows, screens, wires and calls stay well formed.
LEMMA ChatType ==
    ASSUME ChatTypeOK, [ChatNext]_chatVars
    PROVE  ChatTypeOK'
  <1> USE DEF ChatTypeOK
  <1>1. ASSUME NEW d \in Devices, Enter(d) PROVE ChatTypeOK'
    <2>1. [socket[d] EXCEPT !.at = "entered"] \in Joining
      BY DEF Joining
    <2> QED BY <1>1, <2>1 DEF Enter, Sent
  <1>2. ASSUME NEW d \in Devices, ReadHistory(d) PROVE ChatTypeOK'
    <2>1. HistoryRows \in [Messages -> MessageRows]
      BY EmptyRow DEF HistoryRows
    <2> QED BY <1>2, <2>1 DEF ReadHistory, Joining, Sent
  <1>3. ASSUME NEW d \in Devices, AnswerJoin(d) PROVE ChatTypeOK'
    <2>1. [kind |-> "history", rows |-> socket[d].rows] \in RoomEvents
      BY DEF RoomEvents, Joining
    <2>2. [Away EXCEPT !.at = "in"] \in Joining
      BY EmptyRow DEF Away, Joining
    <2>3. Append(wire[d], [kind |-> "history", rows |-> socket[d].rows]) \in Seq(RoomEvents)
      BY <2>1
    <2> QED BY <1>3, <2>2, <2>3 DEF AnswerJoin, Sent
  <1>4. ASSUME NEW d \in Devices, Receive(d) PROVE ChatTypeOK'
    <2>1. wire[d] \in Seq(RoomEvents) /\ wire[d] # <<>>
      BY <1>4 DEF Receive
    <2>2. Head(wire[d]) \in RoomEvents /\ Tail(wire[d]) \in Seq(RoomEvents)
      BY <2>1
    <2>3. Shown(screen[d], Head(wire[d])) \in [Messages -> Views]
      <3>1. CASE Messages = {}
        <4>1. Shown(screen[d], Head(wire[d])) = screen[d]
          BY <2>2, <3>1 DEF Shown, RoomEvents, Tidings
        <4> QED BY <4>1
      <3>2. CASE Messages # {}
        BY <2>2, <3>2, EventShown
      <3> QED BY <3>1, <3>2
    <2> QED BY <1>4, <2>2, <2>3 DEF Receive, Sent
  <1>5. ASSUME NEW d \in Devices, Drop(d) PROVE ChatTypeOK'
    <2>1. Away \in Joining
      BY EmptyRow DEF Away, Joining
    <2> QED BY <1>5, <2>1 DEF Drop, Sent
  <1>6. ASSUME NEW d \in Devices, NEW m \in Messages, CheckSend(d, m) PROVE ChatTypeOK'
    <2>1. [at |-> "save", of |-> m, used |-> CountPostEnd, ended |-> phase = "ended"] \in RoomCalls
      BY FreeCount DEF RoomCalls
    <2> QED BY <1>6, <2>1 DEF CheckSend, TakeUp, Sent
  <1>7. ASSUME NEW d \in Devices, SaveMessage(d) PROVE ChatTypeOK'
    <2>1. call[d].of \in Messages /\ call[d].ended \in BOOLEAN /\ call[d].used \in Nat
      BY <1>7 DEF SaveMessage, RoomCalls
    <2>2. OwnerOf[d] \in Authors
      BY ChatAssumption DEF Authors
    <2>3. [NoMessage EXCEPT !.by = OwnerOf[d], !.late = phase # "open"] \in MessageRows
      BY <2>2 DEF NoMessage, MessageRows
    <2>4. message' = [message EXCEPT ![call[d].of] =
                        [NoMessage EXCEPT !.by = OwnerOf[d], !.late = phase # "open"]]
      BY <1>7 DEF SaveMessage
    <2>5. [at |-> "tell", of |-> call[d].of, event |->
             [kind |-> "message", of |-> call[d].of, as |-> Seen(OwnerOf[d], FALSE, {})]] \in RoomCalls
      BY <2>1, <2>2 DEF RoomCalls, Tidings, Views, Seen
    <2>6. Sent' \in SUBSET (Sent \cup {call[d].of}) /\ IsFiniteSet(Sent \cup {call[d].of})
      BY <2>1, <2>4, FS_AddElement DEF Sent
    <2>7. IsFiniteSet(Sent')
      BY <2>6, FS_Subset
    <2>8. staleSends' \in Nat
      BY <1>7 DEF SaveMessage
    <2>9. call' \in [Devices -> RoomCalls]
      BY <1>7, <2>5 DEF SaveMessage
    <2>10. message' \in [Messages -> MessageRows]
      BY <2>1, <2>3, <2>4
    <2> QED BY <1>7, <2>7, <2>8, <2>9, <2>10 DEF SaveMessage
  <1>8. ASSUME NEW d \in Devices, NEW m \in Messages, DeleteMessage(d, m) PROVE ChatTypeOK'
    <2>1. message' = [message EXCEPT ![m].deleted = TRUE]
      BY <1>8 DEF DeleteMessage
    <2>2. message' \in [Messages -> MessageRows]
      BY <2>1 DEF MessageRows
    <2>3. Sent' = Sent
      BY <2>1 DEF Sent, MessageRows
    <2>4. [at |-> "tell", of |-> m, event |-> [kind |-> "deleted", of |-> m]] \in RoomCalls
      BY DEF RoomCalls, Tidings
    <2> QED BY <1>8, <2>2, <2>3, <2>4 DEF DeleteMessage, TakeUp
  <1>9. ASSUME NEW d \in Devices, NEW m \in Messages, ReadReactions(d, m) PROVE ChatTypeOK'
    <2> DEFINE liked == (message[m].liked \ {OwnerOf[d]}) \cup ({OwnerOf[d]} \ message[m].liked)
    <2>1. liked \in SUBSET Authors
      BY ChatAssumption DEF Authors, ChatTypeOK, MessageRows
    <2>2. [at |-> "react", of |-> m, liked |-> liked] \in RoomCalls
      BY <2>1 DEF RoomCalls
    <2> QED BY <1>9, <2>2 DEF ReadReactions, TakeUp, Sent
  <1>10. ASSUME NEW d \in Devices, WriteReactions(d) PROVE ChatTypeOK'
    <2>1. call[d].of \in Messages /\ call[d].liked \in SUBSET Authors
      BY <1>10 DEF WriteReactions, RoomCalls
    <2>2. message' = [message EXCEPT ![call[d].of].liked = call[d].liked]
      BY <1>10 DEF WriteReactions
    <2>3. message' \in [Messages -> MessageRows]
      BY <2>1, <2>2 DEF MessageRows
    <2>4. Sent' = Sent
      <3>1. \A n \in Messages : message'[n].by = message[n].by
        BY <2>1, <2>2 DEF MessageRows
      <3> QED BY <3>1 DEF Sent
    <2>5. [at |-> "tell", of |-> call[d].of, event |->
             [kind |-> "reaction", of |-> call[d].of, liked |-> call[d].liked]] \in RoomCalls
      BY <2>1 DEF RoomCalls, Tidings
    <2> QED BY <1>10, <2>3, <2>4, <2>5 DEF WriteReactions
  <1>11. ASSUME NEW d \in Devices, TellRoom(d) PROVE ChatTypeOK'
    <2>1. call[d].event \in RoomEvents
      BY <1>11 DEF TellRoom, RoomCalls, RoomEvents
    <2>2. Still \in RoomCalls
      BY DEF Still, RoomCalls
    <2>3. wire' = [e \in Devices |-> IF InRoom(e) THEN Append(wire[e], call[d].event) ELSE wire[e]]
      BY <1>11 DEF TellRoom
    <2>4. \A e \in Devices : Append(wire[e], call[d].event) \in Seq(RoomEvents)
      BY <2>1
    <2> QED BY <1>11, <2>2, <2>3, <2>4 DEF TellRoom, Sent
  <1>12. CASE Later
    BY <1>12 DEF Later, Sent
  <1>13. CASE ServerRestarts
    <2>1. Away \in Joining /\ Still \in RoomCalls
      BY EmptyRow DEF Away, Joining, Still, RoomCalls
    <2>2. <<>> \in Seq(RoomEvents)
      OBVIOUS
    <2> QED BY <1>13, <2>1, <2>2 DEF ServerRestarts, Sent
  <1>14. CASE UNCHANGED chatVars
    BY <1>14 DEF chatVars, Sent
  <1> QED BY <1>1, <1>2, <1>3, <1>4, <1>5, <1>6, <1>7, <1>8, <1>9, <1>10, <1>11, <1>12, <1>13,
             <1>14 DEF ChatNext

\* What each call under way knows of its message, and a row nobody wrote is empty.
CallFits(e) ==
    LET c == call[e]
    IN /\ c.at = "save" =>
             /\ message[c.of] = NoMessage /\ \A o \in Devices : Works(o, c.of) => o = e
             /\ c.ended /\ OwnerOf[e] = "student" => c.used < FreeLimit
       /\ c.at \in {"react", "tell"} => message[c.of].by # "nobody"
       /\ c.at = "tell" => c.event.of = c.of

\* Together with the limit of free messages.
RoomSound ==
    /\ \A m \in Messages : message[m].by = "nobody" => message[m] = NoMessage
    /\ \A e \in Devices : CallFits(e)
    /\ FreeWithinLimit

\* What calls know of their messages, and the count of the free ones, survive every step.
LEMMA RoomSoundNext ==
    ASSUME ChatTypeOK, RoomSound, [ChatNext]_chatVars
    PROVE  RoomSound'
  <1> USE DEF RoomSound
  <1>0. /\ \A e \in Devices : call[e] \in RoomCalls
        /\ \A m \in Messages : message[m] \in MessageRows
    BY DEF ChatTypeOK
  <1>1. ASSUME UNCHANGED <<message, call, staleSends>> PROVE RoomSound'
    BY <1>1 DEF CallFits, Works, FreeWithinLimit, CountPostEnd, Live
  <1>2. ASSUME NEW d \in Devices, NEW m \in Messages, CheckSend(d, m) PROVE RoomSound'
    <2>1. /\ call' = [call EXCEPT ![d] = [at |-> "save", of |-> m, used |-> CountPostEnd,
                                         ended |-> phase = "ended"]]
          /\ UNCHANGED <<message, staleSends>> /\ message[m] = NoMessage
          /\ \A e \in Devices : ~Works(e, m)
      BY <1>2 DEF CheckSend, TakeUp
    <2>2. phase = "ended" /\ OwnerOf[d] = "student" => CountPostEnd < FreeLimit
      BY <1>2 DEF CheckSend, MaySend
    <2>3. CallFits(d)'
      BY <2>1, <2>2 DEF CallFits, Works, ChatTypeOK
    <2>4. ASSUME NEW e \in Devices \ {d} PROVE CallFits(e)'
      <3>1. call'[e] = call[e] /\ CallFits(e)
        BY <2>1 DEF ChatTypeOK
      <3>2. call[e].at = "save" => call[e].of # m
        BY <2>1 DEF Works
      <3>3. call'[d].of = m
        BY <2>1 DEF ChatTypeOK
      <3>4. \A o \in Devices : o # d => (Works(o, call[e].of)' <=> Works(o, call[e].of))
        BY <2>1 DEF Works, ChatTypeOK
      <3> QED BY <2>1, <3>1, <3>2, <3>3, <3>4 DEF CallFits, Works
    <2>5. FreeWithinLimit'
      BY <2>1 DEF FreeWithinLimit, CountPostEnd, Live
    <2> QED BY <2>1, <2>3, <2>4, <2>5
  <1>3. ASSUME NEW d \in Devices, SaveMessage(d) PROVE RoomSound'
    <2> DEFINE c == call[d]
               row == [NoMessage EXCEPT !.by = OwnerOf[d], !.late = phase # "open"]
    <2>1. c.at = "save" /\ c.of \in Messages /\ c.ended \in BOOLEAN /\ c.used \in Nat
      BY <1>3, <1>0 DEF SaveMessage, RoomCalls
    <2>2. /\ message' = [message EXCEPT ![c.of] = row]
          /\ call' = [call EXCEPT ![d] = [at |-> "tell", of |-> c.of, event |->
                        [kind |-> "message", of |-> c.of, as |-> Seen(OwnerOf[d], FALSE, {})]]]
      BY <1>3 DEF SaveMessage
    <2>3. OwnerOf[d] \in Authors /\ row.by = OwnerOf[d] /\ row.late = (phase # "open")
            /\ row.deleted = FALSE
      BY ChatAssumption DEF Authors, NoMessage
    <2>4. message[c.of] = NoMessage /\ \A o \in Devices : Works(o, c.of) => o = d
      BY <2>1 DEF CallFits
    <2>5. \A n \in Messages : message'[n] = IF n = c.of THEN row ELSE message[n]
      BY <2>2 DEF ChatTypeOK
    <2>6. \A n \in Messages : message'[n].by = "nobody" => message'[n] = NoMessage
      BY <2>3, <2>5 DEF Authors
    <2>7. CallFits(d)'
      BY <2>1, <2>2, <2>3, <2>5 DEF CallFits, ChatTypeOK, Authors
    <2>8. ASSUME NEW e \in Devices \ {d} PROVE CallFits(e)'
      <3>1. call'[e] = call[e] /\ CallFits(e) /\ call[e] \in RoomCalls
        BY <2>2, <1>0 DEF ChatTypeOK
      <3>2. call[e].at # "still" => call[e].of \in Messages /\ call[e].of # c.of
        BY <2>4, <3>1 DEF Works, RoomCalls
      <3>3. call'[d].of = c.of
        BY <2>2 DEF ChatTypeOK
      <3>4. \A o \in Devices : o # d => (Works(o, call[e].of)' <=> Works(o, call[e].of))
        BY <2>2 DEF Works, ChatTypeOK
      <3> HIDE DEF c, row
      <3> QED BY <2>5, <3>1, <3>2, <3>3, <3>4 DEF CallFits, Works
    <2>9. FreeWithinLimit'
      <3>0. PICK k \in Messages : k = c.of
        BY <2>1
      <3>1. FreeOnes' = IF OwnerOf[d] = "student" /\ phase # "open"
                        THEN FreeOnes \cup {k} ELSE FreeOnes
        <4>1. c.of \notin FreeOnes
          BY <2>4 DEF FreeOnes, Live, NoMessage
        <4> HIDE DEF c, row
        <4>2. \A n \in Messages : n # c.of => (n \in FreeOnes' <=> n \in FreeOnes)
          BY <2>5 DEF FreeOnes, Live
        <4>3. c.of \in FreeOnes' <=> OwnerOf[d] = "student" /\ phase # "open"
          BY <2>1, <2>3, <2>5 DEF FreeOnes, Live, Authors
        <4>4. FreeOnes \subseteq Messages /\ FreeOnes' \subseteq Messages
          BY DEF FreeOnes
        <4>5. \A n : n \in FreeOnes' <=> (n \in FreeOnes \/ (n = k /\ OwnerOf[d] = "student" /\ phase # "open"))
          BY <3>0, <4>1, <4>2, <4>3, <4>4
        <4> QED BY <4>5
      <3>2. CountPostEnd' = Cardinality(FreeOnes')
        BY CountIsFreeNext
      <3>3. /\ IsFiniteSet(FreeOnes) /\ CountPostEnd = Cardinality(FreeOnes) /\ CountPostEnd \in Nat
        BY FreeCount
      <3>4. Cardinality(FreeOnes \cup {k}) \in Nat /\ Cardinality(FreeOnes \cup {k}) <= CountPostEnd + 1
        <4>1. PICK S : S = FreeOnes
          OBVIOUS
        <4>2. Cardinality(S \cup {k}) = IF k \in S THEN Cardinality(S) ELSE Cardinality(S) + 1
          BY <3>3, <4>1, FS_AddElement
        <4> QED BY <3>3, <4>1, <4>2
      <3>5. staleSends' = IF phase # "open" /\ OwnerOf[d] = "student" /\ (~c.ended \/ CountPostEnd > c.used)
                          THEN staleSends + 1 ELSE staleSends
        BY <1>3 DEF SaveMessage
      <3>6. c.ended /\ OwnerOf[d] = "student" => c.used < FreeLimit
        BY <2>1 DEF CallFits
      <3>7. FreeLimit \in Nat /\ staleSends \in Nat /\ CountPostEnd <= FreeLimit + staleSends
        BY ChatAssumption DEF ChatTypeOK, FreeWithinLimit, RoomSound
      <3> HIDE DEF c
      <3>8. CASE OwnerOf[d] = "student" /\ phase # "open"
        <4>1. CountPostEnd' = Cardinality(FreeOnes \cup {k})
          BY <3>1, <3>2, <3>8
        <4>2. CASE ~c.ended \/ CountPostEnd > c.used
          <5>1. staleSends' = staleSends + 1
            BY <3>5, <3>8, <4>2
          <5> QED BY <4>1, <5>1, <3>3, <3>4, <3>7 DEF FreeWithinLimit
        <4>3. CASE c.ended /\ ~(CountPostEnd > c.used)
          <5>1. staleSends' = staleSends
            BY <3>5, <3>8, <4>3, <2>1
          <5> QED BY <4>1, <5>1, <4>3, <2>1, <3>8, <3>3, <3>4, <3>6, <3>7 DEF FreeWithinLimit
        <4> QED BY <4>2, <4>3, <2>1
      <3>9. CASE ~(OwnerOf[d] = "student" /\ phase # "open")
        <4>1. CountPostEnd' = CountPostEnd /\ staleSends' = staleSends
          BY <3>1, <3>2, <3>3, <3>5, <3>9
        <4> QED BY <4>1, <3>7 DEF FreeWithinLimit
      <3> QED BY <3>8, <3>9
    <2> QED BY <2>6, <2>7, <2>8, <2>9
  <1>4. ASSUME NEW d \in Devices, NEW m \in Messages, DeleteMessage(d, m) PROVE RoomSound'
    <2>1. /\ message' = [message EXCEPT ![m].deleted = TRUE] /\ Live(m)
          /\ call' = [call EXCEPT ![d] = [at |-> "tell", of |-> m, event |-> [kind |-> "deleted", of |-> m]]]
          /\ staleSends' = staleSends
      BY <1>4 DEF DeleteMessage, TakeUp
    <2>2. /\ \A n \in Messages : message'[n].by = message[n].by /\ message'[n].late = message[n].late
          /\ \A n \in Messages \ {m} : message'[n] = message[n]
          /\ message'[m].deleted = TRUE
      BY <2>1, <1>0 DEF ChatTypeOK, MessageRows
    <2>3. message[m].by # "nobody" /\ message[m] # NoMessage
      BY <2>1 DEF Live, NoMessage
    <2>4. CallFits(d)'
      BY <2>1, <2>2, <2>3 DEF CallFits, ChatTypeOK
    <2>5. ASSUME NEW e \in Devices \ {d} PROVE CallFits(e)'
      <3>1. call'[e] = call[e] /\ CallFits(e) /\ call[e] \in RoomCalls
        BY <2>1, <1>0 DEF ChatTypeOK
      <3>2. call[e].at = "save" => call[e].of \in Messages /\ call[e].of # m
        BY <2>3, <3>1 DEF CallFits, RoomCalls
      <3>3. call'[d].of = m
        BY <2>1 DEF ChatTypeOK
      <3>4. \A o \in Devices : o # d => (Works(o, call[e].of)' <=> Works(o, call[e].of))
        BY <2>1 DEF Works, ChatTypeOK
      <3>5. call[e].at \in {"react", "tell"} => call[e].of \in Messages
        BY <3>1 DEF RoomCalls
      <3> QED BY <2>2, <3>1, <3>2, <3>3, <3>4, <3>5 DEF CallFits, Works
    <2>6. FreeWithinLimit'
      <3>1. FreeOnes' \in SUBSET FreeOnes
        BY <2>2, <1>0 DEF FreeOnes, Live, MessageRows
      <3>2. /\ IsFiniteSet(FreeOnes) /\ CountPostEnd = Cardinality(FreeOnes) /\ CountPostEnd \in Nat
        BY FreeCount
      <3>3. PICK left : left = FreeOnes'
        OBVIOUS
      <3>4. IsFiniteSet(left) /\ Cardinality(left) <= Cardinality(FreeOnes)
        BY <3>1, <3>2, <3>3, FS_Subset
      <3>5. Cardinality(left) \in Nat
        BY <3>4, FS_CardinalityType
      <3>6. CountPostEnd' = Cardinality(left)
        BY <3>3, CountIsFreeNext
      <3>7. FreeLimit \in Nat /\ staleSends \in Nat /\ CountPostEnd <= FreeLimit + staleSends
        BY ChatAssumption DEF ChatTypeOK, FreeWithinLimit, RoomSound
      <3> QED BY <3>2, <3>4, <3>5, <3>6, <3>7, <2>1 DEF FreeWithinLimit
    <2> QED BY <2>2, <2>3, <2>4, <2>5, <2>6
  <1>5. ASSUME NEW d \in Devices, NEW m \in Messages, ReadReactions(d, m) PROVE RoomSound'
    <2>1. PICK l : /\ call' = [call EXCEPT ![d] = [at |-> "react", of |-> m, liked |-> l]]
                   /\ Live(m) /\ UNCHANGED <<message, staleSends>>
      BY <1>5 DEF ReadReactions, TakeUp, Reactable
    <2>2. message[m].by # "nobody" /\ message[m] # NoMessage
      BY <2>1 DEF Live, NoMessage
    <2>3. CallFits(d)'
      BY <2>1, <2>2 DEF CallFits, ChatTypeOK
    <2>4. ASSUME NEW e \in Devices \ {d} PROVE CallFits(e)'
      <3>1. call'[e] = call[e] /\ CallFits(e)
        BY <2>1 DEF ChatTypeOK
      <3>2. call[e].at = "save" => call[e].of # m
        BY <2>2, <3>1 DEF CallFits
      <3>3. call'[d].of = m
        BY <2>1 DEF ChatTypeOK
      <3>4. \A o \in Devices : o # d => (Works(o, call[e].of)' <=> Works(o, call[e].of))
        BY <2>1 DEF Works, ChatTypeOK
      <3> QED BY <2>1, <3>1, <3>2, <3>3, <3>4 DEF CallFits, Works
    <2>5. FreeWithinLimit'
      BY <2>1 DEF FreeWithinLimit, CountPostEnd, Live
    <2> QED BY <2>1, <2>3, <2>4, <2>5
  <1>6. ASSUME NEW d \in Devices, WriteReactions(d) PROVE RoomSound'
    <2> DEFINE c == call[d]
    <2>1. c.at = "react" /\ c.of \in Messages
      BY <1>6, <1>0 DEF WriteReactions, RoomCalls
    <2>2. /\ message' = [message EXCEPT ![c.of].liked = c.liked] /\ staleSends' = staleSends
          /\ call' = [call EXCEPT ![d] = [at |-> "tell", of |-> c.of, event |->
                        [kind |-> "reaction", of |-> c.of, liked |-> c.liked]]]
      BY <1>6 DEF WriteReactions
    <2>3. message[c.of].by # "nobody" /\ message[c.of] # NoMessage
      BY <2>1 DEF CallFits, NoMessage
    <2>4. /\ \A n \in Messages : message'[n].by = message[n].by /\ message'[n].late = message[n].late
                                  /\ message'[n].deleted = message[n].deleted
          /\ \A n \in Messages \ {c.of} : message'[n] = message[n]
      BY <2>1, <2>2, <1>0 DEF ChatTypeOK, MessageRows
    <2>5. CallFits(d)'
      BY <2>1, <2>2, <2>3, <2>4 DEF CallFits, ChatTypeOK
    <2>6. ASSUME NEW e \in Devices \ {d} PROVE CallFits(e)'
      <3>1. call'[e] = call[e] /\ CallFits(e) /\ call[e] \in RoomCalls
        BY <2>2, <1>0 DEF ChatTypeOK
      <3>2. call[e].at = "save" => call[e].of \in Messages /\ call[e].of # c.of
        BY <2>3, <3>1 DEF CallFits, RoomCalls
      <3>3. call'[d].of = c.of
        BY <2>2 DEF ChatTypeOK
      <3>4. \A o \in Devices : o # d => (Works(o, call[e].of)' <=> Works(o, call[e].of))
        BY <2>2 DEF Works, ChatTypeOK
      <3>5. call[e].at \in {"react", "tell"} => call[e].of \in Messages
        BY <3>1 DEF RoomCalls
      <3> HIDE DEF c
      <3> QED BY <2>4, <3>1, <3>2, <3>3, <3>4, <3>5 DEF CallFits, Works
    <2>7. FreeWithinLimit'
      <3>1. \A n \in Messages : (Live(n) /\ message[n].by = "student" /\ message[n].late)'
                                  <=> (Live(n) /\ message[n].by = "student" /\ message[n].late)
        BY <2>4 DEF Live
      <3>2. CountPostEnd' = CountPostEnd
        BY <3>1 DEF CountPostEnd
      <3> QED BY <2>2, <3>2 DEF FreeWithinLimit
    <2> QED BY <2>3, <2>4, <2>5, <2>6, <2>7
  <1>7. ASSUME NEW D \in SUBSET Devices, UNCHANGED <<message, staleSends>>,
               call' = [e \in Devices |-> IF e \in D THEN Still ELSE call[e]]
        PROVE  RoomSound'
    <2>1. ASSUME NEW e \in Devices PROVE CallFits(e)'
      <3>1. \A o \in Devices : call'[o] = IF o \in D THEN Still ELSE call[o]
        BY <1>7
      <3>2. CASE e \in D
        BY <3>1, <3>2 DEF CallFits, Still
      <3>3. CASE e \notin D
        <4>1. call'[e] = call[e] /\ CallFits(e)
          BY <3>1, <3>3
        <4>2. \A o \in Devices : Works(o, call[e].of)' => Works(o, call[e].of)
          BY <1>7, <3>1, <4>1 DEF Works, Still
        <4> QED BY <1>7, <4>1, <4>2 DEF CallFits
      <3> QED BY <3>2, <3>3
    <2>2. FreeWithinLimit'
      BY <1>7 DEF FreeWithinLimit, CountPostEnd, Live
    <2> QED BY <1>7, <2>1, <2>2
  <1>8. ASSUME NEW d \in Devices, TellRoom(d) PROVE RoomSound'
    <2>1. call' = [e \in Devices |-> IF e \in {d} THEN Still ELSE call[e]]
      BY <1>8 DEF TellRoom, ChatTypeOK
    <2> QED BY <1>7, <1>8, <2>1 DEF TellRoom
  <1>9. CASE ServerRestarts
    BY <1>7, <1>9 DEF ServerRestarts
  <1> QED BY <1>1, <1>2, <1>3, <1>4, <1>5, <1>6, <1>8, <1>9
          DEF ChatNext, Enter, ReadHistory, AnswerJoin, Receive, Drop, Later, chatVars

\* f follows what a device will show of m while it receives what is on its wire.
Follows(f, d, m) ==
    /\ f \in [0 .. Len(wire[d]) -> Views]
    /\ f[0] = screen[d][m]
    /\ \A i \in 1 .. Len(wire[d]) : f[i] = After(f[i - 1], wire[d][i], m)

\* A device that has its history, of a message it had room for and nothing is left to
\* chance about.
Clear(d, m) == socket[d].at \in {"read", "in"} /\ <<d, m>> \notin doubtful \cup leftOut

\* One handler at a time is at work on m, and nobody reacts to a recalled message.
Undisturbed(m) ==
    /\ \A e, o \in Devices : Works(e, m) /\ Works(o, m) => e = o
    /\ \A e \in Devices : call[e].at = "react" /\ call[e].of = m => ~message[m].deleted

\* A view is that of the table, or becomes it with what is about to be told.
Agrees(m, v) ==
    /\ \A e \in Devices : call[e].at = "tell" /\ call[e].of = m
          => After(v, call[e].event, m) = Shape(message[m])
    /\ (\A e \in Devices : ~(call[e].at = "tell" /\ call[e].of = m)) => v = Shape(message[m])

\* What a device will show of m: the history it waits for, or where its wire leads.
Will(f, d, m) == IF socket[d].at = "read" THEN Shape(socket[d].rows[m]) ELSE f[Len(wire[d])]

PairSound(d, m) ==
    \E f : /\ Follows(f, d, m)
           /\ Clear(d, m) => Undisturbed(m) /\ Agrees(m, Will(f, d, m))

\* What a device will show is a view.
LEMMA WillType ==
    ASSUME ChatTypeOK, NEW d \in Devices, NEW m \in Messages, NEW f, Follows(f, d, m)
    PROVE  Will(f, d, m) \in Views
  <1>1. Len(wire[d]) \in 0 .. Len(wire[d])
    BY DEF ChatTypeOK
  <1>2. Shape(socket[d].rows[m]) \in Views
    BY RowShape DEF ChatTypeOK, Joining
  <1> QED BY <1>1, <1>2 DEF Will, Follows

\* A handler that works on a table row leaves every view as near to it as it was.
LEMMA HandlersKeep ==
    ASSUME ChatTypeOK, RoomSound,
           NEW d \in Devices, NEW e \in Devices, NEW n \in Messages, NEW v \in Views,
           Undisturbed(n), Agrees(n, v), InRoom(d), <<d, n>> \notin doubtful',
           \/ \E m \in Messages : CheckSend(e, m) \/ DeleteMessage(e, m) \/ ReadReactions(e, m)
           \/ SaveMessage(e) \/ WriteReactions(e)
    PROVE  Undisturbed(n)' /\ Agrees(n, v)'
  <1>0. /\ \A o \in Devices : call[o] \in RoomCalls
        /\ \A m \in Messages : message[m] \in MessageRows
    BY DEF ChatTypeOK
  \* A call on another message changes nothing for n.
  <1>1. ASSUME NEW m \in Messages, m # n, NEW c, c.of = m, call' = [call EXCEPT ![e] = c],
               call[e].at = "still" \/ call[e].of = m, message'[n] = message[n]
        PROVE  Undisturbed(n)' /\ Agrees(n, v)'
    <2>1. \A o \in Devices : call'[o] = IF o = e THEN c ELSE call[o]
      BY <1>1 DEF ChatTypeOK
    <2>2. \A o \in Devices : Works(o, n)' <=> Works(o, n)
      BY <1>1, <2>1 DEF Works
    <2>3. Undisturbed(n)'
      BY <1>1, <2>1, <2>2 DEF Undisturbed
    <2>4. \A o \in Devices : call'[o].at = "tell" /\ call'[o].of = n
              <=> call[o].at = "tell" /\ call[o].of = n
      BY <1>1, <2>1
    <2>5. \A o \in Devices : call'[o].at = "tell" /\ call'[o].of = n => call'[o] = call[o]
      BY <1>1, <2>1
    <2> QED BY <1>1, <2>3, <2>4, <2>5 DEF Agrees
  <1>2. ASSUME NEW m \in Messages, CheckSend(e, m) PROVE Undisturbed(n)' /\ Agrees(n, v)'
    <2> DEFINE c == [at |-> "save", of |-> m, used |-> CountPostEnd, ended |-> phase = "ended"]
    <2>1. /\ call' = [call EXCEPT ![e] = c] /\ c.of = m /\ c.at = "save" /\ message' = message
          /\ call[e].at = "still" /\ \A o \in Devices : ~Works(o, m)
      BY <1>2 DEF CheckSend, TakeUp, MayWrite
    <2> HIDE DEF c
    <2>2. CASE m # n
      BY <1>1, <2>1, <2>2
    <2>3. CASE m = n
      <3>1. \A o \in Devices : call'[o] = IF o = e THEN c ELSE call[o]
        BY <2>1 DEF ChatTypeOK
      <3>2. \A o \in Devices : o # e => ~Works(o, n)'
        BY <2>1, <2>3, <3>1 DEF Works
      <3>3. Undisturbed(n)'
        BY <2>1, <3>1, <3>2 DEF Undisturbed, Works
      <3>4. \A o \in Devices : ~(call[o].at = "tell" /\ call[o].of = n)
                               /\ ~(call'[o].at = "tell" /\ call'[o].of = n)
        BY <2>1, <2>3, <3>1 DEF Works
      <3> QED BY <2>1, <3>3, <3>4 DEF Agrees
    <2> QED BY <2>2, <2>3
  <1>3. ASSUME NEW m \in Messages, DeleteMessage(e, m) PROVE Undisturbed(n)' /\ Agrees(n, v)'
    <2> DEFINE ev == [kind |-> "deleted", of |-> m]
               c == [at |-> "tell", of |-> m, event |-> ev]
    <2>1. /\ call' = [call EXCEPT ![e] = c] /\ c.of = m /\ c.at = "tell" /\ c.event = ev
          /\ call[e].at = "still" /\ Live(m)
          /\ message' = [message EXCEPT ![m].deleted = TRUE]
      BY <1>3 DEF DeleteMessage, TakeUp, MayWrite
    <2>2. (\E o \in Devices \ {e} : Works(o, m)) => <<d, m>> \in doubtful'
      BY <1>3 DEF DeleteMessage, TakeUp
    <2>3. ev.kind = "deleted" /\ ev.of = m
      OBVIOUS
    <2> HIDE DEF ev, c
    <2>4. CASE m # n
      BY <1>1, <2>1, <2>4 DEF ChatTypeOK
    <2>5. CASE m = n
      <3>1. \A o \in Devices : call'[o] = IF o = e THEN c ELSE call[o]
        BY <2>1 DEF ChatTypeOK
      <3>2. \A o \in Devices : ~Works(o, n)
        BY <2>1, <2>2, <2>5 DEF Works
      <3>3. Undisturbed(n)'
        BY <2>1, <3>1, <3>2 DEF Undisturbed, Works
      <3>4. v = Shape(message[n])
        BY <3>2 DEF Agrees, Works
      <3>5. message[n].by \in Authors /\ message[n].by # "nobody"
        BY <1>0, <2>1, <2>5 DEF Live, MessageRows
      <3>6. v # Nothing /\ v.by = message[n].by
        BY <3>4, <3>5 DEF Shape, Seen, Nothing
      <3>7. After(v, ev, n) = Seen(v.by, TRUE, {})
        BY <2>3, <2>5, <3>6 DEF After
      <3>8. message'[n].by = message[n].by /\ message'[n].deleted = TRUE
        BY <1>0, <2>1, <2>5 DEF ChatTypeOK, MessageRows
      <3>9. After(v, ev, n) = Shape(message'[n])
        BY <3>6, <3>7, <3>8 DEF Shape
      <3>10. \A o \in Devices : call'[o].at = "tell" /\ call'[o].of = n => o = e
        BY <3>1, <3>2 DEF Works
      <3>11. call'[e].at = "tell" /\ call'[e].of = n /\ call'[e].event = ev
        BY <2>1, <2>5, <3>1
      <3> QED BY <3>3, <3>9, <3>10, <3>11 DEF Agrees
    <2> QED BY <2>4, <2>5
  <1>4. ASSUME NEW m \in Messages, ReadReactions(e, m) PROVE Undisturbed(n)' /\ Agrees(n, v)'
    <2>1. PICK l : /\ call' = [call EXCEPT ![e] = [at |-> "react", of |-> m, liked |-> l]]
                   /\ Live(m) /\ message' = message /\ call[e].at = "still"
                   /\ (\E o \in Devices \ {e} : Works(o, m)) => <<d, m>> \in doubtful'
      BY <1>4 DEF ReadReactions, TakeUp, Reactable, MayWrite
    <2> DEFINE c == [at |-> "react", of |-> m, liked |-> l]
    <2>2. c.at = "react" /\ c.of = m /\ call' = [call EXCEPT ![e] = c]
      BY <2>1
    <2> HIDE DEF c
    <2>3. CASE m # n
      BY <1>1, <2>1, <2>2, <2>3
    <2>4. CASE m = n
      <3>1. \A o \in Devices : call'[o] = IF o = e THEN c ELSE call[o]
        BY <2>2 DEF ChatTypeOK
      <3>2. \A o \in Devices : ~Works(o, n)
        BY <2>1, <2>4 DEF Works
      <3>3. Undisturbed(n)'
        BY <2>1, <2>2, <2>4, <3>1, <3>2 DEF Undisturbed, Works, Live
      <3>4. \A o \in Devices : ~(call[o].at = "tell" /\ call[o].of = n)
                               /\ ~(call'[o].at = "tell" /\ call'[o].of = n)
        BY <2>2, <3>1, <3>2 DEF Works
      <3> QED BY <2>1, <3>3, <3>4 DEF Agrees
    <2> QED BY <2>3, <2>4
  <1>5. ASSUME SaveMessage(e) PROVE Undisturbed(n)' /\ Agrees(n, v)'
    <2> DEFINE m == call[e].of
               ev == [kind |-> "message", of |-> m, as |-> Seen(OwnerOf[e], FALSE, {})]
               c == [at |-> "tell", of |-> m, event |-> ev]
               row == [NoMessage EXCEPT !.by = OwnerOf[e], !.late = phase # "open"]
    <2>1. /\ call' = [call EXCEPT ![e] = c] /\ c.of = m /\ c.at = "tell" /\ c.event = ev
          /\ call[e].at = "save" /\ message' = [message EXCEPT ![m] = row] /\ m \in Messages
      BY <1>5, <1>0 DEF SaveMessage, RoomCalls
    <2>2. message[m] = NoMessage /\ \A o \in Devices : Works(o, m) => o = e
      BY <2>1 DEF RoomSound, CallFits
    <2>3. ev.kind = "message" /\ ev.of = m /\ ev.as = Shape(row)
      BY DEF Shape, NoMessage
    <2>4. message'[m] = row /\ \A k \in Messages \ {m} : message'[k] = message[k]
      BY <2>1 DEF ChatTypeOK
    <2>5. row.deleted = FALSE
      BY DEF NoMessage
    <2>6. PICK mm : mm = m
      OBVIOUS
    <2> HIDE DEF ev, c, row
    <2>7. CASE m # n
      BY <1>1, <2>1, <2>4, <2>7
    <2>8. CASE m = n
      <3>1. \A o \in Devices : call'[o] = IF o = e THEN c ELSE call[o]
        BY <2>1 DEF ChatTypeOK
      <3>2. \A o \in Devices : Works(o, n) => o = e
        BY <2>2, <2>8
      <3>3. \A o \in Devices : Works(o, n)' => o = e
        BY <3>1, <3>2 DEF Works
      <3>4. Undisturbed(n)'
        BY <2>1, <2>4, <2>5, <2>8, <3>1, <3>3 DEF Undisturbed
      <3>5. v = Nothing
        <4>1. \A o \in Devices : ~(call[o].at = "tell" /\ call[o].of = n)
          BY <2>1, <3>2 DEF Works
        <4> QED BY <4>1, <2>2, <2>8, EmptyRow DEF Agrees
      <3>6. After(v, ev, n) = Shape(message'[n])
        BY <2>3, <2>4, <2>8, <3>5 DEF After
      <3>7. \A o \in Devices : call'[o].at = "tell" /\ call'[o].of = n => o = e
        BY <3>3 DEF Works
      <3>8. call'[e].at = "tell" /\ call'[e].of = n /\ call'[e].event = ev
        BY <2>1, <2>8, <3>1
      <3> QED BY <3>4, <3>6, <3>7, <3>8 DEF Agrees
    <2> QED BY <2>7, <2>8
  <1>6. ASSUME WriteReactions(e) PROVE Undisturbed(n)' /\ Agrees(n, v)'
    <2> DEFINE m == call[e].of
               l == call[e].liked
               ev == [kind |-> "reaction", of |-> m, liked |-> l]
               c == [at |-> "tell", of |-> m, event |-> ev]
    <2>1. /\ call' = [call EXCEPT ![e] = c] /\ c.of = m /\ c.at = "tell" /\ c.event = ev
          /\ call[e].at = "react" /\ message' = [message EXCEPT ![m].liked = l] /\ m \in Messages
      BY <1>6, <1>0 DEF WriteReactions, RoomCalls
    <2>2. message[m].by # "nobody"
      BY <2>1 DEF RoomSound, CallFits
    <2>3. ev.kind = "reaction" /\ ev.of = m /\ ev.liked = l
      OBVIOUS
    <2>4. /\ message'[m].by = message[m].by /\ message'[m].deleted = message[m].deleted
          /\ message'[m].liked = l
          /\ \A k \in Messages \ {m} : message'[k] = message[k]
      BY <1>0, <2>1 DEF ChatTypeOK, MessageRows
    <2> HIDE DEF ev, c, l
    <2>5. CASE m # n
      BY <1>1, <2>1, <2>4, <2>5
    <2>6. CASE m = n
      <3>1. \A o \in Devices : call'[o] = IF o = e THEN c ELSE call[o]
        BY <2>1 DEF ChatTypeOK
      <3>2. Works(e, n) /\ \A o \in Devices : Works(o, n) => o = e
        BY <2>1, <2>6 DEF Undisturbed, Works
      <3>3. \A o \in Devices : Works(o, n)' => o = e
        BY <3>1, <3>2 DEF Works
      <3>4. Undisturbed(n)'
        BY <2>1, <3>1, <3>3 DEF Undisturbed, Works
      <3>5. ~message[n].deleted
        BY <2>1, <2>6 DEF Undisturbed
      <3>6. v = Shape(message[n])
        <4>1. \A o \in Devices : ~(call[o].at = "tell" /\ call[o].of = n)
          BY <2>1, <3>2 DEF Works
        <4> QED BY <4>1 DEF Agrees
      <3>7. v = Seen(message[n].by, FALSE, message[n].liked) /\ v # Nothing
        BY <1>0, <2>2, <2>6, <3>5, <3>6 DEF Shape, Seen, Nothing, MessageRows
      <3>8. After(v, ev, n) = [v EXCEPT !.liked = l]
        BY <2>3, <2>6, <3>7 DEF After
      <3>9. [v EXCEPT !.liked = l] = Seen(message[n].by, FALSE, l)
        <4>1. v.by = message[n].by /\ v.deleted = FALSE
          BY <3>7 DEF Seen
        <4>2. [v EXCEPT !.liked = l] = Seen(v.by, v.deleted, l)
          BY LikesReplaced
        <4> QED BY <4>1, <4>2
      <3>10. Shape(message'[n]) = Seen(message[n].by, FALSE, l)
        BY <1>0, <2>4, <2>6, <3>5 DEF Shape, MessageRows
      <3>11. \A o \in Devices : call'[o].at = "tell" /\ call'[o].of = n => o = e
        BY <3>3 DEF Works
      <3>12. call'[e].at = "tell" /\ call'[e].of = n /\ call'[e].event = ev
        BY <2>1, <2>6, <3>1
      <3> QED BY <3>4, <3>8, <3>9, <3>10, <3>11, <3>12 DEF Agrees
    <2> QED BY <2>5, <2>6
  <1> QED BY <1>2, <1>3, <1>4, <1>5, <1>6

\* Where the wire, the screen and the joining of a device stay, so does what it will show.
LEMMA FollowsStays ==
    ASSUME NEW d \in Devices, NEW m \in Messages, NEW f,
           wire'[d] = wire[d], screen'[d] = screen[d]
    PROVE  Follows(f, d, m)' <=> Follows(f, d, m)
  BY DEF Follows

\* An event put on the wire is followed by what it makes of the last view.
LEMMA FollowsAppend ==
    ASSUME ChatTypeOK, NEW d \in Devices, NEW m \in Messages, NEW f, Follows(f, d, m),
           NEW e \in RoomEvents, wire'[d] = Append(wire[d], e), screen'[d] = screen[d]
    PROVE  \E g : /\ Follows(g, d, m)'
                  /\ g[Len(wire'[d])] = After(f[Len(wire[d])], e, m)
  <1>1. PICK w : w = wire[d]
    OBVIOUS
  <1>2. w \in Seq(RoomEvents) /\ Len(w) \in Nat
    BY <1>1 DEF ChatTypeOK
  <1>3. /\ f \in [0 .. Len(w) -> Views] /\ f[0] = screen[d][m]
        /\ \A i \in 1 .. Len(w) : f[i] = After(f[i - 1], w[i], m)
    BY <1>1 DEF Follows
  <1> DEFINE last == After(f[Len(w)], e, m)
             g == [i \in 0 .. Len(w) + 1 |-> IF i = Len(w) + 1 THEN last ELSE f[i]]
  <1>4. f[Len(w)] \in Views
    BY <1>2, <1>3
  <1>5. last \in Views
    BY <1>4, AfterType
  <1> HIDE DEF last
  <1>6. /\ Len(wire'[d]) = Len(w) + 1 /\ wire'[d][Len(w) + 1] = e
        /\ \A i \in 1 .. Len(w) : wire'[d][i] = w[i]
    BY <1>1, <1>2
  <1>7. g \in [0 .. Len(w) + 1 -> Views]
    <2>1. \A i \in 0 .. Len(w) + 1 : i # Len(w) + 1 => i \in 0 .. Len(w)
      BY <1>2
    <2> QED BY <1>3, <1>5, <2>1
  <1>8. g[0] = f[0] /\ g[Len(w) + 1] = last /\ \A i \in 0 .. Len(w) : g[i] = f[i]
    BY <1>2
  <1> HIDE DEF g
  <1>9. ASSUME NEW i \in 1 .. Len(w) + 1 PROVE g[i] = After(g[i - 1], wire'[d][i], m)
    <2>1. CASE i = Len(w) + 1
      <3>1. i - 1 = Len(w) /\ Len(w) \in 0 .. Len(w)
        BY <1>2, <2>1
      <3>2. g[i] = last /\ g[i - 1] = f[Len(w)] /\ wire'[d][i] = e
        BY <1>6, <1>8, <2>1, <3>1
      <3> QED BY <3>2 DEF last
    <2>2. CASE i # Len(w) + 1
      <3>1. i \in 1 .. Len(w) /\ i \in 0 .. Len(w) /\ i - 1 \in 0 .. Len(w)
        BY <1>2, <2>2
      <3> QED BY <1>3, <1>6, <1>8, <3>1
    <2> QED BY <2>1, <2>2
  <1>10. Follows(g, d, m)'
    BY <1>3, <1>6, <1>7, <1>8, <1>9 DEF Follows
  <1>11. g[Len(wire'[d])] = After(f[Len(wire[d])], e, m)
    BY <1>1, <1>6, <1>8 DEF last
  <1> QED BY <1>10, <1>11

\* Received, the first event is on the screen.
LEMMA FollowsReceive ==
    ASSUME ChatTypeOK, NEW d \in Devices, NEW m \in Messages, NEW f, Follows(f, d, m), Receive(d)
    PROVE  \E g : Follows(g, d, m)' /\ g[Len(wire'[d])] = f[Len(wire[d])]
  <1>1. PICK w : w = wire[d]
    OBVIOUS
  <1>2. w \in Seq(RoomEvents) /\ w # <<>> /\ Len(w) \in Nat /\ Len(w) > 0
    BY <1>1 DEF ChatTypeOK, Receive
  <1>3. /\ f \in [0 .. Len(w) -> Views] /\ f[0] = screen[d][m]
        /\ \A i \in 1 .. Len(w) : f[i] = After(f[i - 1], w[i], m)
    BY <1>1 DEF Follows
  <1>4. /\ Len(wire'[d]) = Len(w) - 1
        /\ \A i \in 1 .. Len(w) - 1 : wire'[d][i] = w[i + 1]
    <2>1. wire'[d] = Tail(w)
      BY <1>1 DEF Receive, ChatTypeOK
    <2> QED BY <1>2, <2>1
  <1>5. screen'[d][m] = f[1]
    <2>1. screen'[d] = Shown(screen[d], w[1]) /\ w[1] \in RoomEvents
      BY <1>1, <1>2 DEF Receive, ChatTypeOK
    <2>2. screen'[d][m] = After(screen[d][m], w[1], m)
      <3>1. PICK s \in [Messages -> Views] : s = screen[d]
        BY DEF ChatTypeOK
      <3>2. PICK e \in RoomEvents : e = w[1]
        BY <2>1
      <3>3. Shown(s, e)[m] = After(s[m], e, m)
        BY EventShown
      <3> QED BY <2>1, <3>1, <3>2, <3>3
    <2>3. 1 \in 1 .. Len(w) /\ 1 - 1 = 0
      BY <1>2
    <2> QED BY <1>3, <2>2, <2>3
  <1> DEFINE g == [i \in 0 .. Len(w) - 1 |-> f[i + 1]]
  <1>6. \A i \in 0 .. Len(w) - 1 : i + 1 \in 1 .. Len(w) /\ i + 1 \in 0 .. Len(w)
    BY <1>2
  <1>7. g \in [0 .. Len(w) - 1 -> Views] /\ \A i \in 0 .. Len(w) - 1 : g[i] = f[i + 1]
    BY <1>3, <1>6
  <1> HIDE DEF g
  <1>8. g[0] = f[1] /\ g[Len(w) - 1] = f[Len(w)]
    <2>1. 0 \in 0 .. Len(w) - 1 /\ Len(w) - 1 \in 0 .. Len(w) - 1 /\ 0 + 1 = 1 /\ Len(w) - 1 + 1 = Len(w)
      BY <1>2
    <2> QED BY <1>7, <2>1
  <1>9. ASSUME NEW i \in 1 .. Len(w) - 1 PROVE g[i] = After(g[i - 1], wire'[d][i], m)
    <2>1. /\ i \in 0 .. Len(w) - 1 /\ i - 1 \in 0 .. Len(w) - 1 /\ i - 1 + 1 = i
          /\ i + 1 \in 1 .. Len(w) /\ i + 1 - 1 = i
      BY <1>2
    <2>2. g[i] = f[i + 1] /\ g[i - 1] = f[i]
      BY <1>7, <2>1
    <2>3. f[i + 1] = After(f[i], w[i + 1], m)
      BY <1>3, <2>1
    <2> QED BY <1>4, <2>2, <2>3
  <1>10. Follows(g, d, m)'
    BY <1>4, <1>5, <1>7, <1>8, <1>9 DEF Follows
  <1>11. g[Len(wire'[d])] = f[Len(wire[d])]
    BY <1>1, <1>4, <1>8
  <1> QED BY <1>10, <1>11

\* A device without anything on its wire will show what it shows.
LEMMA FollowsNothing ==
    ASSUME ChatTypeOK', NEW d \in Devices, NEW m \in Messages, wire'[d] = <<>>
    PROVE  \E g : Follows(g, d, m)'
  <1>1. PICK v \in Views : v = screen'[d][m]
    BY DEF ChatTypeOK
  <1> DEFINE g == [i \in 0 .. 0 |-> v]
  <1>2. Len(wire'[d]) = 0 /\ 0 \in 0 .. 0 /\ \A i \in 1 .. 0 : FALSE
    OBVIOUS
  <1>3. g \in [0 .. 0 -> Views] /\ g[0] = v
    BY <1>2
  <1> HIDE DEF g
  <1>4. Follows(g, d, m)'
    BY <1>1, <1>2, <1>3 DEF Follows
  <1> QED BY <1>4

\* Some device is in doubt about m.
Murky(m) == \E p \in doubtful : p[2] = m

\* One handler is at work on m, and telling of it again changes nothing.
Calm(m) ==
    /\ Undisturbed(m)
    /\ \A e \in Devices : call[e].at = "tell" /\ call[e].of = m
          => After(Shape(message[m]), call[e].event, m) = Shape(message[m])

\* While somebody is at work on m, either some device is in doubt about it, so that
\* whoever joins meanwhile is too, or a history read now will agree with what is told.
WorkIsCalm(m) == (\E e \in Devices : Works(e, m)) => Murky(m) \/ Calm(m)

\* Taking up, writing, telling, joining and leaving keep that.
LEMMA WorkIsCalmNext ==
    ASSUME ChatTypeOK, RoomSound, [ChatNext]_chatVars,
           NEW n \in Messages, WorkIsCalm(n)
    PROVE  WorkIsCalm(n)'
  <1>0. /\ \A o \in Devices : call[o] \in RoomCalls
        /\ \A m \in Messages : message[m] \in MessageRows
    BY DEF ChatTypeOK
  <1>a. doubtful \subseteq doubtful' => (Murky(n) => Murky(n)')
    BY DEF Murky
  \* A call that is taken up.
  <1>1. ASSUME NEW e \in Devices, NEW m \in Messages, NEW c, TakeUp(e, m, c), InRoom(e),
               c.at \in {"save", "react", "tell"}, c.of = m, call[e].at = "still",
               m # n => message'[n] = message[n],
               c.at = "react" => ~message'[m].deleted,
               c.at = "tell" => After(Shape(message'[m]), c.event, m) = Shape(message'[m])
        PROVE  WorkIsCalm(n)'
    <2>1. /\ \A o \in Devices : call'[o] = IF o = e THEN c ELSE call[o]
          /\ doubtful \subseteq doubtful'
      BY <1>1 DEF TakeUp, ChatTypeOK
    <2>2. CASE m # n
      <3>1. \A o \in Devices : Works(o, n)' <=> Works(o, n)
        BY <1>1, <2>1, <2>2 DEF Works
      <3>2. Calm(n) => Undisturbed(n)'
        BY <1>1, <2>1, <2>2, <3>1 DEF Calm, Undisturbed
      <3>3. Calm(n) => Calm(n)'
        BY <1>1, <2>1, <2>2, <3>2 DEF Calm
      <3> QED BY <1>a, <2>1, <3>1, <3>3 DEF WorkIsCalm
    <2>3. CASE m = n /\ \E o \in Devices \ {e} : Works(o, m)
      <3>1. <<e, m>> \in doubtful'
        BY <1>1, <2>3 DEF TakeUp
      <3>2. <<e, m>>[2] = n
        BY <2>3
      <3>3. Murky(n)'
        BY <3>1, <3>2 DEF Murky
      <3> QED BY <3>3 DEF WorkIsCalm
    <2>4. CASE m = n /\ \A o \in Devices \ {e} : ~Works(o, m)
      <3>1. \A o \in Devices : Works(o, n)' => o = e
        BY <2>1, <2>4 DEF Works
      <3>2. Undisturbed(n)'
        BY <1>1, <2>1, <2>4, <3>1 DEF Undisturbed, Works
      <3>3. \A o \in Devices : call'[o].at = "tell" => (call'[o].of = n => o = e)
        BY <3>1 DEF Works
      <3>4. Calm(n)'
        BY <1>1, <2>1, <2>4, <3>2, <3>3 DEF Calm
      <3> QED BY <3>4 DEF WorkIsCalm
    <2> QED BY <2>2, <2>3, <2>4
  <1>2. ASSUME NEW e \in Devices, NEW m \in Messages, CheckSend(e, m) PROVE WorkIsCalm(n)'
    <2> DEFINE c == [at |-> "save", of |-> m, used |-> CountPostEnd, ended |-> phase = "ended"]
    <2>1. /\ TakeUp(e, m, c) /\ InRoom(e) /\ c.at = "save" /\ c.of = m /\ call[e].at = "still"
          /\ message' = message
      BY <1>2 DEF CheckSend, MayWrite, InRoom
    <2> HIDE DEF c
    <2> QED BY <1>1, <2>1
  <1>3. ASSUME NEW e \in Devices, NEW m \in Messages, DeleteMessage(e, m) PROVE WorkIsCalm(n)'
    <2> DEFINE ev == [kind |-> "deleted", of |-> m]
               c == [at |-> "tell", of |-> m, event |-> ev]
    <2>1. /\ TakeUp(e, m, c) /\ InRoom(e) /\ c.at = "tell" /\ c.of = m /\ c.event = ev
          /\ call[e].at = "still" /\ Live(m) /\ message' = [message EXCEPT ![m].deleted = TRUE]
      BY <1>3 DEF DeleteMessage, MayWrite, InRoom
    <2>2. ev.kind = "deleted" /\ ev.of = m
      OBVIOUS
    <2> HIDE DEF ev, c
    <2>3. /\ message'[m].deleted = TRUE /\ message'[m].by = message[m].by
          /\ \A k \in Messages \ {m} : message'[k] = message[k]
      BY <1>0, <2>1 DEF ChatTypeOK, MessageRows
    <2>4. PICK v : v = Shape(message'[m])
      OBVIOUS
    <2>5. v = Seen(message[m].by, TRUE, {}) /\ v.by = message[m].by /\ v # Nothing
      BY <2>1, <2>3, <2>4 DEF Shape, Seen, Nothing, Live
    <2>6. After(v, ev, m) = v
      BY <2>2, <2>5 DEF After
    <2> QED BY <1>1, <2>1, <2>3, <2>4, <2>6
  <1>4. ASSUME NEW e \in Devices, NEW m \in Messages, ReadReactions(e, m) PROVE WorkIsCalm(n)'
    <2>1. PICK l : /\ TakeUp(e, m, [at |-> "react", of |-> m, liked |-> l])
                   /\ InRoom(e) /\ Live(m) /\ message' = message /\ call[e].at = "still"
      BY <1>4 DEF ReadReactions, Reactable, MayWrite, InRoom
    <2> DEFINE c == [at |-> "react", of |-> m, liked |-> l]
    <2>2. c.at = "react" /\ c.of = m /\ TakeUp(e, m, c)
      BY <2>1
    <2> HIDE DEF c
    <2> QED BY <1>1, <2>1, <2>2 DEF Live
  \* A write of the call that works on m, which then tells of it.
  <1>5. ASSUME NEW e \in Devices, NEW m \in Messages, NEW c, Works(e, m),
               \A o \in Devices : call'[o] = IF o = e THEN c ELSE call[o],
               c.at = "tell", c.of = m, doubtful' = doubtful,
               m # n => message'[n] = message[n],
               m = n /\ Calm(n) => After(Shape(message'[m]), c.event, m) = Shape(message'[m])
        PROVE  WorkIsCalm(n)'
    <2>1. \A o \in Devices : Works(o, n)' <=> Works(o, n)
      BY <1>5 DEF Works
    <2>2. Murky(n) => Murky(n)'
      BY <1>5 DEF Murky
    <2>3. ASSUME Calm(n) PROVE Calm(n)'
      <3>1. CASE m # n
        <4>1. Undisturbed(n)'
          BY <1>5, <2>1, <2>3, <3>1 DEF Calm, Undisturbed
        <4> QED BY <1>5, <2>3, <3>1, <4>1 DEF Calm
      <3>2. CASE m = n
        <4>1. \A o \in Devices : Works(o, n) => o = e
          BY <1>5, <2>3, <3>2 DEF Calm, Undisturbed
        <4>2. Undisturbed(n)'
          BY <1>5, <2>1, <3>2, <4>1 DEF Undisturbed, Works
        <4>3. \A o \in Devices : call'[o].at = "tell" => (call'[o].of = n => o = e)
          BY <2>1, <4>1 DEF Works
        <4> QED BY <1>5, <2>3, <3>2, <4>2, <4>3 DEF Calm
      <3> QED BY <3>1, <3>2
    <2> QED BY <2>1, <2>2, <2>3 DEF WorkIsCalm
  <1>6. ASSUME NEW e \in Devices, SaveMessage(e) PROVE WorkIsCalm(n)'
    <2>1. PICK m \in Messages : m = call[e].of
      BY <1>6, <1>0 DEF SaveMessage, RoomCalls
    <2> DEFINE ev == [kind |-> "message", of |-> m, as |-> Seen(OwnerOf[e], FALSE, {})]
               c == [at |-> "tell", of |-> m, event |-> ev]
               row == [NoMessage EXCEPT !.by = OwnerOf[e], !.late = phase # "open"]
    <2>2. /\ \A o \in Devices : call'[o] = IF o = e THEN c ELSE call[o]
          /\ c.of = m /\ c.at = "tell" /\ c.event = ev
          /\ Works(e, m) /\ doubtful' = doubtful /\ message' = [message EXCEPT ![m] = row]
      BY <1>6, <2>1 DEF SaveMessage, ChatTypeOK, Works
    <2>3. message'[m] = row /\ \A k \in Messages \ {m} : message'[k] = message[k]
      BY <2>2 DEF ChatTypeOK
    <2>4. ev.kind = "message" /\ ev.of = m /\ ev.as = Shape(row)
      BY DEF Shape, NoMessage
    <2> HIDE DEF ev, c, row
    <2>5. After(Shape(row), ev, m) = Shape(row)
      BY <2>4 DEF After
    <2> QED BY <1>5, <2>2, <2>3, <2>5
  <1>7. ASSUME NEW e \in Devices, WriteReactions(e) PROVE WorkIsCalm(n)'
    <2>1. PICK m \in Messages, l \in SUBSET Authors : m = call[e].of /\ l = call[e].liked
      BY <1>7, <1>0 DEF WriteReactions, RoomCalls
    <2> DEFINE ev == [kind |-> "reaction", of |-> m, liked |-> l]
               c == [at |-> "tell", of |-> m, event |-> ev]
    <2>2. /\ \A o \in Devices : call'[o] = IF o = e THEN c ELSE call[o]
          /\ c.of = m /\ c.at = "tell" /\ c.event = ev /\ call[e].at = "react"
          /\ Works(e, m) /\ doubtful' = doubtful /\ message' = [message EXCEPT ![m].liked = l]
      BY <1>7, <2>1 DEF WriteReactions, ChatTypeOK, Works
    <2>3. /\ message'[m].liked = l /\ message'[m].by = message[m].by
          /\ message'[m].deleted = message[m].deleted
          /\ \A k \in Messages \ {m} : message'[k] = message[k]
      BY <1>0, <2>2 DEF ChatTypeOK, MessageRows
    <2>4. ev.kind = "reaction" /\ ev.of = m /\ ev.liked = l
      OBVIOUS
    <2> HIDE DEF ev, c
    <2>5. ASSUME m = n, Calm(n) PROVE After(Shape(message'[m]), ev, m) = Shape(message'[m])
      <3>1. ~message[m].deleted
        BY <2>1, <2>2, <2>5 DEF Calm, Undisturbed
      <3>2. PICK v : v = Shape(message'[m])
        OBVIOUS
      <3>3. v = Seen(message[m].by, FALSE, l)
        BY <1>0, <2>3, <3>1, <3>2 DEF Shape, MessageRows
      <3>4. v \in Views /\ v.by = message[m].by /\ v.deleted = FALSE
        BY <1>0, <3>3 DEF Seen, Views, MessageRows
      <3>5. [v EXCEPT !.liked = l] = v
        BY <3>3, <3>4, LikesReplaced
      <3>6. After(v, ev, m) = v
        BY <2>4, <3>5 DEF After
      <3> QED BY <3>2, <3>6
    <2> QED BY <1>5, <2>2, <2>3, <2>5
  \* Calls may end, and devices be in doubt of more.
  <1>8. ASSUME message' = message, doubtful \subseteq doubtful',
               \A o \in Devices : call'[o] = call[o] \/ call'[o] = Still
        PROVE  WorkIsCalm(n)'
    <2>1. \A o \in Devices : Works(o, n)' => Works(o, n) /\ call'[o] = call[o]
      BY <1>8 DEF Works, Still
    <2>2. Calm(n) => Undisturbed(n)'
      BY <1>8, <2>1 DEF Calm, Undisturbed, Works, Still
    <2>3. Calm(n) => Calm(n)'
      BY <1>8, <2>1, <2>2 DEF Calm, Works, Still
    <2> QED BY <1>a, <1>8, <2>1, <2>3 DEF WorkIsCalm
  <1>9. ASSUME NEW e \in Devices, ReadHistory(e) PROVE WorkIsCalm(n)'
    <2>1. message' = message /\ call' = call
      BY <1>9 DEF ReadHistory
    <2>2. ASSUME Murky(n), NEW o \in Devices, Works(o, n) PROVE Murky(n)'
      <3>1. PICK p \in doubtful : p[2] = n
        BY <2>2 DEF Murky
      <3>2. <<e, p[2]>> \in doubtful'
        BY <1>9, <2>2, <3>1 DEF ReadHistory
      <3>3. <<e, p[2]>>[2] = n
        BY <3>1
      <3> QED BY <3>2, <3>3 DEF Murky
    <2>3. \A o \in Devices : Works(o, n)' <=> Works(o, n)
      BY <2>1 DEF Works
    <2>4. Calm(n) => Calm(n)'
      BY <2>1, <2>3 DEF Calm, Undisturbed
    <2> QED BY <2>2, <2>3, <2>4 DEF WorkIsCalm
  <1>10. ASSUME NEW e \in Devices, TellRoom(e) PROVE WorkIsCalm(n)'
    BY <1>8, <1>10 DEF TellRoom, ChatTypeOK
  <1>11. CASE ServerRestarts
    BY <1>8, <1>11 DEF ServerRestarts
  <1>12. ASSUME UNCHANGED <<message, call, doubtful>> PROVE WorkIsCalm(n)'
    BY <1>8, <1>12
  <1> QED BY <1>2, <1>3, <1>4, <1>6, <1>7, <1>9, <1>10, <1>11, <1>12
          DEF ChatNext, Enter, AnswerJoin, Receive, Drop, Later, chatVars

\* The invariant: shapes, calls, work under way, and for each device and message a course
\* of views along the wire that ends in what the table has or is about to tell.
RoomInv ==
    /\ ChatTypeOK
    /\ RoomSound
    /\ \A m \in Messages : WorkIsCalm(m)
    /\ \A d \in Devices, m \in Messages : PairSound(d, m)

\* A step that touches neither the table, the calls nor this device keeps what it will show.
LEMMA PairStays ==
    ASSUME NEW d \in Devices, NEW m \in Messages, PairSound(d, m),
           wire'[d] = wire[d], screen'[d] = screen[d], socket'[d] = socket[d],
           message' = message, call' = call,
           <<d, m>> \in doubtful \cup leftOut => <<d, m>> \in (doubtful \cup leftOut)'
    PROVE  PairSound(d, m)'
  <1>1. PICK f : Follows(f, d, m) /\ (Clear(d, m) => Undisturbed(m) /\ Agrees(m, Will(f, d, m)))
    BY DEF PairSound
  <1>2. Follows(f, d, m)'
    BY <1>1, FollowsStays
  <1>3. ASSUME Clear(d, m)' PROVE Undisturbed(m)' /\ Agrees(m, Will(f, d, m))'
    <2>1. Clear(d, m)
      BY <1>3 DEF Clear
    <2>2. Undisturbed(m)'
      BY <1>1, <2>1 DEF Undisturbed, Works
    <2>3. Will(f, d, m)' = Will(f, d, m)
      BY DEF Will
    <2>4. Agrees(m, Will(f, d, m))'
      BY <1>1, <2>1, <2>3 DEF Agrees
    <2> QED BY <2>2, <2>4
  <1> QED BY <1>2, <1>3 DEF PairSound

\* A device without the history owes nothing but to follow its wire.
LEMMA PairWaits ==
    ASSUME NEW d \in Devices, NEW m \in Messages, NEW g, Follows(g, d, m)',
           socket'[d].at \in {"out", "entered"}
    PROVE  PairSound(d, m)'
  BY DEF PairSound, Clear

\* The room is told of an event.
LEMMA PairTold ==
    ASSUME ChatTypeOK, RoomSound, ChatTypeOK',
           NEW e \in Devices, TellRoom(e), NEW d \in Devices, NEW m \in Messages, PairSound(d, m)
    PROVE  PairSound(d, m)'
  <1>1. PICK f : Follows(f, d, m) /\ (Clear(d, m) => Undisturbed(m) /\ Agrees(m, Will(f, d, m)))
    BY DEF PairSound
  <1>2. PICK v \in Views : v = Will(f, d, m)
    BY <1>1, WillType
  <1>3. PICK ev \in Tidings : ev = call[e].event
    BY DEF TellRoom, ChatTypeOK, RoomCalls
  <1>4. /\ call[e].at = "tell" /\ message' = message /\ screen' = screen /\ socket' = socket
        /\ \A o \in Devices : call'[o] = IF o = e THEN Still ELSE call[o]
        /\ doubtful \subseteq doubtful' /\ leftOut' = leftOut
    BY DEF TellRoom, ChatTypeOK, historyVars
  <1>5. ev.of = call[e].of
    BY <1>3, <1>4 DEF RoomSound, CallFits
  <1>6. CASE ~InRoom(d)
    <2>1. wire'[d] = wire[d]
      BY <1>6 DEF TellRoom
    <2>2. Follows(f, d, m)'
      BY <1>1, <1>4, <2>1, FollowsStays
    <2> QED BY <2>2, <1>4, <1>6, PairWaits DEF InRoom
  <1>7. CASE InRoom(d)
    <2>1. wire'[d] = Append(wire[d], ev) /\ ev \in RoomEvents /\ screen'[d] = screen[d]
      BY <1>3, <1>4, <1>7 DEF TellRoom, RoomEvents
    <2>2. PICK g : Follows(g, d, m)' /\ g[Len(wire'[d])] = After(f[Len(wire[d])], ev, m)
      BY <1>1, <2>1, FollowsAppend
    <2>3. ASSUME Clear(d, m)' PROVE Undisturbed(m)' /\ Agrees(m, Will(g, d, m))'
      <3>1. Clear(d, m) /\ Undisturbed(m) /\ Agrees(m, v)
        BY <1>1, <1>2, <1>4, <2>3 DEF Clear
      <3>2. Undisturbed(m)'
        BY <1>4, <3>1 DEF Undisturbed, Works, Still
      <3>3. CASE call[e].of # m
        <4>1. After(v, ev, m) = v
          BY <1>3, <1>5, <3>3 DEF After, Tidings
        <4>2. Will(g, d, m)' = v
          BY <1>2, <1>4, <2>2, <4>1 DEF Will
        <4>3. \A o \in Devices : /\ call'[o].at = "tell" /\ call'[o].of = m
                                       <=> call[o].at = "tell" /\ call[o].of = m
                                 /\ call[o].at = "tell" /\ call[o].of = m => call'[o] = call[o]
          BY <1>4, <3>3 DEF Still
        <4>4. Agrees(m, v)'
          BY <1>4, <3>1, <4>3 DEF Agrees
        <4> QED BY <3>2, <4>2, <4>4 DEF Agrees
      <3>4. CASE call[e].of = m
        <4>1. After(v, ev, m) = Shape(message[m])
          BY <1>3, <1>4, <3>1, <3>4 DEF Agrees
        <4>2. \A o \in Devices : call[o].at = "tell" /\ call[o].of = m => o = e
          BY <1>4, <3>1, <3>4 DEF Undisturbed, Works
        <4>3. \A o \in Devices : ~(call'[o].at = "tell" /\ call'[o].of = m)
          BY <1>4, <4>2 DEF Still
        <4>4. Will(g, d, m)' = Shape(message[m])
          <5>1. CASE socket[d].at = "read"
            <6>1. socket[d].rows[m] = message[m]
              <7>1. socket[d].rows[m] # message[m] => <<d, m>> \in doubtful'
                BY <3>4, <5>1 DEF TellRoom
              <7> QED BY <7>1, <2>3 DEF Clear
            <6> QED BY <1>4, <5>1, <6>1 DEF Will
          <5>2. CASE socket[d].at # "read"
            BY <1>2, <1>4, <2>2, <4>1, <5>2 DEF Will
          <5> QED BY <5>1, <5>2
        <4> QED BY <1>4, <3>2, <4>3, <4>4 DEF Agrees
      <3> QED BY <3>3, <3>4
    <2> QED BY <2>2, <2>3 DEF PairSound
  <1> QED BY <1>6, <1>7

\* Every step keeps what a device will show of a message as near to the table as it was.
LEMMA PairSoundNext ==
    ASSUME ChatTypeOK, RoomSound, ChatTypeOK', [ChatNext]_chatVars,
           NEW d \in Devices, NEW m \in Messages, WorkIsCalm(m), PairSound(d, m)
    PROVE  PairSound(d, m)'
  <1>0. PICK f : Follows(f, d, m) /\ (Clear(d, m) => Undisturbed(m) /\ Agrees(m, Will(f, d, m)))
    BY DEF PairSound
  <1>1. ASSUME NEW e \in Devices,
               \/ \E n \in Messages : CheckSend(e, n) \/ DeleteMessage(e, n) \/ ReadReactions(e, n)
               \/ SaveMessage(e) \/ WriteReactions(e)
        PROVE  PairSound(d, m)'
    <2>1. wire' = wire /\ screen' = screen /\ socket' = socket /\ doubtful \subseteq doubtful'
          /\ leftOut' = leftOut
      BY <1>1 DEF CheckSend, DeleteMessage, ReadReactions, SaveMessage, WriteReactions, TakeUp,
                  historyVars
    <2>2. Follows(f, d, m)'
      BY <1>0, <2>1, FollowsStays
    <2>3. ASSUME Clear(d, m)' PROVE Undisturbed(m)' /\ Agrees(m, Will(f, d, m))'
      <3>1. Clear(d, m) /\ InRoom(d) /\ <<d, m>> \notin doubtful'
        BY <2>1, <2>3 DEF Clear, InRoom
      <3>2. PICK v \in Views : v = Will(f, d, m)
        BY <1>0, WillType
      <3>3. Undisturbed(m) /\ Agrees(m, v)
        BY <1>0, <3>1, <3>2
      <3>4. Undisturbed(m)' /\ Agrees(m, v)'
        BY <1>1, <3>1, <3>3, HandlersKeep
      <3>5. Will(f, d, m)' = v
        BY <2>1, <3>2 DEF Will
      <3> QED BY <3>4, <3>5 DEF Agrees
    <2> QED BY <2>2, <2>3 DEF PairSound
  <1>2. ASSUME NEW e \in Devices, Enter(e) PROVE PairSound(d, m)'
    <2>1. CASE e = d
      <3>1. Follows(f, d, m)'
        BY <1>0, <1>2, FollowsStays DEF Enter
      <3>2. socket'[d].at = "entered"
        BY <1>2, <2>1 DEF Enter, ChatTypeOK, Joining
      <3> QED BY <3>1, <3>2, PairWaits
    <2>2. CASE e # d
      BY <1>2, <2>2, PairStays DEF Enter, ChatTypeOK, historyVars
    <2> QED BY <2>1, <2>2
  <1>3. ASSUME NEW e \in Devices, ReadHistory(e) PROVE PairSound(d, m)'
    <2>1. CASE e = d
      <3>1. Follows(f, d, m)'
        BY <1>0, <1>3, FollowsStays DEF ReadHistory
      <3>2. ASSUME Clear(d, m)' PROVE Undisturbed(m)' /\ Agrees(m, Will(f, d, m))'
        <4>1. (\E o \in Devices : Works(o, m)) => Calm(m)
          <5>1. ASSUME Murky(m), NEW o \in Devices, Works(o, m) PROVE FALSE
            <6>1. PICK p \in doubtful : p[2] = m
              BY <5>1 DEF Murky
            <6>2. <<d, p[2]>> \in doubtful'
              BY <1>3, <2>1, <5>1, <6>1 DEF ReadHistory
            <6> QED BY <3>2, <6>1, <6>2 DEF Clear
          <5> QED BY <5>1 DEF WorkIsCalm
        <4>2. call' = call /\ message' = message
          BY <1>3 DEF ReadHistory
        <4>3. Undisturbed(m)'
          BY <4>1, <4>2 DEF Calm, Undisturbed, Works
        <4>4. Agrees(m, Shape(message[m]))'
          BY <4>1, <4>2 DEF Agrees, Calm, Works
        <4>5. socket'[d] = [at |-> "read", rows |-> HistoryRows]
          BY <1>3, <2>1 DEF ReadHistory, ChatTypeOK
        <4>6. HistoryRows[m] = message[m]
          <5>1. HistoryRows[m] # message[m] => <<d, m>> \in leftOut'
            BY <1>3, <2>1 DEF ReadHistory
          <5> QED BY <3>2, <5>1 DEF Clear
        <4>7. Will(f, d, m)' = Shape(message[m])
          BY <4>5, <4>6 DEF Will
        <4> QED BY <4>2, <4>3, <4>4, <4>7 DEF Agrees
      <3> QED BY <3>1, <3>2 DEF PairSound
    <2>2. CASE e # d
      <3>1. <<d, m>> \in doubtful \cup leftOut => <<d, m>> \in (doubtful \cup leftOut)'
        BY <1>3, <2>2 DEF ReadHistory
      <3> QED BY <1>3, <2>2, <3>1, PairStays DEF ReadHistory, ChatTypeOK
    <2> QED BY <2>1, <2>2
  <1>4. ASSUME NEW e \in Devices, AnswerJoin(e) PROVE PairSound(d, m)'
    <2>1. CASE e = d
      <3>1. PICK ev : ev = [kind |-> "history", rows |-> socket[d].rows]
        OBVIOUS
      <3>2. /\ ev \in RoomEvents /\ wire'[d] = Append(wire[d], ev) /\ screen'[d] = screen[d]
            /\ socket[d].at = "read" /\ message' = message /\ call' = call /\ doubtful' = doubtful
            /\ leftOut' = leftOut
        BY <1>4, <2>1, <3>1 DEF AnswerJoin, ChatTypeOK, RoomEvents, Joining, historyVars
      <3>3. socket'[d].at = "in"
        BY <1>4, <2>1 DEF AnswerJoin, ChatTypeOK, Away
      <3>4. PICK g : Follows(g, d, m)' /\ g[Len(wire'[d])] = After(f[Len(wire[d])], ev, m)
        BY <1>0, <3>2, FollowsAppend
      <3>5. Will(g, d, m)' = Will(f, d, m)
        <4>1. After(f[Len(wire[d])], ev, m) = Shape(socket[d].rows[m])
          BY <3>1 DEF After
        <4> QED BY <3>2, <3>3, <3>4, <4>1 DEF Will
      <3>6. ASSUME Clear(d, m)' PROVE Undisturbed(m)' /\ Agrees(m, Will(g, d, m))'
        <4>1. Undisturbed(m) /\ Agrees(m, Will(f, d, m))
          BY <1>0, <3>2, <3>6 DEF Clear
        <4>2. Undisturbed(m)'
          BY <3>2, <4>1 DEF Undisturbed, Works
        <4> QED BY <3>2, <3>5, <4>1, <4>2 DEF Agrees
      <3> QED BY <3>4, <3>6 DEF PairSound
    <2>2. CASE e # d
      BY <1>4, <2>2, PairStays DEF AnswerJoin, ChatTypeOK, historyVars
    <2> QED BY <2>1, <2>2
  <1>5. ASSUME NEW e \in Devices, Receive(e) PROVE PairSound(d, m)'
    <2>1. CASE e = d
      <3>1. PICK g : Follows(g, d, m)' /\ g[Len(wire'[d])] = f[Len(wire[d])]
        BY <1>0, <1>5, <2>1, FollowsReceive
      <3>2. message' = message /\ call' = call /\ doubtful' = doubtful /\ socket' = socket
            /\ leftOut' = leftOut
        BY <1>5 DEF Receive, historyVars
      <3>3. Will(g, d, m)' = Will(f, d, m)
        BY <3>1, <3>2 DEF Will
      <3>4. ASSUME Clear(d, m)' PROVE Undisturbed(m)' /\ Agrees(m, Will(g, d, m))'
        <4>1. Undisturbed(m) /\ Agrees(m, Will(f, d, m))
          BY <1>0, <3>2, <3>4 DEF Clear
        <4>2. Undisturbed(m)'
          BY <3>2, <4>1 DEF Undisturbed, Works
        <4> QED BY <3>2, <3>3, <4>1, <4>2 DEF Agrees
      <3> QED BY <3>1, <3>4 DEF PairSound
    <2>2. CASE e # d
      BY <1>5, <2>2, PairStays DEF Receive, ChatTypeOK, historyVars
    <2> QED BY <2>1, <2>2
  <1>6. ASSUME NEW e \in Devices, Drop(e) PROVE PairSound(d, m)'
    <2>1. CASE e = d
      <3>1. wire'[d] = <<>> /\ socket'[d].at = "out"
        BY <1>6, <2>1 DEF Drop, ChatTypeOK, Away
      <3> QED BY <3>1, FollowsNothing, PairWaits
    <2>2. CASE e # d
      BY <1>6, <2>2, PairStays DEF Drop, ChatTypeOK, historyVars
    <2> QED BY <2>1, <2>2
  <1>7. ASSUME NEW e \in Devices, TellRoom(e) PROVE PairSound(d, m)'
    BY <1>7, PairTold
  <1>8. CASE ServerRestarts
    <2>1. wire'[d] = <<>> /\ socket'[d].at = "out"
      BY <1>8 DEF ServerRestarts, Away
    <2> QED BY <2>1, FollowsNothing, PairWaits
  <1>9. CASE Later
    BY <1>9, PairStays DEF Later, historyVars
  <1>10. CASE UNCHANGED chatVars
    BY <1>10, PairStays DEF chatVars, historyVars
  <1> QED BY <1>1, <1>2, <1>3, <1>4, <1>5, <1>6, <1>7, <1>8, <1>9, <1>10 DEF ChatNext

\* Whatever overlaps, a device that has received everything shows every message as the
\* table has it, but those its history had no place for or the code leaves to chance,
\* and a student's free messages stay
\* within the limit, but for those saved on a count that had changed (ChatPanel.tsx,
\* the gateway's chat:join, chat:send, chat:delete and chat:react).
THEOREM RoomAlwaysShown ==
    ChatInit /\ [][ChatNext]_chatVars => []ChatConsistent
  <1>1. ChatInit => RoomInv
    <2> SUFFICES ASSUME ChatInit PROVE RoomInv
      OBVIOUS
    <2>1. /\ message = [m \in Messages |-> NoMessage] /\ wire = [d \in Devices |-> <<>>]
          /\ screen = [d \in Devices |-> [m \in Messages |-> Nothing]]
          /\ socket = [d \in Devices |-> Away] /\ call = [d \in Devices |-> Still]
          /\ phase = "open" /\ joins = 0 /\ calls = 0 /\ staleSends = 0
      BY DEF ChatInit
    <2>2. Away \in Joining /\ Still \in RoomCalls /\ Away.at = "out" /\ Still.at = "still"
      BY EmptyRow DEF Away, Joining, Still, RoomCalls
    <2>3. Sent = {} /\ IsFiniteSet(Sent)
      BY <2>1, FS_EmptySet DEF Sent, NoMessage
    <2>4. <<>> \in Seq(RoomEvents)
      OBVIOUS
    <2>5. ChatTypeOK
      BY <2>1, <2>2, <2>3, <2>4, EmptyRow DEF ChatTypeOK
    <2>6. FreeWithinLimit
      <3>1. FreeOnes = {}
        BY <2>1 DEF FreeOnes, Live, NoMessage
      <3>2. CountPostEnd = 0
        BY <2>5, <3>1, FreeCount, FS_EmptySet
      <3> QED BY <2>1, <3>2, ChatAssumption DEF FreeWithinLimit
    <2>7. RoomSound
      BY <2>1, <2>2, <2>6 DEF RoomSound, CallFits
    <2>8. ASSUME NEW d \in Devices, NEW m \in Messages PROVE PairSound(d, m)
      <3> DEFINE g == [i \in 0 .. 0 |-> Nothing]
      <3>1. wire[d] = <<>> /\ screen[d][m] = Nothing /\ Nothing \in Views /\ ~Clear(d, m)
        BY <2>1, <2>2, EmptyRow DEF Clear
      <3>2. Len(wire[d]) = 0 /\ 0 \in 0 .. 0 /\ \A i \in 1 .. 0 : FALSE
        BY <3>1
      <3>3. g \in [0 .. 0 -> Views] /\ g[0] = Nothing
        BY <3>1, <3>2
      <3> HIDE DEF g
      <3>4. Follows(g, d, m)
        BY <3>1, <3>2, <3>3 DEF Follows
      <3> QED BY <3>1, <3>4 DEF PairSound
    <2>9. \A m \in Messages : WorkIsCalm(m)
      BY <2>1, <2>2 DEF WorkIsCalm, Works
    <2> QED BY <2>5, <2>7, <2>8, <2>9 DEF RoomInv
  <1>2. RoomInv /\ [ChatNext]_chatVars => RoomInv'
    <2> SUFFICES ASSUME RoomInv, [ChatNext]_chatVars PROVE RoomInv'
      OBVIOUS
    <2>1. ChatTypeOK' /\ RoomSound'
      BY ChatType, RoomSoundNext DEF RoomInv
    <2>2. ASSUME NEW d \in Devices, NEW m \in Messages PROVE PairSound(d, m)'
      BY <2>1, PairSoundNext DEF RoomInv
    <2>3. \A m \in Messages : WorkIsCalm(m)'
      BY WorkIsCalmNext DEF RoomInv
    <2> QED BY <2>1, <2>2, <2>3 DEF RoomInv
  <1>3. RoomInv => ChatConsistent
    <2> SUFFICES ASSUME RoomInv PROVE ChatConsistent
      OBVIOUS
    <2>1. ASSUME NEW d \in Devices, NEW m \in Messages,
                 socket[d].at = "in", wire[d] = <<>>, <<d, m>> \notin doubtful \cup leftOut,
                 \A e \in Devices : ~Works(e, m)
          PROVE  screen[d][m] = Shape(message[m])
      <3>1. PICK f : Follows(f, d, m) /\ (Clear(d, m) => Undisturbed(m) /\ Agrees(m, Will(f, d, m)))
        BY DEF RoomInv, PairSound
      <3>2. Agrees(m, Will(f, d, m))
        BY <2>1, <3>1 DEF Clear
      <3>3. Will(f, d, m) = screen[d][m]
        <4>1. Len(wire[d]) = 0
          BY <2>1
        <4> QED BY <2>1, <3>1, <4>1 DEF Will, Follows
      <3> QED BY <2>1, <3>2, <3>3 DEF Agrees, Works
    <2> QED BY <2>1 DEF ChatConsistent, ScreensShowTheRoom, RoomInv, RoomSound
  <1> QED BY <1>1, <1>2, <1>3, PTL

(****************************************************************************)
(* Calendars.                                                               *)
(****************************************************************************)
\* Weekly plans, leaves and what an edit holds of them.
PlansOfWeek == WeekPlans \cup {[d \in {} |-> {}]}
Schedules == [template : Templates, plan : PlansOfWeek, leave : [Dates -> {"none", "half", "day"}]]
EditRecords == {AtEase} \cup [at : {"edits"}, read : Schedules]

\* Slot numbers of one day.
Fits(from, to) == from \in Nat /\ to \in Nat /\ from < to /\ to * SlotMin <= DayLength

\* The session that takes them.
SessionAt(d, from, to) ==
    [start |-> Midnight(d) + from * SlotMin, end |-> Midnight(d) + to * SlotMin]

\* Two sessions have the rest between them or meet at midnight.
Apart(a, b) ==
    \/ a.end + BufferMin <= b.start \/ b.end + BufferMin <= a.start
    \/ \E d \in Dates : {a.end, b.start} = {Midnight(d)} \/ {b.end, a.start} = {Midnight(d)}

\* Every session takes whole slots of one day.
CalendarInv ==
    /\ schedule \in Schedules /\ meant \in Schedules
    /\ edit \in [Edits -> EditRecords]
    /\ \A b \in sessions : \E d \in Dates, f, t \in Nat : Fits(f, t) /\ b = SessionAt(d, f, t)
    /\ RestBetween
    /\ EditsKept

\* Slots, rest and days in minutes; a day is a whole number of slots.
LEMMA Minutes ==
    /\ SlotMin \in Nat /\ SlotMin > 0 /\ BufferMin \in Nat /\ BufferMin <= SlotMin
    /\ DayLength \in Nat /\ \E n \in Nat : DayLength = n * SlotMin
    /\ \A d \in Dates : d \in Nat /\ d >= 1 /\ Midnight(d) \in Nat
  <1>1. /\ SlotMin \in Nat /\ SlotMin > 0 /\ BufferMin \in Nat /\ BufferMin <= SlotMin
        /\ DayLength \in Nat /\ DayLength % SlotMin = 0 /\ MaxDate \in Nat
    BY CalendarAssumption
  <1>2. PICK n : n = DayLength \div SlotMin
    OBVIOUS
  <1>3. n \in Nat /\ DayLength = n * SlotMin
    BY <1>1, <1>2
  <1>4. ASSUME NEW d \in Dates PROVE d \in Nat /\ d >= 1 /\ Midnight(d) \in Nat
    BY <1>1 DEF Dates, Midnight
  <1> QED BY <1>1, <1>3, <1>4

\* A minute of the day is not cut.
LEMMA NotCut ==
    ASSUME NEW x \in Nat, x <= DayLength
    PROVE  Max({0, Min({DayLength, x})}) = x
  <1>1. DayLength \in Nat
    BY Minutes
  <1>2. \E y \in {DayLength, x} : \A z \in {DayLength, x} : y =< z
    BY <1>1
  <1>3. Min({DayLength, x}) \in {DayLength, x} /\ \A z \in {DayLength, x} : Min({DayLength, x}) =< z
    BY <1>2 DEF Min
  <1>4. Min({DayLength, x}) = x
    BY <1>1, <1>3
  <1>5. \E y \in {0, x} : \A z \in {0, x} : y >= z
    OBVIOUS
  <1>6. Max({0, x}) \in {0, x} /\ \A z \in {0, x} : Max({0, x}) >= z
    BY <1>5 DEF Max
  <1>7. Max({0, x}) = x
    BY <1>6
  <1> QED BY <1>4, <1>7

\* A session of the day occupies its own minutes.
LEMMA Occupies ==
    ASSUME NEW d \in Dates, NEW f, NEW t, Fits(f, t), SessionAt(d, f, t) \in sessions
    PROVE  [start |-> f * SlotMin, end |-> t * SlotMin] \in Occupancy(d)
  <1>1. /\ SlotMin \in Nat /\ SlotMin > 0 /\ DayLength \in Nat /\ Midnight(d) \in Nat
        /\ f \in Nat /\ t \in Nat /\ f < t /\ t * SlotMin <= DayLength
    BY Minutes DEF Fits
  <1>2. PICK M \in Nat, p \in Nat, q \in Nat : M = Midnight(d) /\ p = f * SlotMin /\ q = t * SlotMin
    BY <1>1
  <1>3. p < q /\ q <= DayLength
    BY <1>1, <1>2
  <1>4. PICK b \in sessions : b = SessionAt(d, f, t)
    OBVIOUS
  <1>5. b.start = M + p /\ b.end = M + q
    BY <1>2, <1>4 DEF SessionAt
  <1>6. b.start < Midnight(d) + DayLength /\ b.end > Midnight(d)
    BY <1>1, <1>2, <1>3, <1>5
  <1>7. b.start - Midnight(d) = p /\ b.end - Midnight(d) = q
    BY <1>2, <1>5
  <1>8. InDay(d, b.start) = p /\ InDay(d, b.end) = q
    BY <1>1, <1>3, <1>7, NotCut DEF InDay
  <1> QED BY <1>2, <1>4, <1>6, <1>8 DEF Occupancy

\* A range accepted slot by slot keeps the rest from what occupies the day: a slot of the
\* range would hold the first minute that they, or the rest, have in common.
LEMMA AcceptedIsApart ==
    ASSUME NEW d \in Dates, NEW a \in Int, NEW b \in Int, RangeBookable(d, a, b),
           NEW p \in Int, NEW q \in Int, p < q, [start |-> p, end |-> q] \in Occupancy(d)
    PROVE  b + BufferMin <= p \/ q + BufferMin <= a
  <1>1. SlotMin \in Nat /\ SlotMin > 0 /\ BufferMin \in Nat
    BY Minutes
  <1> SUFFICES ASSUME p - BufferMin < b, a < q + BufferMin PROVE FALSE
    BY <1>1
  <1>2. a < b /\ \A s \in SlotStarts(a, b) : Avail(d, s)
    BY DEF RangeBookable
  <1>3. PICK x \in Int : x = IF p - BufferMin <= a THEN a ELSE p - BufferMin
    BY <1>1
  <1>4. a <= x /\ x < b /\ p - BufferMin <= x /\ x < q + BufferMin
    BY <1>1, <1>2, <1>3
  <1>5. PICK s \in Int : s = x - ((x - a) % SlotMin)
    BY <1>1
  <1>6. s <= x /\ x < s + SlotMin /\ a <= s /\ (s - a) % SlotMin = 0
    BY <1>1, <1>4, <1>5
  <1>7. s \in SlotStarts(a, b)
    BY <1>4, <1>6 DEF SlotStarts
  <1>8. PICK o : o = [start |-> p, end |-> q]
    OBVIOUS
  <1>9. \A z \in Occupancy(d) \cup BufferZones(Occupancy(d)) : ~Overlaps(z, Slot(s))
    BY <1>2, <1>7 DEF Avail
  <1>10. ~Overlaps(o, Slot(s))
    BY <1>8, <1>9
  <1>11. /\ [start |-> p - BufferMin, end |-> p] \in BufferZones(Occupancy(d))
         /\ [start |-> q, end |-> q + BufferMin] \in BufferZones(Occupancy(d))
    BY DEF BufferZones
  <1>12. /\ ~Overlaps([start |-> p - BufferMin, end |-> p], Slot(s))
         /\ ~Overlaps([start |-> q, end |-> q + BufferMin], Slot(s))
    BY <1>9, <1>11
  <1> QED BY <1>1, <1>4, <1>6, <1>8, <1>10, <1>12 DEF Overlaps, Slot

\* Sessions of two days have it too, or meet at midnight.
LEMMA DaysApart ==
    ASSUME NEW e \in Dates, NEW d \in Dates, e < d, NEW g, NEW h, Fits(g, h), NEW f, NEW t, Fits(f, t)
    PROVE  \/ SessionAt(e, g, h).end + BufferMin <= SessionAt(d, f, t).start
           \/ {SessionAt(e, g, h).end, SessionAt(d, f, t).start} = {Midnight(d)}
  <1>1. /\ SlotMin \in Nat /\ SlotMin > 0 /\ DayLength \in Nat /\ BufferMin \in Nat /\ BufferMin <= SlotMin
        /\ g \in Nat /\ h \in Nat /\ g < h /\ h * SlotMin <= DayLength
        /\ f \in Nat /\ d \in Nat /\ e \in Nat /\ e >= 1
    BY Minutes DEF Fits
  <1>2. PICK n \in Nat : DayLength = n * SlotMin
    BY Minutes
  <1>3. PICK M \in Nat, L \in Nat : M = Midnight(e) /\ L = Midnight(d)
    BY Minutes
  <1>4. PICK q \in Nat, p \in Nat : q = h * SlotMin /\ p = f * SlotMin
    BY <1>1
  <1>5. /\ d = e + 1 => L = M + DayLength
        /\ d # e + 1 => L >= M + DayLength + DayLength
    BY <1>1, <1>3 DEF Midnight
  <1>6. SlotMin <= DayLength /\ q <= DayLength /\ (q < DayLength => q + SlotMin <= DayLength)
    BY <1>1, <1>2, <1>4
  <1>7. p = 0 \/ p >= SlotMin
    BY <1>1, <1>4
  <1>8. SessionAt(e, g, h).end = M + q /\ SessionAt(d, f, t).start = L + p
    BY <1>3, <1>4 DEF SessionAt
  <1>9. M + q + BufferMin <= L + p \/ (M + q = L /\ L + p = L)
    BY <1>1, <1>3, <1>4, <1>5, <1>6, <1>7
  <1> QED BY <1>3, <1>8, <1>9

\* A session that was checked is apart from each one in place, of whatever day.
LEMMA PlacedIsApart ==
    ASSUME NEW d \in Dates, NEW f, NEW t, Fits(f, t), RangeBookable(d, f * SlotMin, t * SlotMin),
           NEW e \in Dates, NEW g, NEW h, Fits(g, h), SessionAt(e, g, h) \in sessions
    PROVE  Apart(SessionAt(e, g, h), SessionAt(d, f, t))
  <1>1. d \in Nat /\ e \in Nat
    BY Minutes
  <1>2. CASE e < d
    BY <1>2, DaysApart DEF Apart
  <1>3. CASE d < e
    BY <1>3, DaysApart DEF Apart
  <1>4. CASE e = d
    <2>1. /\ SlotMin \in Nat /\ SlotMin > 0 /\ BufferMin \in Nat
          /\ f \in Nat /\ t \in Nat /\ g \in Nat /\ h \in Nat /\ g < h
      BY Minutes DEF Fits
    <2>a. /\ f * SlotMin \in Nat /\ t * SlotMin \in Nat /\ g * SlotMin \in Nat
          /\ h * SlotMin \in Nat /\ Midnight(d) \in Nat
      BY <2>1, Minutes
    <2>2. PICK a \in Nat, b \in Nat, p \in Nat, q \in Nat, M \in Nat :
             /\ a = f * SlotMin /\ b = t * SlotMin /\ p = g * SlotMin /\ q = h * SlotMin
             /\ M = Midnight(d)
      BY <2>a
    <2>3. p < q
      BY <2>1, <2>2
    <2>4. [start |-> p, end |-> q] \in Occupancy(d)
      BY <1>4, <2>2, Occupies
    <2>5. b + BufferMin <= p \/ q + BufferMin <= a
      BY <2>2, <2>3, <2>4, AcceptedIsApart
    <2>6. /\ SessionAt(e, g, h).start = M + p /\ SessionAt(e, g, h).end = M + q
          /\ SessionAt(d, f, t).start = M + a /\ SessionAt(d, f, t).end = M + b
      BY <1>4, <2>2 DEF SessionAt
    <2>7. M + b + BufferMin <= M + p \/ M + q + BufferMin <= M + a
      BY <2>1, <2>2, <2>5
    <2> QED BY <2>6, <2>7 DEF Apart
  <1> QED BY <1>1, <1>2, <1>3, <1>4

\* What is worked on a day are intervals of it.
LEMMA WorkIsIntervals ==
    ASSUME schedule \in Schedules, NEW d \in Dates
    PROVE  Work(d) \subseteq Intervals
  <1>1. \A p \in PlansOfWeek : \A k \in DOMAIN p : p[k] \subseteq Intervals
    BY CalendarAssumption DEF PlansOfWeek
  <1>2. schedule.template[d] \subseteq Intervals
    BY CalendarAssumption DEF Schedules
  <1>3. d \in DOMAIN schedule.plan => schedule.plan[d] \subseteq Intervals
    BY <1>1 DEF Schedules
  <1>4. schedule.leave[d] \in {"none", "half", "day"}
    BY DEF Schedules
  <1> DEFINE of == IF d \in DOMAIN schedule.plan THEN schedule.plan[d] ELSE schedule.template[d]
  <1>5. of \subseteq Intervals
    BY <1>2, <1>3
  <1>6. Work(d) = CASE schedule.leave[d] = "none" -> of
                    [] schedule.leave[d] = "half" -> {w \in of : w.end <= HalfDay}
                    [] schedule.leave[d] = "day" -> {}
    BY DEF Work
  <1> HIDE DEF of
  <1> QED BY <1>4, <1>5, <1>6

\* A set of numbers has a least one.
LEMMA LeastNumber ==
    ASSUME NEW T, T \subseteq Nat, T # {}
    PROVE  Min(T) \in T
  <1> DEFINE R == OpToRel(<, Nat)
  <1>1. IsWellFoundedOn(R, Nat)
    BY NatLessThanWellFounded
  <1>2. \A x, y \in Nat : y < x => <<y, x>> \in R
    BY DEF OpToRel
  <1> HIDE DEF R
  <1>3. PICK x \in T : \A y \in T : ~(<<y, x>> \in R)
    BY <1>1, WFMin
  <1>4. \A y \in T : x =< y
    <2> TAKE y \in T
    <2>1. x \in Nat /\ y \in Nat /\ ~(y < x)
      BY <1>2, <1>3
    <2> QED BY <2>1
  <1> QED BY <1>4 DEF Min

\* What the student is shown as free can be booked: the shown slots begin on the grid
\* when the work does, and the check of one slot looks at that slot.
LEMMA ShownCanBeBooked ==
    ASSUME schedule \in Schedules
    PROVE  ShownIsBookable
  <1> SUFFICES ASSUME NEW d \in Dates, \A w \in Work(d) : w.start % SlotMin = 0,
                      NEW i \in DaySlots(d)
               PROVE  RangeBookable(d, i * SlotMin, (i + 1) * SlotMin)
    BY DEF ShownIsBookable
  <1>1. SlotMin \in Nat /\ SlotMin > 0 /\ DayLength \in Nat
    BY Minutes
  <1>2. Work(d) \subseteq Intervals /\ Work(d) # {}
    BY WorkIsIntervals DEF DaySlots
  <1>3. PICK starts : starts = {w.start : w \in Work(d)}
    OBVIOUS
  <1>4. starts \subseteq Nat /\ starts # {} /\ \A x \in starts : x % SlotMin = 0
    BY <1>1, <1>2, <1>3 DEF Intervals
  <1>5. PICK first \in starts : first = Min(starts)
    BY <1>4, LeastNumber
  <1>6. PICK last : last = Max({w.end : w \in Work(d)})
    OBVIOUS
  <1>7. DaySlots(d) = {s \div SlotMin : s \in {s \in SlotStarts(first, last) : Avail(d, s)}}
    BY <1>2, <1>3, <1>5, <1>6 DEF DaySlots
  <1>8. PICK s \in SlotStarts(first, last) : Avail(d, s) /\ i = s \div SlotMin
    BY <1>7
  <1>9. s \in Int /\ first \in Nat /\ first % SlotMin = 0 /\ (s - first) % SlotMin = 0
    BY <1>4, <1>8 DEF SlotStarts
  <1>10. s % SlotMin = 0
    <2>1. s = SlotMin * ((s - first) \div SlotMin) + SlotMin * (first \div SlotMin)
      BY <1>1, <1>9
    <2>2. PICK k \in Int : k = ((s - first) \div SlotMin) + (first \div SlotMin)
      BY <1>1, <1>9
    <2>3. s = SlotMin * k
      BY <1>1, <1>9, <2>1, <2>2
    <2> QED BY <1>1, <2>3
  <1>11. i \in Int /\ i * SlotMin = s /\ (i + 1) * SlotMin = s + SlotMin
    BY <1>1, <1>8, <1>9, <1>10
  <1>12. \A x \in SlotStarts(s, s + SlotMin) : x = s
    <2>1. ASSUME NEW x \in SlotStarts(s, s + SlotMin) PROVE x = s
      <3>1. x \in Int /\ s <= x /\ x < s + SlotMin /\ (x - s) % SlotMin = 0
        BY <1>1, <1>9, <2>1 DEF SlotStarts
      <3> QED BY <1>1, <1>9, <3>1
    <2> QED BY <2>1
  <1> QED BY <1>1, <1>8, <1>9, <1>11, <1>12 DEF RangeBookable

----------------------------------------------------------------------------

\* Placing a session keeps the rest.
LEMMA PlacingKeepsRest ==
    ASSUME CalendarInv, NEW d \in Dates, NEW f \in 0 .. (DayLength \div SlotMin),
           NEW t \in 0 .. (DayLength \div SlotMin), PlaceSession(d, f, t)
    PROVE  CalendarInv'
  <1>1. SlotMin \in Nat /\ SlotMin > 0 /\ DayLength \in Nat
    BY Minutes
  <1>2. RangeBookable(d, f * SlotMin, t * SlotMin)
    BY DEF PlaceSession
  <1>3. Fits(f, t)
    <2>1. PICK n : n = DayLength \div SlotMin
      OBVIOUS
    <2>2. n \in Nat /\ n * SlotMin <= DayLength /\ f \in Nat /\ t \in Nat /\ t <= n
      BY <1>1, <2>1
    <2>3. t * SlotMin <= DayLength
      BY <1>1, <2>2
    <2>4. f * SlotMin < t * SlotMin
      BY <1>2 DEF RangeBookable
    <2>5. f < t
      BY <1>1, <2>2, <2>4
    <2> QED BY <2>2, <2>3, <2>5 DEF Fits
  <1>4. /\ sessions' = sessions \cup {SessionAt(d, f, t)}
        /\ UNCHANGED <<schedule, edit, meant, putBack>>
    BY DEF PlaceSession, SessionAt
  <1>5. PICK new : new = SessionAt(d, f, t)
    OBVIOUS
  <1>6. \A b \in sessions : Apart(b, new) /\ Apart(new, b)
    <2>1. ASSUME NEW b \in sessions PROVE Apart(b, new) /\ Apart(new, b)
      <3>1. PICK e \in Dates, g \in Nat, h \in Nat : Fits(g, h) /\ b = SessionAt(e, g, h)
        BY DEF CalendarInv
      <3>2. Apart(b, new)
        BY <1>2, <1>3, <1>5, <3>1, PlacedIsApart
      <3> QED BY <3>2 DEF Apart
    <2> QED BY <2>1
  <1>7. \A a, b \in sessions : a = b \/ Apart(a, b)
    BY DEF CalendarInv, RestBetween, Apart
  <1>8. \A a, b \in sessions' : a = b \/ Apart(a, b)
    BY <1>4, <1>5, <1>6, <1>7
  <1>9. RestBetween'
    BY <1>8 DEF RestBetween, Apart
  <1>10. \A b \in sessions' : \E e \in Dates, g, h \in Nat : Fits(g, h) /\ b = SessionAt(e, g, h)
    BY <1>3, <1>4 DEF CalendarInv, Fits
  <1> QED BY <1>4, <1>9, <1>10 DEF CalendarInv, EditsKept

\* An edit writes what it was asked for, and over another's write only in putBack.
LEMMA EditsKeep ==
    ASSUME CalendarInv, EditNext
    PROVE  CalendarInv'
  <1>1. PICK e \in Edits :
           \/ ReadSchedule(e)
           \/ \E t \in Templates : PutWorkSchedule(e, t)
           \/ \E d \in Dates, kind \in {"none", "half", "day"} : ChangeLeave(e, d, kind)
           \/ \E p \in WeekPlans : SaveWeekPlans(e, p)
    BY DEF EditNext
  <1>2. /\ schedule \in Schedules /\ meant \in Schedules /\ edit \in [Edits -> EditRecords]
        /\ AtEase \in EditRecords
    BY DEF CalendarInv, EditRecords
  <1>3. ASSUME ReadSchedule(e) PROVE CalendarInv'
    <2>1. [at |-> "edits", read |-> schedule] \in EditRecords
      BY <1>2 DEF EditRecords
    <2>2. edit' \in [Edits -> EditRecords]
      BY <1>2, <1>3, <2>1 DEF ReadSchedule
    <2>3. UNCHANGED <<schedule, sessions, meant, putBack>>
      BY <1>3 DEF ReadSchedule
    <2> QED BY <2>2, <2>3 DEF CalendarInv, RestBetween, EditsKept
  \* Any write of a well-formed schedule that is what was meant unless something was put back.
  <1>4. ASSUME NEW new \in Schedules, NEW wanted \in Schedules, NEW repeated,
               Write(e, new, wanted, repeated),
               /\ schedule = meant
               /\ \A c \in repeated : edit[e].read[c] = schedule[c]
               => new = wanted
        PROVE  CalendarInv'
    <2>1. /\ schedule' = new /\ meant' = wanted /\ sessions' = sessions
          /\ edit' = [edit EXCEPT ![e] = AtEase]
      BY <1>4 DEF Write
    <2>2. putBack' <=> (putBack \/ \E c \in repeated : edit[e].read[c] # schedule[c])
      BY <1>4 DEF Write
    <2>3. edit' \in [Edits -> EditRecords]
      BY <1>2, <2>1
    <2>4. new = wanted \/ putBack'
      BY <1>4, <2>2 DEF CalendarInv, EditsKept
    <2>5. EditsKept'
      BY <2>1, <2>4 DEF EditsKept
    <2> QED BY <2>1, <2>3, <2>5 DEF CalendarInv, RestBetween
  <1>5. ASSUME edit[e].at = "edits" PROVE edit[e].read \in Schedules
    BY <1>2, <1>5 DEF EditRecords, AtEase
  <1>6. ASSUME NEW t \in Templates, PutWorkSchedule(e, t) PROVE CalendarInv'
    <2>1. PICK read \in Schedules : read = edit[e].read
      BY <1>5, <1>6 DEF PutWorkSchedule, Write
    <2> DEFINE new == [read EXCEPT !.template = t]
               wanted == [meant EXCEPT !.template = t]
    <2>2. new \in Schedules /\ wanted \in Schedules
      BY <1>2 DEF Schedules
    <2>3. ASSUME schedule = meant, \A c \in {"plan", "leave"} : edit[e].read[c] = schedule[c]
          PROVE  new = wanted
      <3>1. read.plan = meant.plan /\ read.leave = meant.leave
        BY <2>1, <2>3
      <3> QED BY <1>2, <3>1 DEF Schedules
    <2>4. Write(e, new, wanted, {"plan", "leave"})
      BY <1>6, <2>1 DEF PutWorkSchedule
    <2> HIDE DEF new, wanted
    <2> QED BY <1>4, <2>2, <2>3, <2>4
  <1>7. ASSUME NEW d \in Dates, NEW kind \in {"none", "half", "day"}, ChangeLeave(e, d, kind)
        PROVE  CalendarInv'
    <2>1. PICK read \in Schedules : read = edit[e].read
      BY <1>5, <1>7 DEF ChangeLeave, Write
    <2> DEFINE new == [schedule EXCEPT !.leave = [read.leave EXCEPT ![d] = kind]]
               wanted == [meant EXCEPT !.leave[d] = kind]
    <2>2. new \in Schedules /\ wanted \in Schedules
      BY <1>2 DEF Schedules
    <2>3. ASSUME schedule = meant, \A c \in {"leave"} : edit[e].read[c] = schedule[c]
          PROVE  new = wanted
      <3>1. read.leave = meant.leave
        BY <2>1, <2>3
      <3> QED BY <1>2, <2>3, <3>1 DEF Schedules
    <2>4. Write(e, new, wanted, {"leave"})
      BY <1>7, <2>1 DEF ChangeLeave
    <2> HIDE DEF new, wanted
    <2> QED BY <1>4, <2>2, <2>3, <2>4
  <1>8. ASSUME NEW p \in WeekPlans, SaveWeekPlans(e, p) PROVE CalendarInv'
    <2> DEFINE new == [schedule EXCEPT !.plan = p]
               wanted == [meant EXCEPT !.plan = p]
    <2>1. new \in Schedules /\ wanted \in Schedules /\ (schedule = meant => new = wanted)
      BY <1>2 DEF Schedules, PlansOfWeek
    <2>2. Write(e, new, wanted, {})
      BY <1>8 DEF SaveWeekPlans
    <2> HIDE DEF new, wanted
    <2> QED BY <1>4, <2>1, <2>2
  <1> QED BY <1>1, <1>3, <1>6, <1>7, <1>8

\* For every grid, working time, plan, leave and any number of edits under way: sessions of
\* a teacher keep their rest whatever each was checked against, a slot that is shown as free
\* can be booked, and an edit loses another's work only when they were under way together
\* (availability.service.ts: isRangeBookable, getDaySlots, putWorkSchedule, addLeave).
THEOREM CalendarAlwaysKept == AvailabilitySpec => []CalendarIsKept
  <1>1. AvailabilityInit => CalendarInv
    <2> SUFFICES ASSUME AvailabilityInit PROVE CalendarInv
      OBVIOUS
    <2>1. schedule \in Schedules
      BY DEF AvailabilityInit, Schedules, PlansOfWeek
    <2>2. edit \in [Edits -> EditRecords]
      BY DEF AvailabilityInit, EditRecords
    <2> QED BY <2>1, <2>2 DEF AvailabilityInit, CalendarInv, RestBetween, EditsKept
  <1>2. CalendarInv /\ [AvailabilityNext]_availabilityVars => CalendarInv'
    <2> SUFFICES ASSUME CalendarInv, [AvailabilityNext]_availabilityVars PROVE CalendarInv'
      OBVIOUS
    <2>1. ASSUME NEW b \in sessions, CloseSession(b) PROVE CalendarInv'
      <3>1. sessions' \subseteq sessions /\ UNCHANGED <<schedule, edit, meant, putBack>>
        BY <2>1 DEF CloseSession
      <3> QED BY <3>1 DEF CalendarInv, RestBetween, EditsKept
    <2>2. CASE UNCHANGED availabilityVars
      BY <2>2 DEF availabilityVars, CalendarInv, RestBetween, EditsKept
    <2> QED BY <2>1, <2>2, PlacingKeepsRest, EditsKeep DEF AvailabilityNext, PlacingNext
  <1>3. CalendarInv => CalendarIsKept
    BY ShownCanBeBooked DEF CalendarInv, CalendarIsKept
  <1> QED BY <1>1, <1>2, <1>3, PTL DEF AvailabilitySpec
=============================================================================
