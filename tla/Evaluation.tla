------------------------------- MODULE Evaluation -------------------------------
(****************************************************************************)
(* Reviews of one teacher's consultations, and the rating and grade that    *)
(* each review recomputes from all of them: the transaction inserts its row *)
(* under the teacher's row lock, reads what is committed, and writes the    *)
(* aggregate.  The aggregate is the set of reviews it was computed from.    *)
(****************************************************************************)
EXTENDS FiniteSets

CONSTANTS
    Done,       \* consultations of the teacher that are done
    Raters      \* requests in flight

VARIABLES
    reviews,    \* committed rows: <<consultation, request>>
    rated,      \* teacher_profile.rating and grade: the rows they are computed from
    rater       \* what each request is doing

evaluationVars == <<reviews, rated, rater>>

NotRating == [at |-> "none"]

EvaluationInit ==
    /\ reviews = {} /\ rated = {}
    /\ rater = [r \in Raters |-> NotRating]

Rates(r, record) == rater' = [rater EXCEPT ![r] = record]
Reviewed(b) == \E row \in reviews : row[1] = b

ReadReview(r, b) ==
    /\ rater[r] = NotRating
    /\ ~Reviewed(b)
    /\ Rates(r, [at |-> "lock", of |-> b])
    /\ UNCHANGED <<reviews, rated>>

\* Mutant: the teacher's row is not locked.
TeacherFree_NoLock(r) == TRUE
\* SELECT ... FOR UPDATE, held to the end of the transaction.
TeacherFree(r) == \A o \in Raters \ {r} : rater[o].at \notin {"insert", "commit"}

LockTeacher(r) ==
    /\ rater[r].at = "lock"
    /\ TeacherFree(r)
    /\ Rates(r, [rater[r] EXCEPT !.at = "insert"])
    /\ UNCHANGED <<reviews, rated>>

\* The insert waits for, or fails on, another row of the consultation (booking_id is
\* unique); then the rows committed by now and its own are read.
InsertReview(r) ==
    /\ rater[r].at = "insert"
    /\ \A o \in Raters : rater[o].at = "commit" => rater[o].of # rater[r].of
    /\ Rates(r, IF Reviewed(rater[r].of) THEN NotRating
                ELSE [at |-> "commit", of |-> rater[r].of,
                      sees |-> reviews \cup {<<rater[r].of, r>>}])
    /\ UNCHANGED <<reviews, rated>>

CommitReview(r) ==
    /\ rater[r].at = "commit"
    /\ reviews' = reviews \cup {<<rater[r].of, r>>}
    /\ rated' = rater[r].sees
    /\ Rates(r, NotRating)

\* The connection is lost: the transaction leaves nothing.
RollBack(r) ==
    /\ rater[r] # NotRating
    /\ Rates(r, NotRating)
    /\ UNCHANGED <<reviews, rated>>

EvaluationNext ==
    \E r \in Raters :
        \/ LockTeacher(r) \/ InsertReview(r) \/ CommitReview(r) \/ RollBack(r)
        \/ \E b \in Done : ReadReview(r, b)

EvaluationSpec == EvaluationInit /\ [][EvaluationNext]_evaluationVars

\* The published rating is that of all reviews, each of a different consultation,
\* although the students of one teacher review at the same time.
RatingIsCurrent ==
    /\ rated = reviews
    /\ \A x, y \in reviews : x[1] = y[1] => x = y
=============================================================================
