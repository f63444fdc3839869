--------------------------------- MODULE Qna ---------------------------------
(****************************************************************************)
(* qna_post and qna_answer: the questions of one student in one week, the   *)
(* teachers who take and answer them, and what the questions cost.          *)
(*                                                                          *)
(* A handler first reads (Read...), then writes by one conditional update   *)
(* or one transaction; between the two any other handler may run.  The      *)
(* community board keeps its questions in the same table.                   *)
(****************************************************************************)
EXTENDS Integers, FiniteSets, Sequences

CONSTANTS
    Questions,     \* qna_post rows
    Community,     \* those of the community board
    Designated,    \* assigned_teacher_id a question is created with, or None
    Teachers,
    Unfit,         \* teachers the student listed as unfit
    SoftBlocked,   \* teachers the student does not want again (qna_relation_block)
    QnaCalls,      \* requests in flight, sweeps included
    FreeQuota,     \* free questions of the week
    QuestionFee,   \* quoteBoard
    BundleSize,    \* tickets of a bundle
    BundlePrice,
    StartCredits,
    ReanswerLimit  \* REANSWER_LIMIT

None == "none"

ASSUME QnaAssumption ==
    /\ Community \subseteq Questions /\ Unfit \cup SoftBlocked \subseteq Teachers
    /\ None \notin Teachers
    /\ Designated \in [Questions -> Teachers \cup {None}]
    /\ \A q \in Community : Designated[q] = None
    /\ {FreeQuota, BundleSize, BundlePrice, StartCredits, ReanswerLimit} \subseteq Nat
    /\ QuestionFee \in Nat \ {0}

VARIABLES
    post,        \* qna_post
    answers,     \* qna_answer: the teachers who answered a question
    accepted,    \* qna_answer.accepted, pay_eligible: <<question, teacher>>
    tickets,     \* remaining, over all bundles
    credits,     \* what the student can spend
    qnaCall,     \* what each request is doing
    paid,        \* history: how each question was paid for, in order
    bundles      \* history: bundles bought

wallet == <<tickets, credits, paid, bundles>>
qnaVars == <<post, answers, accepted, wallet, qnaCall>>

Idle == [do |-> "idle"]

NewPost(status, scope, owner) ==
    [status |-> status, scope |-> scope, owner |-> owner, claimed |-> FALSE,
     replied |-> FALSE, again |-> 0, free |-> FALSE]

QnaInit ==
    /\ post = [q \in Questions |-> NewPost("absent", "open", None)]
    /\ answers = [q \in Questions |-> {}]
    /\ accepted = {}
    /\ tickets = 0 /\ credits = StartCredits /\ bundles = 0
    /\ qnaCall = [c \in QnaCalls |-> Idle]
    /\ paid = [q \in Questions |-> <<>>]

Begin(c, record) == qnaCall[c] = Idle /\ qnaCall' = [qnaCall EXCEPT ![c] = record]
End(c) == qnaCall' = [qnaCall EXCEPT ![c] = Idle]

(****************************************************************************)
(* The student asks.                                                        *)
(****************************************************************************)
CreateQuestion(q) ==
    /\ q \notin Community
    /\ post[q].status = "absent"
    /\ post' = [post EXCEPT ![q] =
           NewPost("ai_pending", IF Designated[q] = None THEN "open" ELSE "assigned",
                   Designated[q])]
    /\ UNCHANGED <<answers, accepted, wallet, qnaCall>>

\* createCommunityQuestion: free, and open to teachers' handlers at once.
CreateCommunityQuestion(q) ==
    /\ q \in Community
    /\ post[q].status = "absent"
    /\ post' = [post EXCEPT ![q] = NewPost("open", "open", None)]
    /\ UNCHANGED <<answers, accepted, wallet, qnaCall>>

PurchaseTickets ==
    /\ credits >= BundlePrice
    /\ bundles = 0                    \* bound: one bundle
    /\ credits' = credits - BundlePrice
    /\ tickets' = tickets + BundleSize
    /\ bundles' = bundles + 1
    /\ UNCHANGED <<post, answers, accepted, paid, qnaCall>>

(****************************************************************************)
(* escalateToHuman: the quota of the week is counted before the transaction.*)
(****************************************************************************)
FreeUsed == Cardinality({q \in Questions : post[q].free})
FreeLeft == FreeQuota - FreeUsed

ReadEscalate(c, q) ==
    /\ post[q].status = "ai_pending"
    /\ Begin(c, [do |-> "escalate", q |-> q, free |-> FreeLeft > 0])
    /\ UNCHANGED <<post, answers, accepted, wallet>>

\* Mutant: updated by id only.
StillPending_ById(q) == TRUE
StillPending(q) == post[q].status = "ai_pending"

\* Ticket first, then credits; without either the transaction rolls back.
CommitEscalate(c) ==
    /\ qnaCall[c].do = "escalate"
    /\ LET q == qnaCall[c].q
           free == qnaCall[c].free
           by == IF free THEN "free" ELSE IF tickets > 0 THEN "ticket" ELSE "credit"
       IN IF StillPending(q) /\ (by = "credit" => credits >= QuestionFee)
          THEN /\ post' = [post EXCEPT ![q].status = "open", ![q].free = free]
               /\ tickets' = IF by = "ticket" THEN tickets - 1 ELSE tickets
               /\ credits' = IF by = "credit" THEN credits - QuestionFee ELSE credits
               /\ paid' = [paid EXCEPT ![q] = Append(@, by)]
          ELSE UNCHANGED <<post, tickets, credits, paid>>
    /\ End(c)
    /\ UNCHANGED <<answers, accepted, bundles>>

ResolveWithAi(q) ==
    /\ post[q].status = "ai_pending"
    /\ post' = [post EXCEPT ![q].status = "resolved"]
    /\ UNCHANGED <<answers, accepted, wallet, qnaCall>>

(****************************************************************************)
(* A teacher takes a question and answers it.                               *)
(****************************************************************************)
\* After a request for another answer those who answered are out.
AnsweredBefore(q, t) == post[q].again > 0 /\ t \in answers[q]

ReadClaim(c, q, t) ==
    /\ post[q].scope = "open" /\ post[q].status = "open"
    /\ t \notin Unfit \cup SoftBlocked
    /\ ~AnsweredBefore(q, t)
    /\ Begin(c, [do |-> "claim", q |-> q, by |-> t])
    /\ UNCHANGED <<post, answers, accepted, wallet>>

\* Mutant: the question is taken whoever has it.
Unassigned_StatusOnly(q) == post[q].status = "open"
Unassigned(q) ==
    /\ post[q].scope = "open" /\ post[q].status = "open"
    /\ post[q].owner = None

Assigned(q, t) == [post[q] EXCEPT !.scope = "assigned", !.owner = t, !.claimed = TRUE]

CommitClaim(c) ==
    /\ qnaCall[c].do = "claim"
    /\ LET q == qnaCall[c].q
       IN post' = IF Unassigned(q) THEN [post EXCEPT ![q] = Assigned(q, qnaCall[c].by)]
                                   ELSE post
    /\ End(c)
    /\ UNCHANGED <<answers, accepted, wallet>>

\* canAnswerQuestion.
MayAnswer(q, t) == IF post[q].scope = "assigned" THEN post[q].owner = t ELSE t \notin Unfit

ReadAnswer(c, q, t) ==
    /\ post[q].status = "open"
    /\ MayAnswer(q, t)
    /\ ~AnsweredBefore(q, t)
    /\ Begin(c, [do |-> "answer", q |-> q, by |-> t, first |-> ~post[q].replied])
    /\ UNCHANGED <<post, answers, accepted, wallet>>

\* The row is created whatever has become of the question during the check.
CreateAnswer(c) ==
    /\ qnaCall[c].do = "answer"
    /\ answers' = [answers EXCEPT ![qnaCall[c].q] = @ \cup {qnaCall[c].by}]
    /\ qnaCall' = [qnaCall EXCEPT ![c] =
           IF @.first THEN [do |-> "reply", q |-> @.q] ELSE Idle]
    /\ UNCHANGED <<post, accepted, wallet>>

SetFirstReply(c) ==
    /\ qnaCall[c].do = "reply"
    /\ post' = [post EXCEPT ![qnaCall[c].q].replied = TRUE]
    /\ End(c)
    /\ UNCHANGED <<answers, accepted, wallet>>

(****************************************************************************)
(* The student accepts, or asks for another answer.                         *)
(****************************************************************************)
\* Mutant: resolved by id.
StillOpen_ById(q) == TRUE
StillOpen(q) == post[q].status = "open"

\* What is read before never changes, so the transaction is the whole handler.
AcceptAnswer(q, t) ==
    /\ t \in answers[q]
    /\ StillOpen(q)
    /\ post' = [post EXCEPT ![q].status = "resolved"]
    /\ accepted' = accepted \cup {<<q, t>>}
    /\ UNCHANGED <<answers, wallet, qnaCall>>

ReadReanswer(c, q) ==
    /\ answers[q] # {}
    /\ post[q].status = "open"
    /\ post[q].again < ReanswerLimit
    /\ Begin(c, [do |-> "again", q |-> q])
    /\ UNCHANGED <<post, answers, accepted, wallet>>

RequestReanswer(c) ==
    /\ qnaCall[c].do = "again"
    /\ LET q == qnaCall[c].q
       IN post' = [post EXCEPT ![q] =
              [@ EXCEPT !.again = post[q].again + 1, !.scope = "open", !.owner = None,
                        !.claimed = FALSE, !.replied = FALSE]]
    /\ End(c)
    /\ UNCHANGED <<answers, accepted, wallet>>

(****************************************************************************)
(* The sweep, every ten minutes or by hand.  The age of a claim and of a    *)
(* question is not modelled: any of them may be old enough.                 *)
(****************************************************************************)
ReleaseStaleClaims(q) ==
    /\ post[q].scope = "assigned" /\ post[q].status = "open"
    /\ post[q].claimed /\ ~post[q].replied
    /\ post' = [post EXCEPT ![q] =
           [@ EXCEPT !.scope = "open", !.owner = None, !.claimed = FALSE]]
    /\ UNCHANGED <<answers, accepted, wallet, qnaCall>>

ListOpen(c) ==
    /\ \E q \in Questions : Unassigned(q)
    /\ Begin(c, [do |-> "assign", left |-> {q \in Questions : Unassigned(q)}])
    /\ UNCHANGED <<post, answers, accepted, wallet>>

Load(t) == Cardinality({q \in Questions :
    /\ post[q].owner = t /\ post[q].scope = "assigned"
    /\ post[q].status = "open" /\ ~post[q].replied})

\* pickForStudent: neither unfit nor blocked, of least load.
Assignees ==
    LET fit == Teachers \ (Unfit \cup SoftBlocked)
    IN {t \in fit : \A u \in fit : Load(t) <= Load(u)}

AutoAssign(c, q) ==
    /\ qnaCall[c].do = "assign"
    /\ q \in qnaCall[c].left
    /\ IF Unassigned(q) /\ Assignees # {}
       THEN \E t \in Assignees : post' = [post EXCEPT ![q] = Assigned(q, t)]
       ELSE UNCHANGED post
    /\ qnaCall' = [qnaCall EXCEPT ![c] =
           IF @.left = {q} THEN Idle ELSE [@ EXCEPT !.left = qnaCall[c].left \ {q}]]
    /\ UNCHANGED <<answers, accepted, wallet>>

AskNext ==
    \/ PurchaseTickets
    \/ \E q \in Questions :
          \/ CreateQuestion(q) \/ CreateCommunityQuestion(q) \/ ResolveWithAi(q)
          \/ \E c \in QnaCalls : ReadEscalate(c, q)
    \/ \E c \in QnaCalls : CommitEscalate(c)

TeachNext ==
    \/ \E q \in Questions :
          \/ ReleaseStaleClaims(q)
          \/ \E t \in Teachers : AcceptAnswer(q, t)
    \/ \E c \in QnaCalls :
          \/ CommitClaim(c) \/ CreateAnswer(c) \/ SetFirstReply(c)
          \/ RequestReanswer(c) \/ ListOpen(c)
          \/ \E q \in Questions :
                \/ ReadReanswer(c, q) \/ AutoAssign(c, q)
                \/ \E t \in Teachers : ReadClaim(c, q, t) \/ ReadAnswer(c, q, t)

QnaNext == AskNext \/ TeachNext

QnaSpec == QnaInit /\ [][QnaNext]_qnaVars

(****************************************************************************)
(* Properties.                                                              *)
(****************************************************************************)
Count(by) == Cardinality({q \in Questions : paid[q] = <<by>>})

\* A question that reached the teachers was paid for exactly once, whatever calls
\* overlapped; one that did not, and one of the community, not at all.  Credits and
\* tickets went only into those payments, and nobody paid while a free question
\* of the week was left.
QuestionsSettled ==
    /\ \A q \in Questions \ Community :
          Len(paid[q]) = IF \/ post[q].status = "open"
                            \/ post[q].status = "resolved" /\ paid[q] # <<>>
                         THEN 1 ELSE 0
    /\ \A q \in Community : paid[q] = <<>>
    /\ tickets = BundleSize * bundles - Count("ticket")
    /\ credits = StartCredits - BundlePrice * bundles - QuestionFee * Count("credit")
    /\ tickets >= 0 /\ credits >= 0
    /\ Count("ticket") + Count("credit") > 0 => FreeUsed >= FreeQuota

\* A question has at most one accepted answer and then is closed for good, although
\* accepting, asking again and late answers overlap.
OneAcceptedAnswer ==
    \A q \in Questions :
        /\ Cardinality({a \in accepted : a[1] = q}) <= 1
        /\ (\E a \in accepted : a[1] = q) => post[q].status = "resolved"

\* Nobody takes a question from the teacher who has it: it changes hands only
\* after it was released or asked again.
KeptUntilReleased ==
    [][\A q \in Questions :
          post[q].owner # None /\ post'[q].status # "absent" =>
              post'[q].owner \in {post[q].owner, None}]_qnaVars
=============================================================================
