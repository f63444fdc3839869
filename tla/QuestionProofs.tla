----------------------------- MODULE QuestionProofs ----------------------------
(****************************************************************************)
(* Questions, the community board, and the recording and the report of a    *)
(* consultation: what holds of them for every number of questions, users    *)
(* and requests that overlap.                                               *)
(****************************************************************************)
EXTENDS Qna, Community, ConsultRecording, ConsultReports, FiniteSetTheorems, TLAPS

Statuses == {"absent", "ai_pending", "open", "resolved"}

PostRows == [status : Statuses, scope : {"open", "assigned"}, owner : Teachers \cup {None},
             claimed : BOOLEAN, replied : BOOLEAN, again : Nat, free : BOOLEAN]

CallRecords ==
    [do : {"idle"}]
    \cup [do : {"escalate"}, q : Questions, free : BOOLEAN]
    \cup [do : {"claim"}, q : Questions, by : Teachers]
    \cup [do : {"answer"}, q : Questions, by : Teachers, first : BOOLEAN]
    \cup [do : {"reply", "again"}, q : Questions]
    \cup [do : {"assign"}, left : SUBSET Questions]

Means == {"free", "ticket", "credit"}

QnaTypeOK ==
    /\ post \in [Questions -> PostRows]
    /\ answers \in [Questions -> SUBSET Teachers]
    /\ accepted \subseteq Questions \X Teachers
    /\ qnaCall \in [QnaCalls -> CallRecords]
    /\ tickets \in Nat /\ credits \in Nat /\ bundles \in {0, 1}
    /\ paid \in [Questions -> Seq(Means)]

(****************************************************************************)
(* What one step does to one row.                                           *)
(****************************************************************************)
\* The row of a question that nobody has written yet.
Unwritten(q) == post[q].status = "absent" => post[q].owner = None /\ ~post[q].free

\* All that may become of a row: it is created, goes to the teachers, is closed, is
\* given to a teacher who finds it free, or is taken from one.
RowStep(q) ==
    \/ post'[q] = post[q]
    \/ /\ post[q].status = "absent"
       /\ post'[q].status = (IF q \in Community THEN "open" ELSE "ai_pending")
       /\ ~post'[q].free
    \/ /\ post[q].status = "ai_pending" /\ post'[q].status = "open"
       /\ post'[q].owner = post[q].owner
    \/ /\ post[q].status \in {"ai_pending", "open"} /\ post'[q].status = "resolved"
       /\ post'[q].owner = post[q].owner /\ post'[q].free = post[q].free
    \/ /\ post'[q].status = post[q].status /\ post'[q].free = post[q].free
       /\ post'[q].owner \in {post[q].owner, None} \/ Unassigned(q)

\* A request remembers what its record says.
LEMMA CallShape ==
    ASSUME QnaTypeOK, NEW c \in QnaCalls
    PROVE  /\ qnaCall[c].do = "escalate" => qnaCall[c].q \in Questions /\ qnaCall[c].free \in BOOLEAN
           /\ qnaCall[c].do \in {"claim", "answer"} =>
                 qnaCall[c].q \in Questions /\ qnaCall[c].by \in Teachers
           /\ qnaCall[c].do = "answer" => qnaCall[c].first \in BOOLEAN
           /\ qnaCall[c].do \in {"reply", "again"} => qnaCall[c].q \in Questions
           /\ qnaCall[c].do = "assign" => qnaCall[c].left \subseteq Questions
  BY DEF QnaTypeOK, CallRecords

\* A request begins or ends with a record of its own.
LEMMA CallsKeepShape ==
    ASSUME QnaTypeOK, NEW c \in QnaCalls, NEW x \in CallRecords,
           qnaCall' = [qnaCall EXCEPT ![c] = x]
    PROVE  qnaCall' \in [QnaCalls -> CallRecords]
  BY DEF QnaTypeOK

\* A handler that writes one row.
LEMMA OneRow ==
    ASSUME QnaTypeOK, NEW q \in Questions, NEW row \in PostRows,
           post' = [post EXCEPT ![q] = row]
    PROVE  /\ post' \in [Questions -> PostRows]
           /\ post'[q] = row
           /\ \A o \in Questions \ {q} : post'[o] = post[o]
  BY DEF QnaTypeOK

\* The handlers that begin a request, or end one, and write no row.
ReadStep ==
    /\ UNCHANGED <<post, accepted, wallet>>
    /\ answers' \in [Questions -> SUBSET Teachers]
    /\ qnaCall' \in [QnaCalls -> CallRecords]
    /\ \A c \in QnaCalls : qnaCall'[c].do = "escalate" =>
          qnaCall'[c] = qnaCall[c] \/ qnaCall'[c].free = (FreeLeft > 0)

\* Those that write rows and pay nothing.
WriteStep ==
    /\ UNCHANGED wallet
    /\ post' \in [Questions -> PostRows]
    /\ \A q \in Questions : RowStep(q)
    /\ \A q \in Questions : post[q].status = "ai_pending" => post'[q].status # "open"
    /\ qnaCall' \in [QnaCalls -> CallRecords]
    /\ \A c \in QnaCalls : qnaCall'[c].do = "escalate" => qnaCall'[c] = qnaCall[c]

PlainStep == WriteStep /\ UNCHANGED <<accepted, answers>>

\* An answer is accepted.
AcceptStep(q, t) ==
    /\ WriteStep
    /\ UNCHANGED answers
    /\ post[q].status = "open" /\ post'[q].status = "resolved"
    /\ accepted' = accepted \cup {<<q, t>>}

\* The question of the student, and the one of the community.
LEMMA AskedStep ==
    ASSUME QnaTypeOK, NEW q \in Questions, CreateQuestion(q) \/ CreateCommunityQuestion(q)
    PROVE  PlainStep
  <1> DEFINE row == IF q \in Community THEN NewPost("open", "open", None)
                    ELSE NewPost("ai_pending", IF Designated[q] = None THEN "open" ELSE "assigned",
                                 Designated[q])
  <1>1. row \in PostRows
    BY QnaAssumption DEF NewPost, PostRows, Statuses
  <1>2. post' = [post EXCEPT ![q] = row] /\ post[q].status = "absent"
    BY DEF CreateQuestion, CreateCommunityQuestion
  <1>3. row.status = (IF q \in Community THEN "open" ELSE "ai_pending") /\ ~row.free
    BY DEF NewPost
  <1> HIDE DEF row
  <1>4. post' \in [Questions -> PostRows] /\ post'[q] = row
        /\ \A o \in Questions \ {q} : post'[o] = post[o]
    BY <1>1, <1>2, OneRow
  <1>5. \A o \in Questions : RowStep(o)
    BY <1>2, <1>3, <1>4 DEF RowStep
  <1> QED BY <1>2, <1>4, <1>5
          DEF PlainStep, AcceptStep, WriteStep, CreateQuestion, CreateCommunityQuestion, QnaTypeOK

\* A row that one handler changes in some fields.
LEMMA ChangedRow ==
    ASSUME QnaTypeOK, NEW q \in Questions, NEW row \in PostRows,
           post' = [post EXCEPT ![q] = row],
           \/ /\ post[q].status \in {"ai_pending", "open"} /\ row.status = "resolved"
              /\ row.owner = post[q].owner /\ row.free = post[q].free
           \/ /\ row.status = post[q].status /\ row.free = post[q].free
              /\ row.owner \in {post[q].owner, None} \/ Unassigned(q)
    PROVE  /\ post' \in [Questions -> PostRows]
           /\ \A o \in Questions : RowStep(o)
           /\ \A o \in Questions : post[o].status = "ai_pending" => post'[o].status # "open"
  <1>1. post' \in [Questions -> PostRows] /\ post'[q] = row
        /\ \A o \in Questions \ {q} : post'[o] = post[o]
    BY OneRow
  <1> QED BY <1>1 DEF RowStep

\* The handlers that end with the row of the question they were called for.
LEMMA EndedStep ==
    ASSUME QnaTypeOK, NEW c \in QnaCalls, End(c)
    PROVE  /\ qnaCall' \in [QnaCalls -> CallRecords]
           /\ \A d \in QnaCalls : qnaCall'[d].do = "escalate" => qnaCall'[d] = qnaCall[d]
  BY DEF QnaTypeOK, CallRecords, End, Idle

\* What becomes of one record in a request that goes on.
LEMMA BegunStep ==
    ASSUME QnaTypeOK, NEW c \in QnaCalls, NEW x \in CallRecords,
           qnaCall' = [qnaCall EXCEPT ![c] = x], x.do = "escalate" => x.free = (FreeLeft > 0)
    PROVE  /\ qnaCall' \in [QnaCalls -> CallRecords]
           /\ \A d \in QnaCalls : qnaCall'[d].do = "escalate" =>
                 qnaCall'[d] = qnaCall[d] \/ qnaCall'[d].free = (FreeLeft > 0)
  BY DEF QnaTypeOK

\* The student asks: one row is written and nothing paid, but by an escalation and for
\* tickets.
LEMMA AskStep ==
    ASSUME QnaTypeOK, AskNext
    PROVE  ReadStep \/ PlainStep \/ PurchaseTickets \/ \E c \in QnaCalls : CommitEscalate(c)
  <1>1. ASSUME NEW q \in Questions, ResolveWithAi(q) PROVE PlainStep
    <2> DEFINE row == [post[q] EXCEPT !.status = "resolved"]
    <2>1. row \in PostRows /\ row.status = "resolved" /\ row.owner = post[q].owner
          /\ row.free = post[q].free
      BY DEF QnaTypeOK, PostRows, Statuses
    <2>2. post' = [post EXCEPT ![q] = row] /\ post[q].status = "ai_pending"
      BY <1>1 DEF ResolveWithAi
    <2> HIDE DEF row
    <2>3. /\ post' \in [Questions -> PostRows]
          /\ \A o \in Questions : RowStep(o)
          /\ \A o \in Questions : post[o].status = "ai_pending" => post'[o].status # "open"
      BY <2>1, <2>2, ChangedRow
    <2> QED BY <1>1, <2>3 DEF PlainStep, AcceptStep, WriteStep, ResolveWithAi, QnaTypeOK
  <1>2. ASSUME NEW q \in Questions, NEW c \in QnaCalls, ReadEscalate(c, q) PROVE ReadStep
    <2>1. [do |-> "escalate", q |-> q, free |-> FreeLeft > 0] \in CallRecords
      BY DEF CallRecords
    <2>2. qnaCall' = [qnaCall EXCEPT ![c] = [do |-> "escalate", q |-> q, free |-> FreeLeft > 0]]
      BY <1>2 DEF ReadEscalate, Begin
    <2> QED BY <1>2, <2>1, <2>2, BegunStep DEF ReadStep, ReadEscalate, QnaTypeOK
  <1> QED BY <1>1, <1>2, AskedStep DEF AskNext

\* A teacher takes, answers, is released or is accepted: nothing is paid.
LEMMA TeachStep ==
    ASSUME QnaTypeOK, TeachNext
    PROVE  ReadStep \/ PlainStep \/ \E q \in Questions, t \in Teachers : AcceptStep(q, t)
  <1>a. \A q \in Questions : post[q] \in PostRows
    BY DEF QnaTypeOK
  <1>1. ASSUME NEW q \in Questions, ReleaseStaleClaims(q) PROVE PlainStep
    <2> DEFINE row == [post[q] EXCEPT !.scope = "open", !.owner = None, !.claimed = FALSE]
    <2>1. row \in PostRows /\ row.status = post[q].status /\ row.owner = None
          /\ row.free = post[q].free
      BY <1>a DEF PostRows
    <2>2. post' = [post EXCEPT ![q] = row]
      BY <1>1 DEF ReleaseStaleClaims
    <2> HIDE DEF row
    <2> QED BY <1>1, <2>1, <2>2, ChangedRow
        DEF PlainStep, AcceptStep, WriteStep, ReleaseStaleClaims, QnaTypeOK
  <1>2. ASSUME NEW q \in Questions, NEW t \in Teachers, AcceptAnswer(q, t)
        PROVE  AcceptStep(q, t)
    <2> DEFINE row == [post[q] EXCEPT !.status = "resolved"]
    <2>1. row \in PostRows /\ row.status = "resolved" /\ row.owner = post[q].owner
          /\ row.free = post[q].free
      BY <1>a DEF PostRows, Statuses
    <2>2. post' = [post EXCEPT ![q] = row] /\ post[q].status = "open"
      BY <1>2 DEF AcceptAnswer, StillOpen
    <2> HIDE DEF row
    <2>3. WriteStep
      BY <1>2, <2>1, <2>2, ChangedRow DEF PlainStep, AcceptStep, WriteStep, AcceptAnswer, QnaTypeOK
    <2> QED BY <1>2, <2>1, <2>2, <2>3, OneRow DEF AcceptAnswer, AcceptStep
  <1>3. ASSUME NEW c \in QnaCalls, NEW q \in Questions, NEW t \in Teachers,
               qnaCall[c].do \in {"claim", "assign"},
               post' = [post EXCEPT ![q] = Assigned(q, t)], Unassigned(q)
        PROVE  /\ post' \in [Questions -> PostRows]
               /\ \A o \in Questions : RowStep(o)
               /\ \A o \in Questions : post[o].status = "ai_pending" => post'[o].status # "open"
    <2>1. Assigned(q, t) \in PostRows /\ Assigned(q, t).status = post[q].status
          /\ Assigned(q, t).free = post[q].free
      BY <1>a DEF PostRows, Assigned
    <2> QED BY <1>3, <2>1, ChangedRow
  <1>4. ASSUME post' = post PROVE /\ post' \in [Questions -> PostRows]
                                  /\ \A o \in Questions : RowStep(o)
                                  /\ \A o \in Questions : post[o].status = "ai_pending" =>
                                                             post'[o].status # "open"
    BY <1>4 DEF QnaTypeOK, RowStep
  <1>5. ASSUME NEW c \in QnaCalls, CommitClaim(c) PROVE PlainStep
    <2>1. qnaCall[c].q \in Questions /\ qnaCall[c].by \in Teachers
      BY <1>5, CallShape DEF CommitClaim
    <2>2. CASE Unassigned(qnaCall[c].q)
      BY <1>3, <1>5, <2>1, <2>2, EndedStep DEF CommitClaim, PlainStep, WriteStep
    <2>3. CASE ~Unassigned(qnaCall[c].q)
      BY <1>4, <1>5, <2>3, EndedStep DEF CommitClaim, PlainStep, WriteStep
    <2> QED BY <2>2, <2>3
  <1>6. ASSUME NEW c \in QnaCalls, CreateAnswer(c) PROVE ReadStep
    <2>1. qnaCall[c].q \in Questions /\ qnaCall[c].by \in Teachers /\ qnaCall[c].first \in BOOLEAN
      BY <1>6, CallShape DEF CreateAnswer
    <2>2. answers' \in [Questions -> SUBSET Teachers]
      BY <1>6, <2>1 DEF CreateAnswer, QnaTypeOK
    <2> DEFINE x == IF qnaCall[c].first THEN [do |-> "reply", q |-> qnaCall[c].q] ELSE Idle
    <2>3. x \in CallRecords /\ x.do # "escalate"
      BY <2>1 DEF CallRecords, Idle
    <2>4. qnaCall' = [qnaCall EXCEPT ![c] = x]
      BY <1>6 DEF CreateAnswer
    <2> HIDE DEF x
    <2> QED BY <1>6, <2>2, <2>3, <2>4, BegunStep DEF CreateAnswer, ReadStep
  <1>7. ASSUME NEW c \in QnaCalls, SetFirstReply(c) PROVE PlainStep
    <2> DEFINE q == qnaCall[c].q
               row == [post[q] EXCEPT !.replied = TRUE]
    <2>1. q \in Questions
      BY <1>7, CallShape DEF SetFirstReply
    <2>2. row \in PostRows /\ row.status = post[q].status /\ row.free = post[q].free
          /\ row.owner = post[q].owner
      BY <1>a, <2>1 DEF PostRows
    <2>3. post' = [post EXCEPT ![q] = row]
      BY <1>7 DEF SetFirstReply
    <2> HIDE DEF q, row
    <2> QED BY <1>7, <2>1, <2>2, <2>3, ChangedRow, EndedStep DEF SetFirstReply, PlainStep, WriteStep
  <1>8. ASSUME NEW c \in QnaCalls, RequestReanswer(c) PROVE PlainStep
    <2> DEFINE q == qnaCall[c].q
               row == [post[q] EXCEPT !.again = post[q].again + 1, !.scope = "open", !.owner = None,
                                      !.claimed = FALSE, !.replied = FALSE]
    <2>1. q \in Questions
      BY <1>8, CallShape DEF RequestReanswer
    <2>3. post' = [post EXCEPT ![q] = row]
      BY <1>8 DEF RequestReanswer
    <2> HIDE DEF q
    <2>a. post[q] \in PostRows
      BY <1>a, <2>1
    <2>2. row \in PostRows /\ row.status = post[q].status /\ row.free = post[q].free
          /\ row.owner = None
      <3>1. row = [status |-> post[q].status, scope |-> "open", owner |-> None, claimed |-> FALSE,
                   replied |-> FALSE, again |-> post[q].again + 1, free |-> post[q].free]
        <4> DEFINE old == post[q]
        <4>1. old = [status |-> old.status, scope |-> old.scope, owner |-> old.owner,
                     claimed |-> old.claimed, replied |-> old.replied, again |-> old.again,
                     free |-> old.free]
          BY <2>a DEF PostRows
        <4>2. row = [old EXCEPT !.again = old.again + 1, !.scope = "open", !.owner = None,
                                !.claimed = FALSE, !.replied = FALSE]
          OBVIOUS
        <4> HIDE DEF old, row
        <4>3. row = [status |-> old.status, scope |-> "open", owner |-> None, claimed |-> FALSE,
                     replied |-> FALSE, again |-> old.again + 1, free |-> old.free]
          BY <4>1, <4>2
        <4> QED BY <4>3 DEF old
      <3> HIDE DEF row
      <3>2. post[q].again + 1 \in Nat /\ post[q].status \in Statuses /\ post[q].free \in BOOLEAN
        BY <2>a DEF PostRows
      <3> QED BY <3>1, <3>2 DEF PostRows
    <2> HIDE DEF row
    <2> QED BY <1>8, <2>1, <2>2, <2>3, ChangedRow, EndedStep DEF RequestReanswer, PlainStep, WriteStep
  <1>9. ASSUME NEW c \in QnaCalls, ListOpen(c) PROVE ReadStep
    <2>1. [do |-> "assign", left |-> {q \in Questions : Unassigned(q)}] \in CallRecords
      BY DEF CallRecords
    <2>2. qnaCall' = [qnaCall EXCEPT
                         ![c] = [do |-> "assign", left |-> {q \in Questions : Unassigned(q)}]]
      BY <1>9 DEF ListOpen, Begin
    <2> QED BY <1>9, <2>1, <2>2, BegunStep DEF ReadStep, ListOpen, QnaTypeOK
  <1>10. ASSUME NEW c \in QnaCalls, NEW q \in Questions, ReadReanswer(c, q) PROVE ReadStep
    <2>1. [do |-> "again", q |-> q] \in CallRecords
      BY DEF CallRecords
    <2>2. qnaCall' = [qnaCall EXCEPT ![c] = [do |-> "again", q |-> q]]
      BY <1>10 DEF ReadReanswer, Begin
    <2> QED BY <1>10, <2>1, <2>2, BegunStep DEF ReadStep, ReadReanswer, QnaTypeOK
  <1>11. ASSUME NEW c \in QnaCalls, NEW q \in Questions, AutoAssign(c, q) PROVE PlainStep
    <2>1. /\ post' \in [Questions -> PostRows]
          /\ \A o \in Questions : RowStep(o)
          /\ \A o \in Questions : post[o].status = "ai_pending" => post'[o].status # "open"
      <3>1. CASE post' = post
        BY <1>4, <3>1
      <3>2. ASSUME NEW t \in Teachers, post' = [post EXCEPT ![q] = Assigned(q, t)], Unassigned(q)
            PROVE  /\ post' \in [Questions -> PostRows]
                   /\ \A o \in Questions : RowStep(o)
                   /\ \A o \in Questions : post[o].status = "ai_pending" =>
                                              post'[o].status # "open"
        BY <1>3, <1>11, <3>2 DEF AutoAssign
      <3> QED BY <1>11, <3>1, <3>2 DEF AutoAssign, Assignees
    <2> DEFINE x == IF qnaCall[c].left = {q} THEN Idle
                    ELSE [qnaCall[c] EXCEPT !.left = qnaCall[c].left \ {q}]
    <2>2. qnaCall[c].do = "assign"
      BY <1>11 DEF AutoAssign
    <2>3. qnaCall[c] \in [do : {"assign"}, left : SUBSET Questions]
      BY <2>2 DEF QnaTypeOK, CallRecords
    <2>4. x \in CallRecords /\ x.do # "escalate"
      BY <2>3 DEF CallRecords, Idle
    <2>5. qnaCall' = [qnaCall EXCEPT ![c] = x]
      BY <1>11 DEF AutoAssign
    <2> HIDE DEF x
    <2>6. /\ qnaCall' \in [QnaCalls -> CallRecords]
          /\ \A d \in QnaCalls : qnaCall'[d].do = "escalate" => qnaCall'[d] = qnaCall[d]
      BY <2>4, <2>5 DEF QnaTypeOK
    <2> QED BY <1>11, <2>1, <2>6 DEF PlainStep, AcceptStep, WriteStep, AutoAssign
  <1>12. ASSUME NEW c \in QnaCalls, NEW q \in Questions, NEW t \in Teachers,
                ReadClaim(c, q, t) \/ ReadAnswer(c, q, t)
         PROVE  ReadStep
    <2> DEFINE claim == [do |-> "claim", q |-> q, by |-> t]
               answer == [do |-> "answer", q |-> q, by |-> t, first |-> ~post[q].replied]
    <2>1. claim \in CallRecords /\ answer \in CallRecords
          /\ claim.do # "escalate" /\ answer.do # "escalate"
      BY DEF CallRecords
    <2>2. qnaCall' = [qnaCall EXCEPT ![c] = claim] \/ qnaCall' = [qnaCall EXCEPT ![c] = answer]
      BY <1>12 DEF ReadClaim, ReadAnswer, Begin
    <2> HIDE DEF claim, answer
    <2> QED BY <1>12, <2>1, <2>2, BegunStep DEF ReadStep, ReadClaim, ReadAnswer, QnaTypeOK
  <1> QED BY <1>1, <1>2, <1>5, <1>6, <1>7, <1>8, <1>9, <1>10, <1>11, <1>12 DEF TeachNext

(****************************************************************************)
(* What a question costs.                                                   *)
(****************************************************************************)
PaidBy(by) == {q \in Questions : paid[q] = <<by>>}

\* A question is paid for when it goes to the teachers, in one of three ways; the free
\* ones are those marked free.
PaidOnce ==
    /\ \A q \in Questions \ Community :
          /\ paid[q] \in {<<>>, <<"free">>, <<"ticket">>, <<"credit">>}
          /\ post[q].status \in {"absent", "ai_pending"} => paid[q] = <<>>
          /\ post[q].status = "open" => paid[q] # <<>>
    /\ \A q \in Community : paid[q] = <<>> /\ post[q].status # "ai_pending"
    /\ \A q \in Questions : post[q].free <=> paid[q] = <<"free">>
    /\ \A q \in Questions : Unwritten(q)

\* The wallet is what was bought less what was paid.
WalletBalances ==
    /\ \A by \in Means : IsFiniteSet(PaidBy(by))
    /\ tickets = BundleSize * bundles - Count("ticket")
    /\ credits = StartCredits - BundlePrice * bundles - QuestionFee * Count("credit")

\* Who pays, or is about to, found no free question left.
FreeFirst ==
    /\ Count("ticket") + Count("credit") > 0 => Count("free") >= FreeQuota
    /\ \A c \in QnaCalls : qnaCall[c].do = "escalate" /\ ~qnaCall[c].free =>
          Count("free") >= FreeQuota

QnaInv == QnaTypeOK /\ PaidOnce /\ WalletBalances /\ FreeFirst

\* The questions paid in one way are counted; the free ones are those marked free.
LEMMA PaidCounts ==
    ASSUME QnaInv
    PROVE  /\ \A by \in Means : Count(by) \in Nat /\ Count(by) = Cardinality(PaidBy(by))
           /\ FreeUsed = Count("free")
  <1>1. \A by \in Means : Count(by) = Cardinality(PaidBy(by)) /\ IsFiniteSet(PaidBy(by))
    BY DEF Count, PaidBy, QnaInv, WalletBalances
  <1>2. {q \in Questions : post[q].free} = PaidBy("free")
    BY DEF QnaInv, PaidOnce, PaidBy
  <1> QED BY <1>1, <1>2, FS_CardinalityType DEF FreeUsed, Means

\* The invariant says what is promised.
LEMMA QuestionsAreSettled ==
    ASSUME QnaInv
    PROVE  QuestionsSettled
  <1>1. FreeUsed = Count("free")
    BY PaidCounts
  <1>2. \A q \in Questions \ Community :
           Len(paid[q]) = IF \/ post[q].status = "open"
                             \/ post[q].status = "resolved" /\ paid[q] # <<>>
                          THEN 1 ELSE 0
    <2> SUFFICES ASSUME NEW q \in Questions \ Community
                 PROVE  Len(paid[q]) = IF \/ post[q].status = "open"
                                          \/ post[q].status = "resolved" /\ paid[q] # <<>>
                                       THEN 1 ELSE 0
      OBVIOUS
    <2>1. post[q].status \in Statuses
      BY DEF QnaInv, QnaTypeOK, PostRows
    <2>2. CASE paid[q] = <<>>
      BY <2>1, <2>2 DEF QnaInv, PaidOnce
    <2>3. CASE paid[q] \in {<<"free">>, <<"ticket">>, <<"credit">>}
      <3>1. Len(paid[q]) = 1 /\ paid[q] # <<>>
        BY <2>3
      <3> QED BY <2>1, <3>1 DEF QnaInv, PaidOnce, Statuses
    <2> QED BY <2>2, <2>3 DEF QnaInv, PaidOnce
  <1>3. \A q \in Community : paid[q] = <<>>
    BY DEF QnaInv, PaidOnce
  <1>4. tickets = BundleSize * bundles - Count("ticket") /\ tickets \in Nat
        /\ credits = StartCredits - BundlePrice * bundles - QuestionFee * Count("credit")
        /\ credits \in Nat
    BY DEF QnaInv, WalletBalances, QnaTypeOK
  <1>5. Count("ticket") + Count("credit") > 0 => FreeUsed >= FreeQuota
    BY <1>1 DEF QnaInv, FreeFirst
  <1> QED BY <1>2, <1>3, <1>4, <1>5 DEF QuestionsSettled

\* While nothing is paid the counts stay.
LEMMA CountsStay ==
    ASSUME QnaInv, UNCHANGED wallet, QnaTypeOK', PaidOnce',
           \A c \in QnaCalls : qnaCall'[c].do = "escalate" =>
              qnaCall'[c] = qnaCall[c] \/ qnaCall'[c].free = (FreeLeft > 0)
    PROVE  QnaInv'
  <1>1. \A by \in Means : PaidBy(by)' = PaidBy(by) /\ Count(by)' = Count(by)
    BY DEF PaidBy, Count, wallet
  <1>2. WalletBalances'
    BY <1>1 DEF QnaInv, WalletBalances, wallet, Means
  <1>3. ~(FreeLeft > 0) => Count("free") >= FreeQuota
    BY PaidCounts, QnaAssumption DEF FreeLeft, Means
  <1>4. FreeFirst'
    BY <1>1, <1>3 DEF QnaInv, FreeFirst, Means
  <1> QED BY <1>2, <1>4 DEF QnaInv

\* Reading, writing and accepting pay nothing and mark nothing free.
LEMMA FreeOfCharge ==
    ASSUME QnaInv, ReadStep \/ PlainStep \/ \E q \in Questions, t \in Teachers : AcceptStep(q, t)
    PROVE  QnaInv'
  <1>1. QnaTypeOK'
    BY DEF QnaInv, QnaTypeOK, ReadStep, PlainStep, AcceptStep, WriteStep, wallet
  <1>2. CASE ReadStep
    <2>1. PaidOnce'
      BY <1>2 DEF QnaInv, PaidOnce, ReadStep, wallet, Unwritten
    <2> QED BY <1>1, <1>2, <2>1, CountsStay DEF ReadStep
  <1>3. CASE WriteStep
    <2>1. \A q \in Questions : post[q] \in PostRows /\ post'[q] \in PostRows
      BY <1>3 DEF QnaInv, QnaTypeOK, WriteStep
    <2>2. \A q \in Questions : RowStep(q) /\ (post[q].status = "ai_pending" => post'[q].status # "open")
      BY <1>3 DEF WriteStep
    <2>3. paid' = paid
      BY <1>3 DEF WriteStep, wallet
    <2>4. \A q \in Questions : (post'[q].free <=> post[q].free) /\ Unwritten(q)'
      BY <2>1, <2>2 DEF QnaInv, PaidOnce, RowStep, Unwritten, PostRows, Unassigned
    <2>5. \A q \in Questions \ Community :
             /\ post'[q].status \in {"absent", "ai_pending"} => post[q].status \in {"absent", "ai_pending"}
             /\ post'[q].status = "open" => post[q].status = "open"
      BY <2>1, <2>2 DEF RowStep, PostRows
    <2>6. \A q \in Community : post'[q].status = "ai_pending" => post[q].status = "ai_pending"
      BY <2>1, <2>2, QnaAssumption DEF RowStep, PostRows
    <2>7. PaidOnce'
      BY <2>3, <2>4, <2>5, <2>6, QnaAssumption DEF QnaInv, PaidOnce
    <2> QED BY <1>1, <1>3, <2>7, CountsStay DEF WriteStep
  <1> QED BY <1>2, <1>3 DEF PlainStep, AcceptStep

\* Buying tickets takes their price.
LEMMA BundleIsBought ==
    ASSUME QnaInv, PurchaseTickets
    PROVE  QnaInv'
  <1>1. {BundleSize, BundlePrice} \subseteq Nat /\ tickets \in Nat /\ credits \in Nat
    BY QnaAssumption DEF QnaInv, QnaTypeOK
  <1>2. bundles = 0 /\ bundles' = 1 /\ tickets' = tickets + BundleSize
        /\ credits' = credits - BundlePrice /\ credits >= BundlePrice
        /\ UNCHANGED <<post, answers, accepted, paid, qnaCall>>
    BY DEF PurchaseTickets, QnaInv, QnaTypeOK
  <1>3. \A by \in Means : PaidBy(by)' = PaidBy(by) /\ Count(by)' = Count(by) /\ Count(by) \in Nat
    BY <1>2, PaidCounts DEF PaidBy, Count
  <1>4. QnaTypeOK'
    BY <1>1, <1>2 DEF QnaInv, QnaTypeOK
  <1>5. WalletBalances'
    <2> DEFINE spent == QuestionFee * Count("credit")
    <2>1. spent' = spent /\ spent \in Int
      BY <1>3, QnaAssumption DEF Means
    <2>2. tickets = 0 - Count("ticket") /\ credits = StartCredits - 0 - spent
      BY <1>1, <1>2 DEF QnaInv, WalletBalances
    <2> HIDE DEF spent
    <2>3. tickets' = BundleSize - Count("ticket") /\ credits' = StartCredits - BundlePrice - spent
      BY <1>1, <1>2, <1>3, <2>1, <2>2, QnaAssumption DEF Means
    <2>4. BundleSize * 1 = BundleSize /\ BundlePrice * 1 = BundlePrice
      BY <1>1
    <2>5. \A by \in Means : IsFiniteSet(PaidBy(by))'
      BY <1>3 DEF QnaInv, WalletBalances
    <2> QED BY <1>2, <1>3, <2>1, <2>3, <2>4, <2>5 DEF WalletBalances, Means, spent
  <1>6. PaidOnce' /\ FreeFirst'
    BY <1>2, <1>3 DEF QnaInv, PaidOnce, FreeFirst, Unwritten, Means
  <1> QED BY <1>4, <1>5, <1>6 DEF QnaInv

\* An escalation that commits pays once, for a question that was not paid.
LEMMA EscalationPays ==
    ASSUME QnaInv, NEW c \in QnaCalls, CommitEscalate(c)
    PROVE  QnaInv' /\ UNCHANGED <<answers, accepted>>
           /\ \A q \in Questions : RowStep(q)
  <1> DEFINE q == qnaCall[c].q
             free == qnaCall[c].free
             by == IF free THEN "free" ELSE IF tickets > 0 THEN "ticket" ELSE "credit"
             Pays == StillPending(q) /\ (by = "credit" => credits >= QuestionFee)
  <1>1. q \in Questions /\ free \in BOOLEAN /\ qnaCall[c].do = "escalate"
    BY CallShape DEF CommitEscalate, QnaInv
  <1>2. /\ qnaCall' \in [QnaCalls -> CallRecords]
        /\ \A d \in QnaCalls : qnaCall'[d].do = "escalate" => qnaCall'[d] = qnaCall[d]
    BY EndedStep DEF CommitEscalate, QnaInv
  <1>3. CASE ~Pays
    <2>1. UNCHANGED <<post, tickets, credits, paid, answers, accepted, bundles>>
      BY <1>3 DEF CommitEscalate
    <2>2. QnaTypeOK' /\ PaidOnce'
      BY <1>2, <2>1 DEF QnaInv, QnaTypeOK, PaidOnce, Unwritten
    <2> QED BY <1>2, <2>1, <2>2, CountsStay DEF wallet, RowStep
  <1>4. CASE Pays
    <2>1. /\ post' = [post EXCEPT ![q].status = "open", ![q].free = free]
          /\ tickets' = IF by = "ticket" THEN tickets - 1 ELSE tickets
          /\ credits' = IF by = "credit" THEN credits - QuestionFee ELSE credits
          /\ paid' = [paid EXCEPT ![q] = Append(@, by)]
          /\ UNCHANGED <<answers, accepted, bundles>>
      BY <1>4 DEF CommitEscalate
    <2>2. post[q].status = "ai_pending" /\ (by = "credit" => credits >= QuestionFee)
      BY <1>4 DEF StillPending
    <2> HIDE DEF q
    <2>3. by \in Means /\ (by = "ticket" => tickets > 0) /\ (by = "free" <=> free)
      BY <1>1 DEF Means
    <2>4. q \notin Community /\ paid[q] = <<>> /\ ~post[q].free
      BY <1>1, <2>2 DEF QnaInv, PaidOnce
    <2>5. post' \in [Questions -> PostRows] /\ post'[q].status = "open" /\ post'[q].free = free
          /\ post'[q].owner = post[q].owner /\ \A o \in Questions \ {q} : post'[o] = post[o]
      <3>1. post \in [Questions -> PostRows] /\ q \in Questions /\ free \in BOOLEAN
        BY <1>1 DEF QnaInv, QnaTypeOK
      <3> HIDE DEF free
      <3>2. post[q] \in PostRows
        BY <3>1
      <3>3. [post[q] EXCEPT !.status = "open", !.free = free] \in PostRows
        BY <3>1, <3>2 DEF PostRows, Statuses
      <3>4. post' = [post EXCEPT ![q] = [post[q] EXCEPT !.status = "open", !.free = free]]
        BY <2>1
      <3> QED BY <3>1, <3>2, <3>3, <3>4 DEF PostRows
    <2> HIDE DEF free
    <2>a. ~free => Count("free") >= FreeQuota
      BY <1>1 DEF QnaInv, FreeFirst, free
    <2> HIDE DEF by
    <2>6. paid' \in [Questions -> Seq(Means)] /\ paid'[q] = <<by>>
          /\ \A o \in Questions \ {q} : paid'[o] = paid[o]
      BY <1>1, <2>1, <2>3, <2>4 DEF QnaInv, QnaTypeOK
    <2>7. \A o \in Questions : RowStep(o)
      BY <2>2, <2>5 DEF RowStep
    <2>8. PaidOnce'
      <3>1. <<by>> \in {<<>>, <<"free">>, <<"ticket">>, <<"credit">>} /\ <<by>> # <<>>
            /\ (<<by>> = <<"free">> <=> by = "free")
        BY <2>3 DEF Means
      <3>2. \A o \in Questions \ Community :
               /\ paid'[o] \in {<<>>, <<"free">>, <<"ticket">>, <<"credit">>}
               /\ post'[o].status \in {"absent", "ai_pending"} => paid'[o] = <<>>
               /\ post'[o].status = "open" => paid'[o] # <<>>
        BY <2>5, <2>6, <3>1 DEF QnaInv, PaidOnce
      <3>3. \A o \in Community : paid'[o] = <<>> /\ post'[o].status # "ai_pending"
        BY <2>4, <2>5, <2>6, QnaAssumption DEF QnaInv, PaidOnce
      <3>4. \A o \in Questions : post'[o].free <=> paid'[o] = <<"free">>
        BY <2>3, <2>5, <2>6, <3>1 DEF QnaInv, PaidOnce
      <3>5. \A o \in Questions : Unwritten(o)'
        BY <2>5 DEF QnaInv, PaidOnce, Unwritten
      <3> QED BY <3>2, <3>3, <3>4, <3>5 DEF PaidOnce
    <2>9. \A m \in Means : PaidBy(m)' = IF m = by THEN PaidBy(m) \cup {q} ELSE PaidBy(m)
      <3> TAKE m \in Means
      <3>1. \A o \in Questions \ {q} : o \in PaidBy(m)' <=> o \in PaidBy(m)
        BY <2>6 DEF PaidBy
      <3>2. q \in PaidBy(m)' <=> m = by
        BY <1>1, <2>6 DEF PaidBy
      <3>3. q \notin PaidBy(m)
        BY <2>4 DEF PaidBy
      <3> QED BY <1>1, <3>1, <3>2, <3>3 DEF PaidBy
    <2>10. q \notin PaidBy(by)
      BY <2>4 DEF PaidBy
    <2>11. \A m \in Means : /\ IsFiniteSet(PaidBy(m))'
                            /\ Count(m)' = IF m = by THEN Count(m) + 1 ELSE Count(m)
                            /\ Count(m) \in Nat
      <3> TAKE m \in Means
      <3>1. IsFiniteSet(PaidBy(m)) /\ Count(m) = Cardinality(PaidBy(m)) /\ Count(m) \in Nat
        BY PaidCounts DEF QnaInv, WalletBalances
      <3>2. Count(m)' = Cardinality(PaidBy(m)')
        BY DEF Count, PaidBy
      <3> QED BY <2>9, <2>10, <3>1, <3>2, FS_AddElement
    <2>12. QuestionFee \in Nat /\ tickets \in Nat /\ credits \in Nat
      BY QnaAssumption DEF QnaInv, QnaTypeOK
    <2>13. tickets' \in Nat /\ credits' \in Nat
      BY <2>1, <2>2, <2>3, <2>12
    <2>14. QnaTypeOK'
      BY <1>2, <2>1, <2>5, <2>6, <2>13 DEF QnaInv, QnaTypeOK
    <2>15. WalletBalances'
      <3> DEFINE bought == BundleSize * bundles
                 price == BundlePrice * bundles
      <3>1. bought' = bought /\ price' = price /\ bought \in Int /\ price \in Int
            /\ StartCredits \in Nat
        BY <2>1, QnaAssumption DEF QnaInv, QnaTypeOK
      <3>2. tickets = bought - Count("ticket")
            /\ credits = StartCredits - price - QuestionFee * Count("credit")
        BY DEF QnaInv, WalletBalances
      <3> HIDE DEF bought, price
      <3>3. tickets' = bought - Count("ticket")'
        BY <2>1, <2>11, <2>12, <3>1, <3>2 DEF Means
      <3>4. credits' = StartCredits - price - QuestionFee * Count("credit")'
        <4>1. QuestionFee * (Count("credit") + 1) = QuestionFee * Count("credit") + QuestionFee
              /\ QuestionFee * Count("credit") \in Int
          BY <2>11, <2>12 DEF Means
        <4>2. CASE by = "credit"
          <5>1. Count("credit")' = Count("credit") + 1 /\ credits' = credits - QuestionFee
            BY <2>1, <2>11, <4>2 DEF Means
          <5> QED BY <2>12, <3>1, <3>2, <4>1, <5>1
        <4>3. CASE by # "credit"
          BY <2>1, <2>11, <3>2, <4>3 DEF Means
        <4> QED BY <4>2, <4>3
      <3> QED BY <2>11, <3>1, <3>3, <3>4 DEF WalletBalances, bought, price
    <2>16. FreeFirst'
      <3>1. Count("free")' >= Count("free") /\ Count("free")' \in Nat /\ Count("free") \in Nat
            /\ FreeQuota \in Nat
        BY <2>11, QnaAssumption DEF Means
      <3>2. CASE free
        <4>1. Count("ticket")' = Count("ticket") /\ Count("credit")' = Count("credit")
          BY <2>3, <2>11, <3>2 DEF Means
        <4> QED BY <1>2, <3>1, <4>1 DEF QnaInv, FreeFirst
      <3>3. CASE ~free
        BY <2>a, <3>1, <3>3 DEF FreeFirst
      <3> QED BY <3>2, <3>3
    <2> QED BY <2>1, <2>7, <2>8, <2>14, <2>15, <2>16 DEF QnaInv
  <1> QED BY <1>3, <1>4

\* The week begins with nothing asked, nothing bought and nothing paid.
LEMMA QnaStarts ==
    ASSUME QnaInit
    PROVE  QnaInv /\ accepted = {}
  <1>1. NewPost("absent", "open", None) \in PostRows
        /\ NewPost("absent", "open", None).status = "absent"
        /\ NewPost("absent", "open", None).owner = None /\ ~NewPost("absent", "open", None).free
    BY DEF NewPost, PostRows, Statuses
  <1>2. \A q \in Questions : post[q] = NewPost("absent", "open", None) /\ paid[q] = <<>>
    BY DEF QnaInit
  <1>3. post \in [Questions -> PostRows]
    BY <1>1 DEF QnaInit
  <1>4. QnaTypeOK
    BY <1>3, QnaAssumption DEF QnaInit, QnaTypeOK, CallRecords, Idle
  <1>5. PaidOnce
    BY <1>1, <1>2, QnaAssumption DEF PaidOnce, Unwritten
  <1>6. \A by \in Means : PaidBy(by) = {} /\ Count(by) = 0 /\ IsFiniteSet(PaidBy(by))
    <2> TAKE by \in Means
    <2>1. <<>> # <<by>>
      OBVIOUS
    <2>2. PaidBy(by) = {}
      BY <1>2, <2>1 DEF PaidBy
    <2> QED BY <2>2, FS_EmptySet DEF PaidBy, Count
  <1>7. bundles = 0 /\ tickets = 0 /\ credits = StartCredits
    BY DEF QnaInit
  <1>8. BundleSize * 0 = 0 /\ BundlePrice * 0 = 0 /\ QuestionFee * 0 = 0 /\ StartCredits \in Nat
    BY QnaAssumption
  <1>9. WalletBalances
    BY <1>6, <1>7, <1>8 DEF WalletBalances, Means
  <1>10. FreeFirst
    BY <1>6 DEF FreeFirst, QnaInit, Idle, Means
  <1> QED BY <1>4, <1>5, <1>9, <1>10 DEF QnaInv, QnaInit

\* Every step keeps the account of the questions.
LEMMA QnaStep ==
    ASSUME QnaInv, [QnaNext]_qnaVars
    PROVE  QnaInv'
  <1>1. CASE UNCHANGED qnaVars
    <2>1. UNCHANGED <<post, answers, accepted, tickets, credits, paid, bundles, qnaCall>>
      BY <1>1 DEF qnaVars, wallet
    <2>2. QnaTypeOK' /\ PaidOnce'
      BY <2>1 DEF QnaInv, QnaTypeOK, PaidOnce, Unwritten
    <2> QED BY <2>1, <2>2, CountsStay DEF wallet
  <1>2. QnaTypeOK
    BY DEF QnaInv
  <1> QED BY <1>1, <1>2, AskStep, TeachStep, FreeOfCharge, BundleIsBought, EscalationPays
          DEF QnaNext

\* Every question that reached the teachers is paid for once, out of the wallet and not
\* before the free ones are used (escalateToHuman).
THEOREM QuestionsAlwaysSettled == QnaSpec => []QuestionsSettled
  <1>1. QnaInit => QnaInv
    BY QnaStarts
  <1>2. QnaInv /\ [QnaNext]_qnaVars => QnaInv'
    BY QnaStep
  <1> QED BY <1>1, <1>2, QuestionsAreSettled, PTL DEF QnaSpec

(****************************************************************************)
(* One accepted answer, and who has a question.                             *)
(****************************************************************************)
\* A step that is neither a purchase nor a read changes each row in one of a few ways.
LEMMA RowsMove ==
    ASSUME QnaInv, [QnaNext]_qnaVars
    PROVE  /\ \A q \in Questions : RowStep(q)
           /\ accepted' = accepted \/ \E q \in Questions, t \in Teachers : AcceptStep(q, t)
  <1>1. CASE post' = post /\ accepted' = accepted
    BY <1>1 DEF RowStep
  <1>2. QnaTypeOK
    BY DEF QnaInv
  <1> QED BY <1>1, <1>2, AskStep, TeachStep, EscalationPays
          DEF QnaNext, ReadStep, PlainStep, AcceptStep, WriteStep, PurchaseTickets, qnaVars

\* An accepted answer is the only one of its question, which is closed.
AcceptedOnce ==
    \A q \in Questions, t \in Teachers : <<q, t>> \in accepted =>
        /\ post[q].status = "resolved"
        /\ \A u \in Teachers : <<q, u>> \in accepted => t = u

\* A set with no two members counts at most one.
LEMMA AtMostOne ==
    ASSUME NEW S, \A x, y \in S : x = y
    PROVE  Cardinality(S) <= 1
  <1>1. CASE S = {}
    BY <1>1, FS_EmptySet
  <1>2. ASSUME NEW x \in S PROVE Cardinality(S) <= 1
    <2>1. S = {x}
      BY <1>2
    <2> QED BY <2>1, FS_Singleton
  <1> QED BY <1>1, <1>2

\* The student accepts at most one answer to a question (acceptAnswer).
THEOREM OneAnswerAccepted == QnaSpec => []OneAcceptedAnswer
  <1>1. QnaInit => QnaInv /\ AcceptedOnce
    BY QnaStarts DEF AcceptedOnce
  <1>2. QnaInv /\ AcceptedOnce /\ [QnaNext]_qnaVars => (QnaInv /\ AcceptedOnce)'
    <2> SUFFICES ASSUME QnaInv, AcceptedOnce, [QnaNext]_qnaVars PROVE AcceptedOnce'
      BY QnaStep
    <2>1. \A q \in Questions : post[q].status = "resolved" => post'[q].status = "resolved"
      BY RowsMove DEF RowStep
    <2>2. CASE accepted' = accepted
      BY <2>1, <2>2 DEF AcceptedOnce
    <2>3. ASSUME NEW q \in Questions, NEW t \in Teachers, AcceptStep(q, t) PROVE AcceptedOnce'
      BY <2>1, <2>3 DEF AcceptedOnce, AcceptStep
    <2> QED BY <2>2, <2>3, RowsMove
  <1>3. QnaInv /\ AcceptedOnce => OneAcceptedAnswer
    <2> SUFFICES ASSUME QnaInv, AcceptedOnce, NEW q \in Questions
                 PROVE  /\ Cardinality({a \in accepted : a[1] = q}) <= 1
                        /\ (\E a \in accepted : a[1] = q) => post[q].status = "resolved"
      BY DEF OneAcceptedAnswer
    <2>1. accepted \subseteq Questions \X Teachers
      BY DEF QnaInv, QnaTypeOK
    <2>2. \A a, b \in {x \in accepted : x[1] = q} : a = b
      BY <2>1 DEF AcceptedOnce
    <2> QED BY <2>1, <2>2, AtMostOne DEF AcceptedOnce
  <1> QED BY <1>1, <1>2, <1>3, PTL DEF QnaSpec

\* A question leaves the teacher who has it only by being free again (claimQuestion and
\* the sweep).
THEOREM NobodyTakesAQuestion == QnaSpec => KeptUntilReleased
  <1>1. QnaInit => QnaInv
    BY QnaStarts
  <1>2. QnaInv /\ [QnaNext]_qnaVars => QnaInv'
    BY QnaStep
  <1>3. QnaInv /\ [QnaNext]_qnaVars =>
           [\A q \in Questions : post[q].owner # None /\ post'[q].status # "absent" =>
               post'[q].owner \in {post[q].owner, None}]_qnaVars
    BY RowsMove DEF RowStep, Unassigned, QnaInv, PaidOnce, Unwritten
  <1> QED BY <1>1, <1>2, <1>3, PTL DEF QnaSpec, KeptUntilReleased

(****************************************************************************)
(* The community board.                                                     *)
(****************************************************************************)
ReplyRecords == [at : {"absent", "checking", "written"}, author : Authors \cup {""},
                 accepted : BOOLEAN]

BoardTypeOK ==
    /\ reply \in [Replies -> ReplyRecords]
    /\ \A a \in Replies : reply[a].accepted => board = "resolved"
    /\ \A a, b \in Replies : reply[a].accepted /\ reply[b].accepted => a = b

\* The answers of an author that are visible, or will be, and were checked alone.
Shown(u) == {a \in Replies : /\ reply[a].author = u /\ a \notin besides
                             /\ \/ reply[a].at = "checking"
                                \/ reply[a].at = "written" /\ ~hidden[a]}

OneShown == \A u \in Authors : \A a, b \in Shown(u) : a = b

\* The step of an answer: it is begun by an author with no other, written, accepted, or
\* as it was.
ReplyStep ==
    \/ UNCHANGED boardVars
    \/ \E a \in Replies, u \in Authors : ReadQuestion(a, u)
    \/ \E a \in Replies : CreateReply(a) \/ AcceptReply(a)

\* Hidden is hidden.
HiddenStay == \A x \in Targets : hidden[x] => hidden'[x]

\* One answer is accepted and closes the question.
LEMMA BoardTypes ==
    ASSUME BoardTypeOK, ReplyStep
    PROVE  BoardTypeOK'
  <1>1. CASE UNCHANGED boardVars
    BY <1>1 DEF BoardTypeOK, boardVars
  <1>2. ASSUME NEW a \in Replies, NEW u \in Authors, ReadQuestion(a, u) PROVE BoardTypeOK'
    <2> DEFINE row == [reply[a] EXCEPT !.at = "checking", !.author = u]
    <2>1. row \in ReplyRecords /\ row.accepted = reply[a].accepted
      BY DEF BoardTypeOK, ReplyRecords
    <2>2. reply' = [reply EXCEPT ![a] = row]
      BY <1>2 DEF ReadQuestion, BoardTypeOK
    <2> HIDE DEF row
    <2> QED BY <1>2, <2>1, <2>2 DEF BoardTypeOK, ReadQuestion
  <1>3. ASSUME NEW a \in Replies, CreateReply(a) PROVE BoardTypeOK'
    <2> DEFINE row == [reply[a] EXCEPT !.at = "written"]
    <2>1. row \in ReplyRecords /\ row.accepted = reply[a].accepted
      BY DEF BoardTypeOK, ReplyRecords
    <2>2. reply' = [reply EXCEPT ![a] = row]
      BY <1>3 DEF CreateReply
    <2> HIDE DEF row
    <2> QED BY <1>3, <2>1, <2>2 DEF BoardTypeOK, CreateReply
  <1>4. ASSUME NEW a \in Replies, AcceptReply(a) PROVE BoardTypeOK'
    <2> DEFINE row == [reply[a] EXCEPT !.accepted = TRUE]
    <2>1. row \in ReplyRecords
      BY DEF BoardTypeOK, ReplyRecords
    <2>2. reply' = [reply EXCEPT ![a] = row] /\ board = "open" /\ board' = "resolved"
      BY <1>4 DEF AcceptReply, BoardOpen
    <2>3. \A b \in Replies : ~reply[b].accepted
      BY <2>2 DEF BoardTypeOK
    <2> HIDE DEF row
    <2>4. reply' \in [Replies -> ReplyRecords] /\ \A b \in Replies \ {a} : reply'[b] = reply[b]
      BY <2>1, <2>2 DEF BoardTypeOK
    <2> QED BY <2>2, <2>3, <2>4 DEF BoardTypeOK
  <1> QED BY <1>1, <1>2, <1>3, <1>4 DEF ReplyStep

\* An author has one answer on show: he begins another only when the ones written are
\* hidden, and one begun while another is checked is set apart.
LEMMA OneShownStays ==
    ASSUME BoardTypeOK, OneShown, ReplyStep, HiddenStay
    PROVE  OneShown'
  <1>1. ASSUME \A u \in Authors : Shown(u)' \subseteq Shown(u) PROVE OneShown'
    BY <1>1 DEF OneShown
  <1>2. Replies \subseteq Targets
    BY DEF Targets
  <1>3. CASE UNCHANGED boardVars
    BY <1>1, <1>2, <1>3 DEF Shown, boardVars, HiddenStay
  <1>4. ASSUME NEW a \in Replies, NEW v \in Authors, ReadQuestion(a, v) PROVE OneShown'
    <2>1. \A b \in Replies \ {a} : reply'[b] = reply[b]
      BY <1>4 DEF ReadQuestion, BoardTypeOK
    <2>2. reply'[a].author = v
      BY <1>4 DEF ReadQuestion, BoardTypeOK, ReplyRecords
    <2>3. besides \subseteq besides' /\ \A b \in RepliesOf(v, "written") : hidden[b]
      BY <1>4 DEF ReadQuestion
    <2>4. ASSUME NEW u \in Authors, u # v PROVE Shown(u)' \subseteq Shown(u)
      BY <1>2, <2>1, <2>2, <2>3, <2>4 DEF Shown, HiddenStay
    <2>5. CASE RepliesOf(v, "checking") = {}
      <3>1. Shown(v)' \subseteq {a}
        BY <1>2, <2>1, <2>3, <2>5 DEF Shown, HiddenStay, RepliesOf
      <3> QED BY <2>4, <3>1 DEF OneShown
    <2>6. CASE RepliesOf(v, "checking") # {}
      <3>1. besides' = besides \cup {a} \cup RepliesOf(v, "checking")
        BY <1>4, <2>6 DEF ReadQuestion
      <3>2. Shown(v)' = {}
        BY <1>2, <2>1, <2>3, <3>1 DEF Shown, HiddenStay, RepliesOf
      <3> QED BY <2>4, <3>2 DEF OneShown
    <2> QED BY <2>5, <2>6
  <1>5. ASSUME NEW a \in Replies, CreateReply(a) \/ AcceptReply(a) PROVE OneShown'
    <2>1. \A b \in Replies \ {a} : reply'[b] = reply[b]
      BY <1>5 DEF CreateReply, AcceptReply, BoardTypeOK
    <2>2. reply'[a].author = reply[a].author /\ besides' = besides
          /\ (reply[a].at = "checking" \/ reply'[a].at = reply[a].at)
      BY <1>5 DEF CreateReply, AcceptReply, BoardTypeOK, ReplyRecords
    <2>3. reply[a].at \in {"checking", "written"}
      BY <1>5 DEF CreateReply, AcceptReply, Written
    <2>4. \A u \in Authors : Shown(u)' \subseteq Shown(u)
      BY <1>2, <2>1, <2>2, <2>3 DEF Shown, HiddenStay
    <2> QED BY <1>1, <2>4
  <1> QED BY <1>3, <1>4, <1>5 DEF ReplyStep

(****************************************************************************)
(* The questions of a day.                                                  *)
(****************************************************************************)
AskingNow == {p \in Posters : poster[p].at # "ready"}
CountingNow == {p \in Posters : poster[p].at = "count"}

\* Every question is counted, is being counted, or was not; and the counter was below
\* the limit when each request under way read it, if it could be read.
AskedInv ==
    /\ poster \in [Posters -> [at : {"ready", "create", "count"}]]
    /\ asked \in Nat /\ counted \in Nat /\ uncounted \in Nat /\ unlimited \in Nat
    /\ asked = counted + Cardinality(CountingNow) + uncounted
    /\ counted + Cardinality(AskingNow) <= DailyLimit + unlimited + Cardinality(Posters) - 1

\* The requests under way are some of all.
LEMMA AskingCounts ==
    ASSUME AskedInv
    PROVE  /\ IsFiniteSet(AskingNow) /\ IsFiniteSet(CountingNow)
           /\ Cardinality(AskingNow) \in Nat /\ Cardinality(CountingNow) \in Nat
           /\ Cardinality(Posters) \in Nat /\ Cardinality(AskingNow) <= Cardinality(Posters)
           /\ Cardinality(CountingNow) <= Cardinality(AskingNow)
  <1>1. CountingNow \subseteq AskingNow /\ AskingNow \subseteq Posters /\ IsFiniteSet(Posters)
    BY CommunityAssumption DEF AskingNow, CountingNow
  <1>2. IsFiniteSet(AskingNow) /\ Cardinality(AskingNow) <= Cardinality(Posters)
    BY <1>1, FS_Subset
  <1>3. IsFiniteSet(CountingNow) /\ Cardinality(CountingNow) <= Cardinality(AskingNow)
    BY <1>1, <1>2, FS_Subset
  <1> QED BY <1>1, <1>2, <1>3, FS_CardinalityType

\* What a request to ask does to the sets.
LEMMA PosterMoves ==
    ASSUME AskedInv, NEW p \in Posters, NEW place \in {"ready", "create", "count"},
           poster' = [poster EXCEPT ![p] = [at |-> place]]
    PROVE  /\ poster' \in [Posters -> [at : {"ready", "create", "count"}]]
           /\ AskingNow' = IF place = "ready" THEN AskingNow \ {p} ELSE AskingNow \cup {p}
           /\ CountingNow' = IF place = "count" THEN CountingNow \cup {p} ELSE CountingNow \ {p}
           /\ p \in AskingNow <=> poster[p].at # "ready"
           /\ p \in CountingNow <=> poster[p].at = "count"
  <1>1. poster \in [Posters -> [at : {"ready", "create", "count"}]]
    BY DEF AskedInv
  <1>2. poster'[p].at = place /\ \A o \in Posters \ {p} : poster'[o] = poster[o]
    BY <1>1
  <1> QED BY <1>1, <1>2 DEF AskingNow, CountingNow

\* A step of a request to ask keeps the account of the day.
LEMMA AskedStays ==
    ASSUME AskedInv, PostNext
    PROVE  AskedInv'
  <1>1. /\ IsFiniteSet(AskingNow) /\ IsFiniteSet(CountingNow)
        /\ Cardinality(AskingNow) \in Nat /\ Cardinality(CountingNow) \in Nat
        /\ Cardinality(Posters) \in Nat /\ DailyLimit \in Nat
    BY AskingCounts, CommunityAssumption
  <1>2. asked \in Nat /\ counted \in Nat /\ uncounted \in Nat /\ unlimited \in Nat
        /\ asked = counted + Cardinality(CountingNow) + uncounted
        /\ counted + Cardinality(AskingNow) <= DailyLimit + unlimited + Cardinality(Posters) - 1
    BY DEF AskedInv
  <1>7. CASE CounterIsLost
    <2>1. counted' = 0 /\ uncounted' = uncounted + counted
          /\ UNCHANGED <<asked, poster, unlimited>>
      BY <1>7 DEF CounterIsLost
    <2>2. AskingNow' = AskingNow /\ CountingNow' = CountingNow
      BY <2>1 DEF AskingNow, CountingNow
    <2> QED BY <1>1, <1>2, <2>1, <2>2 DEF AskedInv
  <1>8. SUFFICES ASSUME NEW p \in Posters,
                      \/ \E away \in BOOLEAN : ReadCounter(p, away)
                      \/ CreatePost(p) \/ CountPost(p) \/ CountIsLost(p) \/ PosterDies(p)
                 PROVE  AskedInv'
    BY <1>7 DEF PostNext
  <1>3. ASSUME NEW away \in BOOLEAN, ReadCounter(p, away) PROVE AskedInv'
    <2>1. /\ poster' = [poster EXCEPT ![p] = [at |-> "create"]] /\ poster[p].at = "ready"
          /\ IF away THEN unlimited' = unlimited + 1
                     ELSE counted < DailyLimit /\ unlimited' = unlimited
          /\ UNCHANGED <<asked, counted, uncounted>>
      BY <1>3 DEF ReadCounter, Ready, WithinDailyLimit
    <2>2. poster' \in [Posters -> [at : {"ready", "create", "count"}]]
          /\ AskingNow' = AskingNow \cup {p} /\ CountingNow' = CountingNow \ {p}
          /\ p \notin AskingNow /\ p \notin CountingNow
      BY <2>1, PosterMoves
    <2>3. Cardinality(CountingNow') = Cardinality(CountingNow)
      BY <1>1, <2>2, FS_RemoveElement
    <2>4. Cardinality(AskingNow') <= Cardinality(Posters)
          /\ Cardinality(AskingNow') = Cardinality(AskingNow) + 1
      <3>1. AskingNow' \subseteq Posters /\ IsFiniteSet(Posters)
        BY <2>2, CommunityAssumption DEF AskingNow
      <3> QED BY <1>1, <2>2, <3>1, FS_Subset, FS_AddElement
    <2>5. counted + Cardinality(AskingNow') <= DailyLimit + unlimited' + Cardinality(Posters) - 1
      <3>1. CASE away
        BY <1>1, <1>2, <2>1, <2>4, <3>1
      <3>2. CASE ~away
        BY <1>1, <1>2, <2>1, <2>4, <3>2
      <3> QED BY <3>1, <3>2
    <2>6. unlimited' \in Nat /\ asked' = counted' + Cardinality(CountingNow') + uncounted'
      BY <1>1, <1>2, <2>1, <2>3
    <2> QED BY <1>2, <2>1, <2>2, <2>5, <2>6 DEF AskedInv
  <1>4. CASE CreatePost(p)
    <2>1. poster' = [poster EXCEPT ![p] = [at |-> "count"]] /\ poster[p].at = "create"
          /\ asked' = asked + 1 /\ UNCHANGED <<counted, uncounted, unlimited>>
      BY <1>4 DEF CreatePost
    <2>2. poster' \in [Posters -> [at : {"ready", "create", "count"}]]
          /\ AskingNow' = AskingNow \cup {p} /\ CountingNow' = CountingNow \cup {p}
          /\ p \in AskingNow /\ p \notin CountingNow
      BY <2>1, PosterMoves
    <2>3. Cardinality(CountingNow') = Cardinality(CountingNow) + 1
      BY <1>1, <2>2, FS_AddElement
    <2>4. AskingNow' = AskingNow
      BY <2>2
    <2>5. asked' \in Nat /\ asked' = counted' + Cardinality(CountingNow') + uncounted'
      BY <1>1, <1>2, <2>1, <2>3
    <2> QED BY <1>2, <2>1, <2>2, <2>4, <2>5 DEF AskedInv
  <1>5. CASE CountPost(p)
    <2>1. poster' = [poster EXCEPT ![p] = [at |-> "ready"]] /\ poster[p].at = "count"
          /\ counted' = counted + 1 /\ UNCHANGED <<asked, uncounted, unlimited>>
      BY <1>5 DEF CountPost, Ready
    <2>2. poster' \in [Posters -> [at : {"ready", "create", "count"}]]
          /\ AskingNow' = AskingNow \ {p} /\ CountingNow' = CountingNow \ {p}
          /\ p \in AskingNow /\ p \in CountingNow
      BY <2>1, PosterMoves
    <2>3. Cardinality(CountingNow') = Cardinality(CountingNow) - 1
          /\ Cardinality(AskingNow') = Cardinality(AskingNow) - 1
      BY <1>1, <2>2, FS_RemoveElement
    <2> QED BY <1>1, <1>2, <2>1, <2>2, <2>3 DEF AskedInv
  <1>6. CASE PosterDies(p) \/ CountIsLost(p)
    <2>1. poster' = [poster EXCEPT ![p] = [at |-> "ready"]]
          /\ uncounted' = (IF poster[p].at = "count" THEN uncounted + 1 ELSE uncounted)
          /\ UNCHANGED <<asked, counted, unlimited>>
      BY <1>6 DEF PosterDies, CountIsLost, Ready
    <2>2. poster' \in [Posters -> [at : {"ready", "create", "count"}]]
          /\ AskingNow' = AskingNow \ {p} /\ CountingNow' = CountingNow \ {p}
          /\ (p \in CountingNow <=> poster[p].at = "count")
      BY <2>1, PosterMoves
    <2>3. Cardinality(CountingNow') = IF p \in CountingNow THEN Cardinality(CountingNow) - 1
                                                           ELSE Cardinality(CountingNow)
      BY <1>1, <2>2, FS_RemoveElement
    <2>4. Cardinality(AskingNow') <= Cardinality(AskingNow) /\ Cardinality(AskingNow') \in Nat
      <3>1. AskingNow' \subseteq AskingNow
        BY <2>2
      <3> QED BY <1>1, <3>1, FS_Subset, FS_CardinalityType
    <2> QED BY <1>1, <1>2, <2>1, <2>2, <2>3, <2>4 DEF AskedInv
  <1> QED BY <1>3, <1>4, <1>5, <1>6, <1>8

(****************************************************************************)
(* Reports hide what they are of.                                           *)
(****************************************************************************)
ReporterRecords == [at : {"ready"}] \cup [at : {"raise", "hide"}, of : Targets]

Rows(x) == {row \in reportRows : row[1] = x}
RaisingNow(x) == {r \in Reporters : reporter[r].at = "raise" /\ reporter[r].of = x}
HidingNow(x) == {r \in Reporters : reporter[r].at = "hide" /\ reporter[r].of = x}
ReportingNow(x) == {r \in Reporters : reporter[r] # Ready /\ reporter[r].of = x}

ReportTypeOK ==
    /\ hidden \in [Targets -> BOOLEAN]
    /\ reports \in [Targets -> Nat] /\ unraised \in [Targets -> Nat]
    /\ reporter \in [Reporters -> ReporterRecords]
    /\ IsFiniteSet(reportRows)

\* The counter lags behind the rows by the reports that are to raise it and by those that
\* were cut short; the one that brings it to the threshold hides.
CountsUp(x) ==
    /\ Reported(x) - Cardinality(RaisingNow(x)) - unraised[x] <= reports[x]
    /\ reports[x] + Cardinality(RaisingNow(x)) <= Reported(x)
    /\ HidingNow(x) # {} \/ hidden[x] => Reported(x) >= HideAt
    /\ Reported(x) - Underway(x) - unraised[x] >= HideAt => hidden[x]

ReportInv == ReportTypeOK /\ \A x \in Targets : CountsUp(x)

\* The reports of a target and the requests about it can be counted.
Counted(x) ==
    /\ Reported(x) = Cardinality(Rows(x)) /\ Underway(x) = Cardinality(ReportingNow(x))
    /\ IsFiniteSet(Rows(x)) /\ IsFiniteSet(RaisingNow(x)) /\ IsFiniteSet(ReportingNow(x))
    /\ Reported(x) \in Nat /\ Underway(x) \in Nat /\ Cardinality(RaisingNow(x)) \in Nat
    /\ Cardinality(RaisingNow(x)) <= Underway(x)
    /\ ReportingNow(x) = RaisingNow(x) \cup HidingNow(x)

\* They are finitely many, now
LEMMA ReportCounts == ReportTypeOK => \A x \in Targets : Counted(x)
  <1> SUFFICES ASSUME ReportTypeOK, NEW x \in Targets PROVE Counted(x)
    OBVIOUS
  <1>1. Reported(x) = Cardinality(Rows(x)) /\ Underway(x) = Cardinality(ReportingNow(x))
    BY DEF Reported, Rows, Underway, ReportingNow
  <1>2. IsFiniteSet(Rows(x))
    BY FS_Subset DEF ReportTypeOK, Rows
  <1>3. \A r \in Reporters : reporter[r].at \in {"ready", "raise", "hide"}
                             /\ (reporter[r] = Ready <=> reporter[r].at = "ready")
    BY DEF ReportTypeOK, ReporterRecords, Ready
  <1>4. RaisingNow(x) \subseteq ReportingNow(x) /\ ReportingNow(x) \subseteq Reporters
        /\ ReportingNow(x) = RaisingNow(x) \cup HidingNow(x)
    BY <1>3 DEF RaisingNow, ReportingNow, HidingNow
  <1>5. IsFiniteSet(ReportingNow(x))
    BY <1>4, FS_Subset, CommunityAssumption
  <1>6. IsFiniteSet(RaisingNow(x)) /\ Cardinality(RaisingNow(x)) <= Cardinality(ReportingNow(x))
    BY <1>4, <1>5, FS_Subset
  <1> QED BY <1>1, <1>2, <1>4, <1>5, <1>6, FS_CardinalityType DEF Counted

\* and after a step.
LEMMA ReportCountsNext == (ReportTypeOK => \A x \in Targets : Counted(x))'
  BY ReportCounts, PTL

\* A reporter's request moves from one set to the other.
LEMMA ReporterMoves ==
    ASSUME ReportTypeOK, NEW r \in Reporters, NEW to \in ReporterRecords,
           reporter' = [reporter EXCEPT ![r] = to]
    PROVE  /\ reporter' \in [Reporters -> ReporterRecords]
           /\ \A x \in Targets :
                 /\ RaisingNow(x)' = IF to.at = "raise" /\ to.of = x THEN RaisingNow(x) \cup {r}
                                                                     ELSE RaisingNow(x) \ {r}
                 /\ HidingNow(x)' = IF to.at = "hide" /\ to.of = x THEN HidingNow(x) \cup {r}
                                                                   ELSE HidingNow(x) \ {r}
  <1>1. reporter' \in [Reporters -> ReporterRecords] /\ reporter'[r] = to
        /\ \A o \in Reporters \ {r} : reporter'[o] = reporter[o]
    BY DEF ReportTypeOK
  <1> QED BY <1>1 DEF RaisingNow, HidingNow

\* What a request of a reporter is about.
LEMMA ReporterOf ==
    ASSUME ReportTypeOK, NEW r \in Reporters, reporter[r] # Ready
    PROVE  reporter[r].at \in {"raise", "hide"} /\ reporter[r].of \in Targets
  BY DEF ReportTypeOK, ReporterRecords, Ready

\* Nothing changes for a target that a step is not about.
LEMMA OtherTargets ==
    ASSUME ReportInv, NEW x \in Targets, ReportTypeOK',
           RaisingNow(x)' = RaisingNow(x), HidingNow(x)' = HidingNow(x), Rows(x)' = Rows(x),
           hidden'[x] = hidden[x], reports'[x] = reports[x], unraised'[x] = unraised[x]
    PROVE  CountsUp(x)'
  <1>1. ReportTypeOK
    BY DEF ReportInv
  <1>2. Reported(x) = Cardinality(Rows(x)) /\ Underway(x) = Cardinality(ReportingNow(x))
        /\ ReportingNow(x) = RaisingNow(x) \cup HidingNow(x)
    BY <1>1, ReportCounts DEF Counted
  <1>3. Reported(x)' = Cardinality(Rows(x)') /\ Underway(x)' = Cardinality(ReportingNow(x)')
        /\ ReportingNow(x)' = RaisingNow(x)' \cup HidingNow(x)'
    BY ReportCountsNext DEF Counted
  <1>4. Reported(x)' = Reported(x) /\ Underway(x)' = Underway(x)
    BY <1>2, <1>3
  <1> QED BY <1>4 DEF ReportInv, CountsUp

\* The counts of the target that a step is about.
LEMMA CountsFollow ==
    ASSUME ReportInv, ReportTypeOK', NEW x \in Targets
    PROVE  Counted(x) /\ Counted(x)' /\ CountsUp(x) /\ HideAt \in Nat \ {0}
           /\ reports[x] \in Nat /\ unraised[x] \in Nat /\ reports'[x] \in Nat /\ unraised'[x] \in Nat
           /\ hidden[x] \in BOOLEAN
  <1>1. Counted(x)'
    BY ReportCountsNext
  <1> QED BY <1>1, ReportCounts, CommunityAssumption DEF ReportInv, ReportTypeOK

\* A report is filed.
LEMMA ReportFiled ==
    ASSUME ReportInv, NEW r \in Reporters, NEW x \in Targets, CreateReport(r, x)
    PROVE  ReportInv'
  <1> DEFINE to == [at |-> "raise", of |-> x]
  <1>1. to \in ReporterRecords /\ to.at = "raise" /\ to.of = x
    BY DEF ReporterRecords
  <1>2. reporter' = [reporter EXCEPT ![r] = to] /\ reporter[r].at = "ready"
        /\ reportRows' = reportRows \cup {<<x, r>>} /\ <<x, r>> \notin reportRows
        /\ UNCHANGED <<hidden, reports, unraised>>
    BY DEF CreateReport, Ready, FirstReport
  <1> HIDE DEF to
  <1>3. /\ reporter' \in [Reporters -> ReporterRecords]
        /\ \A y \in Targets :
              /\ RaisingNow(y)' = IF y = x THEN RaisingNow(y) \cup {r} ELSE RaisingNow(y) \ {r}
              /\ HidingNow(y)' = HidingNow(y) \ {r}
    BY <1>1, <1>2, ReporterMoves DEF ReportInv
  <1>4. \A y \in Targets : r \notin RaisingNow(y) /\ r \notin HidingNow(y)
    BY <1>2 DEF RaisingNow, HidingNow
  <1>5. ReportTypeOK'
    BY <1>2, <1>3, FS_AddElement DEF ReportInv, ReportTypeOK
  <1>6. \A y \in Targets : Rows(y)' = IF y = x THEN Rows(y) \cup {<<x, r>>} ELSE Rows(y)
    BY <1>2 DEF Rows
  <1>7. ASSUME NEW y \in Targets, y # x PROVE CountsUp(y)'
    <2>1. RaisingNow(y)' = RaisingNow(y) /\ HidingNow(y)' = HidingNow(y) /\ Rows(y)' = Rows(y)
      <3>1. RaisingNow(y)' = RaisingNow(y) \ {r} /\ HidingNow(y)' = HidingNow(y) \ {r}
        BY <1>3, <1>7
      <3> QED BY <1>4, <1>6, <1>7, <3>1
    <2>2. hidden'[y] = hidden[y] /\ reports'[y] = reports[y] /\ unraised'[y] = unraised[y]
      BY <1>2
    <2> QED BY <1>5, <2>1, <2>2, OtherTargets
  <1>8. CountsUp(x)'
    <2>1. Counted(x) /\ Counted(x)' /\ CountsUp(x) /\ HideAt \in Nat
          /\ reports[x] \in Nat /\ unraised[x] \in Nat
      BY <1>5, CountsFollow
    <2>2. RaisingNow(x)' = RaisingNow(x) \cup {r} /\ r \notin RaisingNow(x)
          /\ HidingNow(x)' = HidingNow(x) /\ Rows(x)' = Rows(x) \cup {<<x, r>>}
      BY <1>3, <1>4, <1>6
    <2>8. <<x, r>> \notin Rows(x)
      BY <1>2 DEF Rows
    <2>3. ReportingNow(x)' = ReportingNow(x) \cup {r} /\ r \notin ReportingNow(x)
      BY <1>4, <2>1, <2>2 DEF Counted
    <2>4. Reported(x)' = Reported(x) + 1
      BY <2>1, <2>2, <2>8, FS_AddElement DEF Counted
    <2>5. Underway(x)' = Underway(x) + 1
      <3>1. IsFiniteSet(ReportingNow(x)) /\ Underway(x) = Cardinality(ReportingNow(x))
            /\ Underway(x)' = Cardinality(ReportingNow(x)')
        BY <2>1 DEF Counted
      <3>2. Cardinality(ReportingNow(x) \cup {r}) = Cardinality(ReportingNow(x)) + 1
        BY <2>3, <3>1, FS_AddElement
      <3> QED BY <2>3, <3>1, <3>2
    <2>6. Cardinality(RaisingNow(x))' = Cardinality(RaisingNow(x)) + 1
      BY <2>1, <2>2, FS_AddElement DEF Counted
    <2>7. Reported(x) \in Nat /\ Underway(x) \in Nat /\ Cardinality(RaisingNow(x)) \in Nat
      BY <2>1 DEF Counted
    <2> QED BY <1>2, <2>1, <2>2, <2>4, <2>5, <2>6, <2>7 DEF CountsUp
  <1> QED BY <1>5, <1>7, <1>8 DEF ReportInv

\* A report is counted, and its request goes on to hide when the count says so.
LEMMA ReportRaised ==
    ASSUME ReportInv, NEW r \in Reporters, NEW x \in Targets, reporter[r].of = x, RaiseCount(r)
    PROVE  ReportInv'
  <1> DEFINE to == IF reports[x] + 1 >= HideAt THEN [at |-> "hide", of |-> x] ELSE Ready
  <1>1. reporter[r].at = "raise"
    BY DEF RaiseCount
  <1>2. reporter' = [reporter EXCEPT ![r] = to] /\ reports' = [reports EXCEPT ![x] = @ + 1]
        /\ UNCHANGED <<hidden, reportRows, unraised>>
    BY DEF RaiseCount
  <1>3. to \in ReporterRecords /\ to.at # "raise"
        /\ (to.at = "hide" <=> reports[x] + 1 >= HideAt) /\ (to.at = "hide" => to.of = x)
    BY <1>1 DEF ReporterRecords, Ready
  <1> HIDE DEF to
  <1>4. /\ reporter' \in [Reporters -> ReporterRecords]
        /\ \A y \in Targets :
              /\ RaisingNow(y)' = RaisingNow(y) \ {r}
              /\ HidingNow(y)' = IF reports[x] + 1 >= HideAt /\ y = x THEN HidingNow(y) \cup {r}
                                                                     ELSE HidingNow(y) \ {r}
    <2>1. /\ reporter' \in [Reporters -> ReporterRecords]
          /\ \A y \in Targets :
                /\ RaisingNow(y)' = IF to.at = "raise" /\ to.of = y THEN RaisingNow(y) \cup {r}
                                                                    ELSE RaisingNow(y) \ {r}
                /\ HidingNow(y)' = IF to.at = "hide" /\ to.of = y THEN HidingNow(y) \cup {r}
                                                                  ELSE HidingNow(y) \ {r}
      BY <1>2, <1>3, ReporterMoves DEF ReportInv
    <2> QED BY <1>3, <2>1
  <1>5. \A y \in Targets : (r \in RaisingNow(y) <=> y = x) /\ r \notin HidingNow(y)
    BY <1>1 DEF RaisingNow, HidingNow
  <1>6. ReportTypeOK'
    BY <1>1, <1>2, <1>4 DEF ReportInv, ReportTypeOK
  <1>7. \A y \in Targets : Rows(y)' = Rows(y)
    BY <1>2 DEF Rows
  <1>8. ASSUME NEW y \in Targets, y # x PROVE CountsUp(y)'
    <2>1. RaisingNow(y)' = RaisingNow(y) /\ HidingNow(y)' = HidingNow(y)
      <3>1. RaisingNow(y)' = RaisingNow(y) \ {r} /\ HidingNow(y)' = HidingNow(y) \ {r}
        BY <1>4, <1>8
      <3>2. r \notin RaisingNow(y) /\ r \notin HidingNow(y)
        BY <1>5, <1>8
      <3> QED BY <3>1, <3>2
    <2>2. reports'[y] = reports[y]
      BY <1>2, <1>8 DEF ReportInv, ReportTypeOK
    <2> QED BY <1>2, <1>6, <1>7, <2>1, <2>2, OtherTargets
  <1>9. CountsUp(x)'
    <2>1. Counted(x) /\ Counted(x)' /\ CountsUp(x) /\ HideAt \in Nat
          /\ reports[x] \in Nat /\ unraised[x] \in Nat /\ hidden[x] \in BOOLEAN
      BY <1>1, <1>6, CountsFollow
    <2>2. reports'[x] = reports[x] + 1 /\ hidden'[x] = hidden[x] /\ unraised'[x] = unraised[x]
      BY <1>1, <1>2 DEF ReportInv, ReportTypeOK
    <2>3. Reported(x)' = Reported(x)
      BY <1>1, <1>7, <2>1 DEF Counted
    <2>4. Cardinality(RaisingNow(x))' = Cardinality(RaisingNow(x)) - 1
      BY <1>1, <1>4, <1>5, <2>1, FS_RemoveElement DEF Counted
    <2>5. Reported(x) \in Nat /\ Underway(x) \in Nat /\ Cardinality(RaisingNow(x)) \in Nat
          /\ Cardinality(RaisingNow(x))' \in Nat /\ Underway(x)' \in Nat
          /\ Cardinality(RaisingNow(x))' <= Underway(x)'
      BY <2>1 DEF Counted
    <2>6. CASE reports[x] + 1 >= HideAt
      <3>1. ReportingNow(x)' = ReportingNow(x)
        BY <1>1, <1>4, <1>5, <2>1, <2>6 DEF Counted
      <3>2. Underway(x)' = Underway(x)
        BY <2>1, <3>1 DEF Counted
      <3> QED BY <2>1, <2>2, <2>3, <2>4, <2>5, <2>6, <3>2 DEF CountsUp
    <2>7. CASE ~(reports[x] + 1 >= HideAt)
      <3>1. HidingNow(x)' = HidingNow(x)
        BY <1>1, <1>4, <1>5, <2>7
      <3> QED BY <2>1, <2>2, <2>3, <2>4, <2>5, <2>7, <3>1 DEF CountsUp
    <2> QED BY <2>6, <2>7
  <1> QED BY <1>6, <1>8, <1>9 DEF ReportInv

\* A target is hidden, or the request that was to raise or to hide is cut short.
LEMMA ReportEnded ==
    ASSUME ReportInv, NEW r \in Reporters, NEW x \in Targets, reporter[r].of = x,
           HideTarget(r) \/ ReportDies(r)
    PROVE  ReportInv'
  <1>1. reporter[r].at \in {"raise", "hide"}
    <2>1. reporter[r] # Ready
      BY DEF HideTarget, ReportDies, Ready
    <2> QED BY <2>1, ReporterOf DEF ReportInv
  <1>2. reporter' = [reporter EXCEPT ![r] = Ready] /\ UNCHANGED <<reports, reportRows>>
        /\ \/ /\ reporter[r].at = "hide" /\ hidden' = [hidden EXCEPT ![x] = TRUE]
              /\ UNCHANGED unraised
           \/ unraised' = [unraised EXCEPT ![x] = @ + 1] /\ UNCHANGED hidden
    BY DEF HideTarget, ReportDies
  <1>3. Ready \in ReporterRecords /\ Ready.at = "ready"
    BY DEF Ready, ReporterRecords
  <1>4. /\ reporter' \in [Reporters -> ReporterRecords]
        /\ \A y \in Targets : RaisingNow(y)' = RaisingNow(y) \ {r} /\ HidingNow(y)' = HidingNow(y) \ {r}
    BY <1>2, <1>3, ReporterMoves DEF ReportInv
  <1>5. /\ \A y \in Targets \ {x} : r \notin RaisingNow(y) /\ r \notin HidingNow(y)
        /\ r \in RaisingNow(x) <=> reporter[r].at = "raise"
        /\ r \in HidingNow(x) <=> reporter[r].at = "hide"
    BY <1>1 DEF RaisingNow, HidingNow
  <1>6. ReportTypeOK'
    <2>1. hidden' \in [Targets -> BOOLEAN]
      BY <1>2 DEF ReportInv, ReportTypeOK
    <2>2. unraised' \in [Targets -> Nat]
      BY <1>2 DEF ReportInv, ReportTypeOK
    <2> QED BY <1>2, <1>4, <2>1, <2>2 DEF ReportInv, ReportTypeOK
  <1>7. \A y \in Targets : Rows(y)' = Rows(y)
    BY <1>2 DEF Rows
  <1>8. ASSUME NEW y \in Targets, y # x PROVE CountsUp(y)'
    <2>1. RaisingNow(y)' = RaisingNow(y) /\ HidingNow(y)' = HidingNow(y)
      <3>1. RaisingNow(y)' = RaisingNow(y) \ {r} /\ HidingNow(y)' = HidingNow(y) \ {r}
        BY <1>4, <1>8
      <3>2. r \notin RaisingNow(y) /\ r \notin HidingNow(y)
        BY <1>5, <1>8
      <3> QED BY <3>1, <3>2
    <2>2. hidden'[y] = hidden[y] /\ unraised'[y] = unraised[y]
      BY <1>2, <1>8 DEF ReportInv, ReportTypeOK
    <2> QED BY <1>2, <1>6, <1>7, <2>1, <2>2, OtherTargets
  <1>9. CountsUp(x)'
    <2>1. Counted(x) /\ Counted(x)' /\ CountsUp(x) /\ HideAt \in Nat
          /\ reports[x] \in Nat /\ unraised[x] \in Nat /\ hidden[x] \in BOOLEAN
      BY <1>1, <1>6, CountsFollow
    <2>2. Reported(x)' = Reported(x) /\ reports'[x] = reports[x]
      BY <1>1, <1>2, <1>7, <2>1 DEF Counted
    <2>3. Reported(x) \in Nat /\ Underway(x) \in Nat /\ Cardinality(RaisingNow(x)) \in Nat
      BY <2>1 DEF Counted
    <2>4. ReportingNow(x)' = ReportingNow(x) \ {r} /\ r \in ReportingNow(x)
      BY <1>1, <1>4, <1>5, <2>1 DEF Counted
    <2>5. Underway(x)' = Underway(x) - 1
      BY <2>1, <2>4, FS_RemoveElement DEF Counted
    <2>6. CASE reporter[r].at = "hide" /\ hidden' = [hidden EXCEPT ![x] = TRUE] /\ UNCHANGED unraised
      <3>1. hidden'[x] = TRUE
        BY <1>1, <2>6 DEF ReportInv, ReportTypeOK
      <3>2. RaisingNow(x)' = RaisingNow(x) /\ HidingNow(x) # {}
        BY <1>1, <1>4, <1>5, <2>6
      <3> QED BY <2>1, <2>2, <2>6, <3>1, <3>2 DEF CountsUp
    <2>7. CASE unraised' = [unraised EXCEPT ![x] = @ + 1] /\ UNCHANGED hidden
      <3>1. unraised'[x] = unraised[x] + 1 /\ hidden'[x] = hidden[x]
        BY <1>1, <2>7 DEF ReportInv, ReportTypeOK
      <3>2. Cardinality(RaisingNow(x))' = IF r \in RaisingNow(x) THEN Cardinality(RaisingNow(x)) - 1
                                                               ELSE Cardinality(RaisingNow(x))
        BY <1>1, <1>4, <2>1, FS_RemoveElement DEF Counted
      <3>3. HidingNow(x)' \subseteq HidingNow(x)
        BY <1>1, <1>4
      <3> QED BY <2>1, <2>2, <2>3, <2>5, <3>1, <3>2, <3>3 DEF CountsUp
    <2> QED BY <1>2, <2>6, <2>7
  <1> QED BY <1>6, <1>8, <1>9 DEF ReportInv

(****************************************************************************)
(* The board.                                                               *)
(****************************************************************************)
CommunityInv == BoardTypeOK /\ OneShown /\ AskedInv /\ ReportInv

\* Reporting leaves the board, and the board the reports.
LEMMA CommunityStep ==
    ASSUME CommunityInv, [CommunityNext]_communityVars
    PROVE  CommunityInv'
  <1>1. ASSUME UNCHANGED reportVars PROVE ReportInv' /\ HiddenStay
    BY <1>1 DEF CommunityInv, ReportInv, ReportTypeOK, CountsUp, Reported, Underway, RaisingNow,
                HidingNow, HiddenStay, reportVars
  <1>2. ASSUME UNCHANGED askVars PROVE AskedInv'
    BY <1>2 DEF CommunityInv, AskedInv, AskingNow, CountingNow, askVars
  <1>3. ASSUME ReplyStep, HiddenStay PROVE BoardTypeOK' /\ OneShown'
    BY <1>3, BoardTypes, OneShownStays DEF CommunityInv
  <1>4. CASE UNCHANGED communityVars
    BY <1>1, <1>2, <1>3, <1>4 DEF communityVars, ReplyStep, CommunityInv
  <1>5. CASE PostNext
    <2>1. UNCHANGED <<boardVars, reportVars>>
      BY <1>5 DEF PostNext, ReadCounter, CreatePost, CountPost, CountIsLost, CounterIsLost, PosterDies
    <2> QED BY <1>1, <1>3, <1>5, <2>1, AskedStays DEF ReplyStep, CommunityInv
  <1>6. ASSUME NEW a \in Replies,
               CreateReply(a) \/ AcceptReply(a) \/ \E u \in Authors : ReadQuestion(a, u)
        PROVE  CommunityInv'
    <2>1. UNCHANGED <<askVars, reportVars>>
      BY <1>6 DEF CreateReply, AcceptReply, ReadQuestion
    <2> QED BY <1>1, <1>2, <1>3, <1>6, <2>1 DEF ReplyStep, CommunityInv
  <1>7. ASSUME NEW r \in Reporters,
               \/ RaiseCount(r) \/ HideTarget(r) \/ ReportDies(r)
               \/ \E x \in Targets : CreateReport(r, x)
        PROVE  CommunityInv'
    <2>1. UNCHANGED <<askVars, boardVars>>
      BY <1>7 DEF RaiseCount, HideTarget, ReportDies, CreateReport
    <2>2. ReportInv'
      <3>1. CASE \E x \in Targets : CreateReport(r, x)
        BY <3>1, ReportFiled DEF CommunityInv
      <3>2. CASE RaiseCount(r) \/ HideTarget(r) \/ ReportDies(r)
        <4>1. reporter[r] # Ready
          BY <3>2 DEF RaiseCount, HideTarget, ReportDies, Ready
        <4>2. PICK x \in Targets : reporter[r].of = x
          BY <4>1, ReporterOf DEF CommunityInv, ReportInv
        <4> QED BY <3>2, <4>2, ReportRaised, ReportEnded DEF CommunityInv
      <3> QED BY <1>7, <3>1, <3>2
    <2>3. HiddenStay
      BY <1>7 DEF RaiseCount, HideTarget, ReportDies, CreateReport, HiddenStay, CommunityInv,
                  ReportInv, ReportTypeOK
    <2> QED BY <1>2, <1>3, <2>1, <2>2, <2>3 DEF ReplyStep, CommunityInv
  <1> QED BY <1>4, <1>5, <1>6, <1>7 DEF CommunityNext, BoardNext

\* The board begins empty.
LEMMA CommunityStarts ==
    ASSUME CommunityInit
    PROVE  CommunityInv
  <1>1. BoardTypeOK
    BY DEF CommunityInit, BoardTypeOK, ReplyRecords
  <1>2. OneShown
    BY DEF CommunityInit, OneShown, Shown
  <1>3. AskedInv
    <2>1. poster \in [Posters -> [at : {"ready", "create", "count"}]]
          /\ asked = 0 /\ counted = 0 /\ uncounted = 0 /\ unlimited = 0
      BY DEF CommunityInit, Ready
    <2>2. AskingNow = {} /\ CountingNow = {}
      BY DEF CommunityInit, Ready, AskingNow, CountingNow
    <2>3. Cardinality(Posters) \in Nat /\ DailyLimit \in Nat \ {0}
      BY CommunityAssumption, FS_CardinalityType
    <2> QED BY <2>1, <2>2, <2>3, FS_EmptySet DEF AskedInv
  <1>4. ReportInv
    <2>1. ReportTypeOK
      BY FS_EmptySet DEF CommunityInit, ReportTypeOK, ReporterRecords, Ready
    <2>2. ASSUME NEW x \in Targets PROVE CountsUp(x)
      <3>1. Rows(x) = {} /\ RaisingNow(x) = {} /\ HidingNow(x) = {}
            /\ reports[x] = 0 /\ unraised[x] = 0 /\ hidden[x] = FALSE
        BY DEF CommunityInit, Rows, RaisingNow, HidingNow, Ready
      <3>2. Counted(x)
        BY <2>1, ReportCounts
      <3>3. Reported(x) = 0 /\ Underway(x) = 0 /\ Cardinality(RaisingNow(x)) = 0
        BY <3>1, <3>2, FS_EmptySet DEF Counted
      <3>4. HideAt \in Nat \ {0}
        BY CommunityAssumption
      <3> QED BY <3>1, <3>3, <3>4 DEF CountsUp
    <2> QED BY <2>1, <2>2 DEF ReportInv
  <1> QED BY <1>1, <1>2, <1>3, <1>4 DEF CommunityInv

\* The invariant says what is promised.
LEMMA FairBoard ==
    ASSUME CommunityInv
    PROVE  BoardIsFair
  <1>1. \A a \in Replies : reply[a].accepted =>
           board = "resolved" /\ \A b \in Replies : reply[b].accepted => a = b
    BY DEF CommunityInv, BoardTypeOK
  <1>2. \A u \in Authors : Cardinality({a \in RepliesOf(u, "written") \ besides : ~hidden[a]}) <= 1
    <2> TAKE u \in Authors
    <2>1. {a \in RepliesOf(u, "written") \ besides : ~hidden[a]} \subseteq Shown(u)
      BY DEF RepliesOf, Shown
    <2> QED BY <2>1, AtMostOne DEF CommunityInv, OneShown
  <1>3. \A x \in Targets : HiddenByMany(x)
    BY DEF CommunityInv, ReportInv, CountsUp, HiddenByMany
  <1>4. asked <= DailyLimit + uncounted + unlimited + Cardinality(Posters) - 1
    BY AskingCounts, CommunityAssumption DEF CommunityInv, AskedInv
  <1> QED BY <1>1, <1>2, <1>3, <1>4 DEF BoardIsFair

\* The board accepts one answer, shows one of each author, hides what enough users
\* reported, and limits the questions of a day (qna.service, community part).
THEOREM BoardAlwaysFair == CommunitySpec => []BoardIsFair
  <1>1. CommunityInit => CommunityInv
    BY CommunityStarts
  <1>2. CommunityInv /\ [CommunityNext]_communityVars => CommunityInv'
    BY CommunityStep
  <1> QED BY <1>1, <1>2, FairBoard, PTL DEF CommunitySpec

(****************************************************************************)
(* The recording and the report of a consultation.                          *)
(****************************************************************************)
\* The consents in the row are ones that their sides gave and did not take back.
ConsentIsWord ==
    /\ rec = [status |-> rec.status, consent |-> rec.consent, egress |-> rec.egress, key |-> rec.key]
    /\ rec.consent \in [Sides -> BOOLEAN] /\ says \in [Sides -> BOOLEAN]
    /\ \A s \in Sides : rec.consent[s] => says[s]
    /\ mediaCall = [c \in MediaCalls |-> mediaCall[c]]
    /\ \A c \in MediaCalls : mediaCall[c].at \in {"stop", "abort"} => mediaCall[c].side \in Sides

RecordedInv == ConsentIsWord /\ RecordedOnlyWithBoth

\* A step that writes no consent and asks for no withdrawal leaves what they said.
LEMMA ConsentKept ==
    ASSUME RecordedInv, NEW c \in MediaCalls, NEW to,
           to.at \in {"stop", "abort"} => to.side \in Sides,
           mediaCall' = [mediaCall EXCEPT ![c] = to],
           rec' = [status |-> rec'.status, consent |-> rec.consent,
                   egress |-> rec'.egress, key |-> rec'.key],
           UNCHANGED <<says, begun>>
    PROVE  RecordedInv'
  <1>1. rec'.consent = rec.consent
    OBVIOUS
  <1>2. mediaCall' = [d \in MediaCalls |-> mediaCall'[d]]
        /\ \A d \in MediaCalls : mediaCall'[d] = IF d = c THEN to ELSE mediaCall[d]
    BY DEF RecordedInv, ConsentIsWord
  <1> QED BY <1>1, <1>2 DEF RecordedInv, ConsentIsWord, RecordedOnlyWithBoth

\* Every step of the recording keeps the invariant.
LEMMA RecordingStep ==
    ASSUME RecordedInv, [RecordingNext]_recordingVars
    PROVE  RecordedInv'
  <1>1. rec = [status |-> rec.status, consent |-> rec.consent, egress |-> rec.egress, key |-> rec.key]
        /\ rec.consent \in [Sides -> BOOLEAN] /\ says \in [Sides -> BOOLEAN]
        /\ (\A s \in Sides : rec.consent[s] => says[s])
        /\ mediaCall = [c \in MediaCalls |-> mediaCall[c]]
    BY DEF RecordedInv, ConsentIsWord
  <1>2. ASSUME UNCHANGED <<mediaCall, says, begun>>,
               rec' = [status |-> rec'.status, consent |-> rec.consent,
                       egress |-> rec'.egress, key |-> rec'.key]
        PROVE  RecordedInv'
    <2>1. rec'.consent = rec.consent
      BY <1>2
    <2> QED BY <1>2, <2>1 DEF RecordedInv, ConsentIsWord, RecordedOnlyWithBoth
  <1>3. Unasked.at \notin {"stop", "abort"}
    BY DEF Unasked
  <1>4. ASSUME NEW c \in MediaCalls, NEW side \in Sides, Consent(c, side) PROVE RecordedInv'
    <2> DEFINE consent == [rec.consent EXCEPT ![side] = TRUE]
               status == IF rec.status = "none" THEN "pending" ELSE rec.status
               to == IF Both(consent) THEN [at |-> "start"]
                     ELSE IF status \in {"pending", "aborted"} THEN [at |-> "pending"] ELSE Unasked
    <2>1. rec' = [rec EXCEPT !.status = status, !.consent = consent]
          /\ says' = [says EXCEPT ![side] = TRUE] /\ mediaCall' = [mediaCall EXCEPT ![c] = to]
          /\ begun' = IF Both(consent) THEN begun \cup {says'} ELSE begun
      BY <1>4 DEF Consent
    <2>2. to.at \notin {"stop", "abort"}
      BY DEF Unasked
    <2> HIDE DEF to, status
    <2>3. rec' = [status |-> status, consent |-> consent, egress |-> rec.egress, key |-> rec.key]
      BY <1>1, <2>1
    <2>4. rec'.consent = consent /\ consent \in [Sides -> BOOLEAN] /\ says' \in [Sides -> BOOLEAN]
          /\ (\A s \in Sides : rec'.consent[s] => says'[s])
      BY <1>1, <2>1, <2>3
    <2>5. mediaCall' = [d \in MediaCalls |-> mediaCall'[d]]
          /\ \A d \in MediaCalls : mediaCall'[d] = IF d = c THEN to ELSE mediaCall[d]
      BY <1>1, <2>1
    <2>6. Both(consent) => \A s \in Sides : says'[s]
      BY <2>4 DEF Both
    <2>7. RecordedOnlyWithBoth'
      BY <2>1, <2>6 DEF RecordedInv, RecordedOnlyWithBoth
    <2> QED BY <2>2, <2>3, <2>4, <2>5, <2>7 DEF RecordedInv, ConsentIsWord
  <1>5. ASSUME NEW c \in MediaCalls, Abort(c) PROVE RecordedInv'
    <2>1. PICK side \in Sides : mediaCall[c].side = side
      BY <1>5 DEF Abort, RecordedInv, ConsentIsWord
    <2>2. rec' = [rec EXCEPT !.status = "aborted", !.consent = [rec.consent EXCEPT ![side] = FALSE]]
          /\ says' = [says EXCEPT ![side] = FALSE] /\ mediaCall' = [mediaCall EXCEPT ![c] = Unasked]
          /\ begun' = begun
      BY <1>5, <2>1 DEF Abort, Withdrawn
    <2>3. rec' = [status |-> "aborted", consent |-> [rec.consent EXCEPT ![side] = FALSE],
                  egress |-> rec.egress, key |-> rec.key]
      BY <1>1, <2>2
    <2>4. rec'.consent \in [Sides -> BOOLEAN] /\ says' \in [Sides -> BOOLEAN]
          /\ (\A s \in Sides : rec'.consent[s] => says'[s])
      BY <1>1, <2>2, <2>3
    <2>5. mediaCall' = [d \in MediaCalls |-> mediaCall'[d]]
          /\ \A d \in MediaCalls : mediaCall'[d] = IF d = c THEN Unasked ELSE mediaCall[d]
      BY <1>1, <2>2
    <2> QED BY <1>3, <2>2, <2>3, <2>4, <2>5 DEF RecordedInv, ConsentIsWord, RecordedOnlyWithBoth
  <1>6. ASSUME NEW c \in MediaCalls, SetPending(c) \/ StartFails(c) \/ MarkRecording(c)
        PROVE  RecordedInv'
    <2>1. rec' = [status |-> rec'.status, consent |-> rec.consent,
                  egress |-> rec'.egress, key |-> rec'.key]
      BY <1>1, <1>6 DEF SetPending, StartFails, MarkRecording
    <2>2. mediaCall' = [mediaCall EXCEPT ![c] = Unasked] /\ UNCHANGED <<says, begun>>
      BY <1>6 DEF SetPending, StartFails, MarkRecording
    <2> QED BY <1>3, <2>1, <2>2, ConsentKept
  <1>7. ASSUME NEW c \in MediaCalls, NEW e \in Egresses, StartEgress(c, e) PROVE RecordedInv'
    <2>1. mediaCall' = [mediaCall EXCEPT ![c] = [at |-> "mark", egress |-> e]]
          /\ UNCHANGED <<rec, says, begun>>
      BY <1>7 DEF StartEgress
    <2> QED BY <1>1, <2>1, ConsentKept
  <1>8. ASSUME NEW c \in MediaCalls, NEW side \in Sides, ReadWithdraw(c, side) PROVE RecordedInv'
    <2>1. UNCHANGED <<rec, says, begun>>
          /\ \/ mediaCall' = [mediaCall EXCEPT ![c] = [at |-> "abort", side |-> side]]
             \/ mediaCall' = [mediaCall EXCEPT ![c] =
                                [at |-> "stop", side |-> side, egress |-> rec.egress]]
      BY <1>8 DEF ReadWithdraw
    <2> QED BY <1>1, <2>1, ConsentKept
  <1>9. ASSUME NEW c \in MediaCalls, StopEgress(c) PROVE RecordedInv'
    <2>1. UNCHANGED <<rec, says, begun>> /\ mediaCall[c].at = "stop"
          /\ mediaCall' = [mediaCall EXCEPT ![c] = [at |-> "abort", side |-> mediaCall[c].side]]
      BY <1>1, <1>9 DEF StopEgress
    <2>2. mediaCall[c].side \in Sides
      BY <2>1 DEF RecordedInv, ConsentIsWord
    <2> QED BY <1>1, <2>1, <2>2, ConsentKept
  <1>10. ASSUME NEW h \in Hooks,
                \/ PurgeFile(h) \/ StoreFile(h) \/ HookFails(h)
                \/ \E e \in Egresses : ReadEnded(h, e)
         PROVE  RecordedInv'
    <2>1. rec' = [status |-> rec'.status, consent |-> rec.consent,
                  egress |-> rec'.egress, key |-> rec'.key]
      BY <1>1, <1>10 DEF PurgeFile, StoreFile, HookFails, ReadEnded
    <2>2. UNCHANGED <<mediaCall, says, begun>>
      BY <1>10 DEF PurgeFile, StoreFile, HookFails, ReadEnded
    <2> QED BY <1>2, <2>1, <2>2
  <1>11. CASE UNCHANGED recordingVars \/ \E e \in Egresses : RoomEmpties(e)
    BY <1>1, <1>2, <1>11 DEF recordingVars, RoomEmpties
  <1> QED BY <1>4, <1>5, <1>6, <1>7, <1>8, <1>9, <1>10, <1>11 DEF RecordingNext

\* No call goes on to record without the consent of both sides as they last spoke
\* (recording.service consent).
THEOREM RecordedOnlyByConsent == RecordingSpec => []RecordedOnlyWithBoth
  <1>1. RecordingInit => RecordedInv
    BY DEF RecordingInit, RecordedInv, ConsentIsWord, RecordedOnlyWithBoth, Unasked
  <1>2. RecordedInv /\ [RecordingNext]_recordingVars => RecordedInv'
    BY RecordingStep
  <1>3. RecordedInv => RecordedOnlyWithBoth
    BY DEF RecordedInv
  <1> QED BY <1>1, <1>2, <1>3, PTL DEF RecordingSpec

\* A notification of a sending is under way, was delivered or got lost; and the
\* reminders delivered and begun are told by the row or by a run about to write it.
BegunReminders == {j \in Reminders : reminder[j].at = "remind"}
RowsToCome == {j \in Reminders : RowToCome(j)}

NoticesInv ==
    /\ {telling, sendings, notices, untold} \subseteq Nat
    /\ notices + untold + telling = sendings

RemindersInv ==
    /\ reminder \in [Reminders -> [at : {"idle", "check", "remind", "record"}]]
    /\ reminderRow \in BOOLEAN /\ {reminded, crowded, rowless} \subseteq Nat
    /\ reminded + Cardinality(BegunReminders) <=
          crowded + rowless + IF reminderRow \/ RowsToCome # {} THEN 1 ELSE 0

\* What a step of a run does to the sets.
LEMMA ReminderMoves ==
    ASSUME RemindersInv, NEW j \in Reminders, NEW to \in {"idle", "check", "remind", "record"},
           reminder' = [reminder EXCEPT ![j] = [at |-> to]]
    PROVE  /\ reminder' \in [Reminders -> [at : {"idle", "check", "remind", "record"}]]
           /\ RowsToCome' = IF to \in {"remind", "record"} THEN RowsToCome \cup {j} ELSE RowsToCome \ {j}
           /\ to = "remind" /\ reminder[j].at # "remind" =>
                 Cardinality(BegunReminders') = Cardinality(BegunReminders) + 1
           /\ to # "remind" /\ reminder[j].at = "remind" =>
                 Cardinality(BegunReminders') = Cardinality(BegunReminders) - 1
           /\ to # "remind" /\ reminder[j].at # "remind" => BegunReminders' = BegunReminders
           /\ Cardinality(BegunReminders) \in Nat /\ Cardinality(BegunReminders') \in Nat
  <1>1. reminder \in [Reminders -> [at : {"idle", "check", "remind", "record"}]]
    BY DEF RemindersInv
  <1>2. reminder'[j].at = to /\ \A k \in Reminders \ {j} : reminder'[k] = reminder[k]
    BY <1>1
  <1>3. /\ BegunReminders' = IF to = "remind" THEN BegunReminders \cup {j} ELSE BegunReminders \ {j}
        /\ (j \in BegunReminders <=> reminder[j].at = "remind")
    BY <1>1, <1>2 DEF BegunReminders
  <1>4. IsFiniteSet(BegunReminders) /\ BegunReminders \subseteq Reminders
    BY ReportsAssumption, FS_Subset DEF BegunReminders
  <1>5. IsFiniteSet(BegunReminders')
    BY <1>3, <1>4, FS_AddElement, FS_RemoveElement
  <1>6. Cardinality(BegunReminders) \in Nat /\ Cardinality(BegunReminders') \in Nat
    BY <1>4, <1>5, FS_CardinalityType
  <1>7. RowsToCome' = IF to \in {"remind", "record"} THEN RowsToCome \cup {j} ELSE RowsToCome \ {j}
    BY <1>1, <1>2 DEF RowsToCome, RowToCome
  <1>8. to = "remind" /\ reminder[j].at # "remind" =>
           Cardinality(BegunReminders') = Cardinality(BegunReminders) + 1
    BY <1>3, <1>4, FS_AddElement
  <1>9. to # "remind" /\ reminder[j].at = "remind" =>
           Cardinality(BegunReminders') = Cardinality(BegunReminders) - 1
    BY <1>3, <1>4, FS_RemoveElement
  <1>10. to # "remind" /\ reminder[j].at # "remind" => BegunReminders' = BegunReminders
    BY <1>3
  <1> QED BY <1>1, <1>6, <1>7, <1>8, <1>9, <1>10

\* A run of the reminder job keeps the account of reminders.
LEMMA RemindersStay ==
    ASSUME RemindersInv, ReminderNext
    PROVE  RemindersInv'
  <1> PICK j \in Reminders : \/ ListUnopened(j) \/ LookUpReminder(j) \/ Remind(j)
                             \/ RecordReminder(j) \/ ReminderDies(j)
    BY DEF ReminderNext
  <1>1. /\ reminder \in [Reminders -> [at : {"idle", "check", "remind", "record"}]]
        /\ reminderRow \in BOOLEAN /\ reminded \in Nat /\ crowded \in Nat /\ rowless \in Nat
        /\ reminded + Cardinality(BegunReminders) <=
              crowded + rowless + IF reminderRow \/ RowsToCome # {} THEN 1 ELSE 0
    BY DEF RemindersInv
  <1>2. RowsToCome # {} <=> \E k \in Reminders : RowToCome(k)
    BY DEF RowsToCome
  <1>3. CASE ListUnopened(j)
    <2>1. reminder' = [reminder EXCEPT ![j] = [at |-> "check"]] /\ reminder[j].at = "idle"
          /\ UNCHANGED <<reminderRow, reminded, crowded, rowless>>
      BY <1>3 DEF ListUnopened, Unoccupied
    <2>2. RowsToCome' = RowsToCome /\ BegunReminders' = BegunReminders
          /\ reminder' \in [Reminders -> [at : {"idle", "check", "remind", "record"}]]
      BY <2>1, ReminderMoves DEF RowsToCome, RowToCome
    <2> QED BY <1>1, <2>1, <2>2 DEF RemindersInv
  <1>4. CASE LookUpReminder(j)
    <2>1. /\ reminder[j].at = "check" /\ UNCHANGED <<reminderRow, reminded, rowless>>
          /\ crowded' = IF ~reminderRow /\ RowsToCome # {} THEN crowded + 1 ELSE crowded
          /\ reminder' = [reminder EXCEPT ![j] = [at |-> IF reminderRow THEN "idle" ELSE "remind"]]
      BY <1>1, <1>2, <1>4 DEF LookUpReminder, Already, Unoccupied
    <2>2. CASE reminderRow
      <3>1. BegunReminders' = BegunReminders
            /\ reminder' \in [Reminders -> [at : {"idle", "check", "remind", "record"}]]
        BY <2>1, <2>2, ReminderMoves
      <3> QED BY <1>1, <2>1, <2>2, <3>1 DEF RemindersInv
    <2>3. CASE ~reminderRow
      <3>1. /\ Cardinality(BegunReminders') = Cardinality(BegunReminders) + 1
            /\ RowsToCome' = RowsToCome \cup {j} /\ Cardinality(BegunReminders) \in Nat
            /\ reminder' \in [Reminders -> [at : {"idle", "check", "remind", "record"}]]
        BY <2>1, <2>3, ReminderMoves
      <3> QED BY <1>1, <2>1, <2>3, <3>1 DEF RemindersInv
    <2> QED BY <2>2, <2>3
  <1>5. CASE Remind(j)
    <2>1. reminder' = [reminder EXCEPT ![j] = [at |-> "record"]] /\ reminder[j].at = "remind"
          /\ reminded' = reminded + 1 /\ UNCHANGED <<reminderRow, crowded, rowless>>
      BY <1>5 DEF Remind
    <2>2. /\ Cardinality(BegunReminders') = Cardinality(BegunReminders) - 1
          /\ RowsToCome' = RowsToCome \cup {j} /\ Cardinality(BegunReminders) \in Nat
          /\ reminder' \in [Reminders -> [at : {"idle", "check", "remind", "record"}]]
      BY <2>1, ReminderMoves
    <2>3. RowsToCome # {}
      BY <2>1 DEF RowsToCome, RowToCome
    <2> QED BY <1>1, <2>1, <2>2, <2>3 DEF RemindersInv
  <1>6. CASE RecordReminder(j)
    <2>1. reminder' = [reminder EXCEPT ![j] = [at |-> "idle"]] /\ reminder[j].at = "record"
          /\ reminderRow' = TRUE /\ UNCHANGED <<reminded, crowded, rowless>>
      BY <1>6 DEF RecordReminder, Unoccupied
    <2>2. BegunReminders' = BegunReminders /\ Cardinality(BegunReminders) \in Nat
          /\ reminder' \in [Reminders -> [at : {"idle", "check", "remind", "record"}]]
      BY <2>1, ReminderMoves
    <2> QED BY <1>1, <2>1, <2>2 DEF RemindersInv
  <1>7. CASE ReminderDies(j)
    <2>1. /\ reminder' = [reminder EXCEPT ![j] = [at |-> "idle"]]
          /\ rowless' = IF reminder[j].at = "record" THEN rowless + 1 ELSE rowless
          /\ UNCHANGED <<reminderRow, reminded, crowded>>
      BY <1>7 DEF ReminderDies, Unoccupied
    <2>2. /\ RowsToCome' = RowsToCome \ {j}
          /\ Cardinality(BegunReminders') \in Nat /\ Cardinality(BegunReminders) \in Nat
          /\ reminder' \in [Reminders -> [at : {"idle", "check", "remind", "record"}]]
          /\ reminder[j].at = "remind" =>
                Cardinality(BegunReminders') = Cardinality(BegunReminders) - 1
          /\ reminder[j].at # "remind" => BegunReminders' = BegunReminders
      BY <2>1, ReminderMoves
    <2>3. CASE reminder[j].at \in {"remind", "record"}
      BY <1>1, <2>1, <2>2, <2>3 DEF RemindersInv
    <2>4. CASE reminder[j].at \notin {"remind", "record"}
      <3>1. RowsToCome' = RowsToCome
        BY <2>2, <2>4 DEF RowsToCome, RowToCome
      <3> QED BY <1>1, <2>1, <2>2, <2>4, <3>1 DEF RemindersInv
    <2> QED BY <2>3, <2>4
  <1> QED BY <1>3, <1>4, <1>5, <1>6, <1>7

\* Every sending is notified once or its notification lost, and the reminders beyond
\* one are those of crossing runs or without a row (consult-report.service send,
\* sendViews, remindUnopenedReports).
THEOREM NoticeForEverySending == ReportsSpec => []OneNoticePerSending
  <1>1. ReportsInit => NoticesInv /\ RemindersInv
    <2>1. ASSUME ReportsInit PROVE BegunReminders = {} /\ RowsToCome = {}
      BY <2>1 DEF ReportsInit, Unoccupied, BegunReminders, RowsToCome, RowToCome
    <2> SUFFICES ASSUME ReportsInit PROVE NoticesInv /\ RemindersInv
      OBVIOUS
    <2>2. NoticesInv
      BY DEF ReportsInit, NoticesInv
    <2>3. reminder \in [Reminders -> [at : {"idle", "check", "remind", "record"}]]
      BY DEF ReportsInit, Unoccupied
    <2>4. reminderRow = FALSE /\ reminded = 0 /\ crowded = 0 /\ rowless = 0
      BY DEF ReportsInit
    <2>5. Cardinality(BegunReminders) = 0
      BY <2>1, FS_EmptySet
    <2>6. {reminded, crowded, rowless} \subseteq Nat
      BY <2>4
    <2>7. reminderRow \in BOOLEAN
      BY DEF ReportsInit
    <2>8. reminded + Cardinality(BegunReminders) <=
            crowded + rowless + IF reminderRow \/ RowsToCome # {} THEN 1 ELSE 0
      BY <2>4, <2>5
    <2>9. RemindersInv
      BY <2>3, <2>6, <2>7, <2>8 DEF RemindersInv
    <2> QED BY <2>2, <2>9
  <1>2. NoticesInv /\ RemindersInv /\ [ReportsNext]_reportsVars => (NoticesInv /\ RemindersInv)'
    <2> SUFFICES ASSUME NoticesInv, RemindersInv, [ReportsNext]_reportsVars
                 PROVE  NoticesInv' /\ RemindersInv'
      OBVIOUS
    <2>1. ASSUME UNCHANGED noticeVars PROVE NoticesInv'
      BY <2>1 DEF noticeVars, NoticesInv
    <2>2. ASSUME UNCHANGED reminderVars PROVE RemindersInv'
      BY <2>2 DEF reminderVars, RemindersInv, BegunReminders, RowsToCome, RowToCome
    <2>3. CASE ReminderNext
      <3>1. UNCHANGED noticeVars
        BY <2>3 DEF ReminderNext, ListUnopened, LookUpReminder, Remind, RecordReminder, ReminderDies
      <3> QED BY <2>1, <2>3, <3>1, RemindersStay
    <2>4. ASSUME NEW c \in Reviewers, SendReport(c) PROVE NoticesInv' /\ UNCHANGED reminderVars
      BY <2>4 DEF SendReport, StillApproved, NoticesInv
    <2>5. CASE NoticeDelivered \/ NoticeLost
      BY <2>2, <2>5 DEF NoticeDelivered, NoticeLost, NoticesInv
    <2>6. CASE UNCHANGED <<noticeVars, reminderVars>>
      BY <2>1, <2>2, <2>6
    <2> QED BY <2>2, <2>3, <2>4, <2>5, <2>6
            DEF ReportsNext, DraftNext, StartProcess, SaveDraft, ProcessFails, ReadGenerate,
                WriteViews, Redraft, GenerateFails, EditView, ReadApprove, Approve,
                ReadApproveViews, ApproveViews, ReadSend, ReadUpdateView, OpenReport,
                ShareToGuardian, reportsVars
  <1>3. NoticesInv /\ RemindersInv => OneNoticePerSending
    <2>1. ASSUME RemindersInv PROVE Cardinality(BegunReminders) \in Nat
      BY ReportsAssumption, FS_Subset, FS_CardinalityType DEF BegunReminders
    <2> QED BY <2>1 DEF NoticesInv, RemindersInv, OneNoticePerSending
  <1> QED BY <1>1, <1>2, <1>3, PTL DEF ReportsSpec
=============================================================================
