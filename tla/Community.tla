------------------------------- MODULE Community -------------------------------
(****************************************************************************)
(* One question on the community board: its answers, written after a check  *)
(* by the language model, its acceptance, and the reports that hide the     *)
(* question or an answer; before it, the student's questions of the day,    *)
(* counted in a cache that may be away: get then answers null and incr      *)
(* counts nothing, and neither stops the request.  A restart may lose the   *)
(* count: of the process, where the cache is in its memory, or of Redis.    *)
(****************************************************************************)
EXTENDS Integers, FiniteSets

CONSTANTS
    Posters,      \* requests of the student to put a question on the board
    DailyLimit,   \* COMMUNITY_DAILY_LIMIT
    Replies,      \* qna_community_answer rows, each the request that writes it
    Authors,
    Reporters,    \* users who report; one request each at a time
    HideAt,       \* REPORT_HIDE_THRESHOLD
    MaxSlips      \* bound: times the counter of the day is not read or not moved

Question == "question"
Targets == {Question} \cup Replies

ASSUME CommunityAssumption ==
    /\ Question \notin Replies
    /\ {DailyLimit, HideAt} \subseteq Nat \ {0} /\ MaxSlips \in Nat
    /\ IsFiniteSet(Posters) /\ IsFiniteSet(Reporters)

VARIABLES
    asked, counted,   \* questions of the day, and the counter in the cache
    poster,           \* what each request to ask is doing
    board,            \* the question's status
    reply,            \* the answers: author, accepted, version of the text
    hidden, reports,  \* of the question and of each answer
    reporter,         \* what each reporter's request is doing
    uncounted,        \* history: questions never counted, or whose count was lost
    unlimited,        \* history: requests that could not read the counter
    reportRows,       \* qna_report: <<target, reporter>>
    besides,          \* history: answers checked while another of the author was written
    unraised          \* history: reports of each target cut short before it was hidden

boardVars == <<board, reply, besides>>
reportVars == <<hidden, reports, reporter, reportRows, unraised>>
askVars == <<asked, counted, poster, uncounted, unlimited>>
communityVars == <<askVars, boardVars, reportVars>>

Ready == [at |-> "ready"]

CommunityInit ==
    /\ asked = 0 /\ counted = 0 /\ uncounted = 0 /\ unlimited = 0
    /\ poster = [p \in Posters |-> Ready]
    /\ board = "open"
    /\ reply = [a \in Replies |-> [at |-> "absent", author |-> "", accepted |-> FALSE]]
    /\ hidden = [x \in Targets |-> FALSE] /\ reports = [x \in Targets |-> 0]
    /\ reporter = [r \in Reporters |-> Ready]
    /\ reportRows = {} /\ besides = {}
    /\ unraised = [x \in Targets |-> 0]

(****************************************************************************)
(* createCommunityQuestion.                                                 *)
(****************************************************************************)
WithinDailyLimit(used) == used < DailyLimit

\* Bound on what the histories count.
FewSlips == uncounted' + unlimited' <= MaxSlips

\* An unreadable counter counts as unused.
ReadCounter(p, away) ==
    /\ poster[p] = Ready
    /\ WithinDailyLimit(IF away THEN 0 ELSE counted)
    /\ poster' = [poster EXCEPT ![p] = [at |-> "create"]]
    /\ unlimited' = IF away THEN unlimited + 1 ELSE unlimited
    /\ UNCHANGED <<asked, counted, uncounted, boardVars, reportVars>>
    /\ FewSlips

CreatePost(p) ==
    /\ poster[p].at = "create"
    /\ asked' = asked + 1
    /\ poster' = [poster EXCEPT ![p] = [at |-> "count"]]
    /\ UNCHANGED <<counted, uncounted, unlimited, boardVars, reportVars>>

\* What incr answers is not looked at; without the cache it counts nothing, or only
\* its reply is lost.
CountPost(p) ==
    /\ poster[p].at = "count"
    /\ counted' = counted + 1
    /\ poster' = [poster EXCEPT ![p] = Ready]
    /\ UNCHANGED <<asked, uncounted, unlimited, boardVars, reportVars>>

CountIsLost(p) ==
    /\ poster[p].at = "count"
    /\ uncounted' = uncounted + 1
    /\ poster' = [poster EXCEPT ![p] = Ready]
    /\ UNCHANGED <<asked, counted, unlimited, boardVars, reportVars>>
    /\ FewSlips

CounterIsLost ==
    /\ counted > 0
    /\ counted' = 0 /\ uncounted' = uncounted + counted
    /\ UNCHANGED <<asked, poster, unlimited, boardVars, reportVars>>
    /\ FewSlips

PosterDies(p) ==
    /\ poster[p] # Ready
    /\ uncounted' = IF poster[p].at = "count" THEN uncounted + 1 ELSE uncounted
    /\ poster' = [poster EXCEPT ![p] = Ready]
    /\ UNCHANGED <<asked, counted, unlimited, boardVars, reportVars>>
    /\ FewSlips

(****************************************************************************)
(* answerCommunity.                                                         *)
(****************************************************************************)
Written(a) == reply[a].at = "written"
RepliesOf(u, at) == {a \in Replies : reply[a].at = at /\ reply[a].author = u}

\* canAnswerCommunity, and one visible answer per author.
ReadQuestion(a, u) ==
    /\ reply[a].at = "absent"
    /\ board = "open" /\ ~hidden[Question]
    /\ \A b \in RepliesOf(u, "written") : hidden[b]
    /\ reply' = [reply EXCEPT ![a].at = "checking", ![a].author = u]
    /\ besides' = IF RepliesOf(u, "checking") = {} THEN besides
                  ELSE besides \cup {a} \cup RepliesOf(u, "checking")
    /\ UNCHANGED <<askVars, board, reportVars>>

\* Created whatever has become of the question during the check.
CreateReply(a) ==
    /\ reply[a].at = "checking"
    /\ reply' = [reply EXCEPT ![a].at = "written"]
    /\ UNCHANGED <<askVars, board, besides, reportVars>>

(****************************************************************************)
(* acceptCommunityAnswer: what it reads before the transaction is for ever. *)
(****************************************************************************)
BoardOpen == board = "open"

AcceptReply(a) ==
    /\ Written(a)
    /\ BoardOpen
    /\ board' = "resolved"
    /\ reply' = [reply EXCEPT ![a].accepted = TRUE]
    /\ UNCHANGED <<askVars, besides, reportVars>>

(****************************************************************************)
(* reportContent: the report, the count, and what the count says.           *)
(****************************************************************************)
\* Mutant: a report per click.
FirstReport_Any(r, x) == TRUE
\* qna_report is unique by target and reporter.
FirstReport(r, x) == <<x, r>> \notin reportRows

CreateReport(r, x) ==
    /\ reporter[r] = Ready
    /\ x \in {Question} \cup {a \in Replies : Written(a)}
    /\ FirstReport(r, x)
    /\ reportRows' = reportRows \cup {<<x, r>>}
    /\ reporter' = [reporter EXCEPT ![r] = [at |-> "raise", of |-> x]]
    /\ UNCHANGED <<askVars, boardVars, hidden, reports, unraised>>

RaiseCount(r) ==
    /\ reporter[r].at = "raise"
    /\ LET x == reporter[r].of
       IN /\ reports[x] < Cardinality(Reporters)   \* bound, never met: one report per reporter
          /\ reports' = [reports EXCEPT ![x] = @ + 1]
          /\ reporter' = [reporter EXCEPT ![r] =
                 IF reports[x] + 1 >= HideAt THEN [at |-> "hide", of |-> x] ELSE Ready]
    /\ UNCHANGED <<askVars, boardVars, hidden, reportRows, unraised>>

HideTarget(r) ==
    /\ reporter[r].at = "hide"
    /\ hidden' = [hidden EXCEPT ![reporter[r].of] = TRUE]
    /\ reporter' = [reporter EXCEPT ![r] = Ready]
    /\ UNCHANGED <<askVars, boardVars, reports, reportRows, unraised>>

ReportDies(r) ==
    /\ reporter[r] # Ready
    /\ unraised' = [unraised EXCEPT ![reporter[r].of] = @ + 1]
    /\ reporter' = [reporter EXCEPT ![r] = Ready]
    /\ UNCHANGED <<askVars, boardVars, hidden, reports, reportRows>>

PostNext ==
    \/ CounterIsLost
    \/ \E p \in Posters :
          \/ \E away \in BOOLEAN : ReadCounter(p, away)
          \/ CreatePost(p) \/ CountPost(p) \/ CountIsLost(p) \/ PosterDies(p)

BoardNext ==
    \/ \E a \in Replies :
          \/ CreateReply(a) \/ AcceptReply(a)
          \/ \E u \in Authors : ReadQuestion(a, u)
    \/ \E r \in Reporters :
          \/ RaiseCount(r) \/ HideTarget(r) \/ ReportDies(r)
          \/ \E x \in Targets : CreateReport(r, x)

CommunityNext == PostNext \/ BoardNext

CommunitySpec == CommunityInit /\ [][CommunityNext]_communityVars

(****************************************************************************)
(* Properties.                                                              *)
(****************************************************************************)
Reported(x) == Cardinality({row \in reportRows : row[1] = x})
Underway(x) == Cardinality({r \in Reporters : reporter[r] # Ready /\ reporter[r].of = x})

\* Reports of HideAt different users, and no fewer, hide a question or an answer,
\* and as many are enough unless one is under way or was cut short.
HiddenByMany(x) ==
    /\ hidden[x] => Reported(x) >= HideAt
    /\ Reported(x) - Underway(x) - unraised[x] >= HideAt => hidden[x]

\* Whatever answers, acceptances and reports overlap: one answer at most is accepted
\* and closes the question; an author has one visible answer unless two of his were
\* checked at once; it takes several users to hide anything; and the questions of a
\* day exceed the limit only by those asked together, asked while the cache could not
\* tell the count, or missing in the count because the cache or the process was gone.
BoardIsFair ==
    /\ \A a \in Replies : reply[a].accepted =>
          board = "resolved" /\ \A b \in Replies : reply[b].accepted => a = b
    /\ \A u \in Authors :
          Cardinality({a \in RepliesOf(u, "written") \ besides : ~hidden[a]}) <= 1
    /\ \A x \in Targets : HiddenByMany(x)
    /\ asked <= DailyLimit + uncounted + unlimited + Cardinality(Posters) - 1
=============================================================================
