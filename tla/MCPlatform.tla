------------------------------ MODULE MCPlatform ------------------------------
(****************************************************************************)
(* The TLC run of the components around the booking engine and the ledger.  *)
(* They keep their own tables, so the run explores them one at a time:      *)
(* focus, chosen at the start, names the one that moves, and the state space*)
(* is the sum of theirs and not their product.                              *)
(****************************************************************************)
EXTENDS MCPayments, Subscriptions, Entitlements, Qna, Community, ConsultRecording,
        ConsultReports, Assignment, Outbox, Quotas, GuardianLinks, Consulting,
        Evaluation, Announcements, AcademyClaims, Chat, Payroll,
        Availability

CONSTANTS paid1, question1, question2, question3,
          teacher1, code1, link1, handler1, runner1, client2, device2, device3, message2,
          edit1, reviewer2, claim3,
          window1

VARIABLE focus

moneyVars == <<paymentsVars, subscriptionsVars, entitlementsVars, payrollVars>>
questionVars == <<qnaVars, communityVars>>
mediaVars == <<recordingVars, reportsVars>>
messageVars == <<outboxVars, announcementVars>>
peopleVars == <<guardianVars, claimsVars, evaluationVars, consultingVars>>
platformVars == <<moneyVars, questionVars, mediaVars, messageVars, peopleVars,
                  assignmentVars, quotasVars, chatVars, availabilityVars, focus>>

Placements == [full |-> {"baechipyo-full", "baechipyo-jeongsi"},
               jeongsi |-> {"baechipyo-jeongsi"}]
OneOfEach == [c \in Codes |-> IF c = code1 THEN "full" ELSE "jeongsi"]
ValidToday == [c \in Codes |-> 1]
ForTwoDays == [c \in Codes |-> 2]

DesignatedOne == [q \in Questions |-> IF q = question1 THEN teacher1 ELSE None]
TwoEach == [p \in Purposes |-> 2]
OneTeacherDevice == [d \in Devices |-> IF d = device3 THEN "teacher" ELSE "student"]

\* One question at a time goes its whole way, of either kind.
OneQuestion ==
    /\ QnaNext
    /\ Cardinality({q \in Questions : post'[q].status # "absent"}) <= 1

\* The student and an administrator answer the link while plans go over it.
OneLinkCall ==
    \/ FirstRequest
    \/ Respond(link1)
    \/ \E to \in {"approved", "revoked"} : ReadRespond(link1, FALSE, to)

\* The reminders of a report that one teacher sends, again after a new draft.
OneReviewer == ReportsNext /\ UNCHANGED <<views, guardianShared, reviewer[reviewer2]>>

\* Two claims in every order, and a third that is handled alone before, between or after.
OneAlone ==
    /\ ClaimsNext
    /\ claim3 \in UnderWay' => Cardinality({d \in Desks : desk'[d] # Closed}) = 1

\* The windows of the assignment are alike: the first goes first.
InOrder == placed' # {} => \E b \in placed' : b[2] = window1

\* Two days of four slots: cut in two, off the grid on the first; or without work.
Interval(from, to) == [start |-> from, end |-> to]
WorkOrRest == {<<{Interval(1, 4), Interval(4, 8)}, {Interval(0, 3), Interval(4, 8)}>>,
               <<{}, {}>>}
SecondShorter == {<<>>, [d \in {2} |-> {Interval(2, 8)}]}
HomeEarly == <<{Interval(0, 8)}, {Interval(0, 6)}>>
OnceBlocked == <<{Interval(5, 6)}, {}>>

\* Sessions come and go while the schedule is edited, one edit at a time.
OneEdit == EditNext /\ \A e \in Edits \ {edit1} : edit'[e] = AtEase

\* The student and the teacher over one message; two devices of the student and
\* two messages past the end, where nobody leaves.
OverOneMessage ==
    /\ ChatNext /\ UNCHANGED <<phase, message[message2], socket[device2]>>
    /\ \A d \in Devices : ~(call[d].at = "still" /\ call'[d].at # "still" /\ call'[d].of = message2)
PastTheEnd ==
    /\ ChatNext /\ UNCHANGED socket[device3]
    /\ \A d \in Devices : /\ socket'[d].at = "out" => socket[d].at = "out"
                          /\ call'[d].at # "react"

Init ==
    /\ PaymentsInit /\ SubscriptionsInit /\ EntitlementsInit /\ QnaInit /\ CommunityInit
    /\ RecordingInit /\ ReportsInit /\ AssignmentInit /\ OutboxInit /\ QuotasInit
    /\ GuardianInit /\ ConsultingInit /\ EvaluationInit /\ AnnouncementsInit /\ ClaimsInit
    /\ ChatInit /\ PayrollInit /\ AvailabilityInit
    /\ focus \in {"webhook", "requests", "billing", "subscribing", "entitlements",
                  "wallet", "question", "posting", "board", "recording", "reports",
                  "reminders", "outbox", "announcements", "links", "plans", "claims", "rating",
                  "consulting", "fill", "escalate", "reverse", "quotas",
                  "room", "free", "payroll", "calendar", "schedule"}
    /\ focus \notin {"billing", "subscribing"} => sub = [s \in Subs |-> Absent]
    /\ focus \notin {"calendar", "schedule"} => schedule.template = <<{}, {}>>

MoneyMoves ==
    /\ \/ /\ \/ focus = "webhook" /\ (SpendPurchased \/ \E h \in Handlers : HandlerStep(h))
                /\ \A e \in {lacking2, failed2} : paymentEvent'[e] = "none"
             \/ focus = "requests" /\ (RequestsNext \/ HandlerStep(handler1))
                /\ \A e \in Events \ {paid1, refund1, lacking2, failed2} : paymentEvent'[e] = "none"
                /\ "none" \in {paymentEvent'[lacking2], paymentEvent'[failed2]}
          /\ UNCHANGED <<subscriptionsVars, entitlementsVars, payrollVars>>
       \/ /\ \/ focus = "billing" /\ (NextPeriod \/ \E r \in Runners : RunnerStep(r))
             \/ focus = "subscribing" /\ (NextPeriod \/ RunnerStep(runner1)
                                           \/ \E c \in Subscribers : SubscriberStep(c))
          /\ UNCHANGED <<paymentsVars, entitlementsVars, payrollVars>>
       \/ focus = "entitlements" /\ EntitlementsNext
          /\ UNCHANGED <<paymentsVars, subscriptionsVars, payrollVars>>
       \/ focus = "payroll" /\ PayrollNext
          /\ UNCHANGED <<paymentsVars, subscriptionsVars, entitlementsVars>>
    /\ UNCHANGED <<questionVars, mediaVars, messageVars, peopleVars, assignmentVars, quotasVars, chatVars,
                 availabilityVars, focus>>

QuestionsMove ==
    /\ \/ focus = "wallet" /\ AskNext /\ UNCHANGED communityVars
       \/ focus = "question" /\ OneQuestion /\ UNCHANGED communityVars
       \/ focus = "posting" /\ PostNext /\ UNCHANGED qnaVars
       \/ focus = "board" /\ BoardNext /\ UNCHANGED qnaVars
    /\ UNCHANGED <<moneyVars, mediaVars, messageVars, peopleVars, assignmentVars, quotasVars, chatVars,
                 availabilityVars, focus>>

MediaMove ==
    /\ \/ focus = "recording" /\ RecordingNext /\ UNCHANGED reportsVars
       \/ focus = "reports" /\ DraftNext /\ UNCHANGED recordingVars
       \/ focus = "reminders" /\ OneReviewer /\ UNCHANGED recordingVars
    /\ UNCHANGED <<moneyVars, questionVars, messageVars, peopleVars, assignmentVars, quotasVars, chatVars,
                 availabilityVars, focus>>

MessagesMove ==
    /\ \/ focus = "outbox" /\ OutboxNext /\ UNCHANGED announcementVars
       \/ focus = "announcements" /\ AnnouncementsNext /\ UNCHANGED outboxVars
    /\ UNCHANGED <<moneyVars, questionVars, mediaVars, peopleVars, assignmentVars, quotasVars, chatVars,
                 availabilityVars, focus>>

PeopleMove ==
    /\ \/ focus = "links" /\ LinkNext /\ UNCHANGED <<claimsVars, evaluationVars, consultingVars>>
       \/ focus = "plans" /\ (PlanNext \/ OneLinkCall)
          /\ UNCHANGED <<claimsVars, evaluationVars, consultingVars>>
       \/ focus = "claims" /\ OneAlone /\ UNCHANGED <<guardianVars, evaluationVars, consultingVars>>
       \/ focus = "rating" /\ EvaluationNext /\ UNCHANGED <<guardianVars, claimsVars, consultingVars>>
       \/ focus = "consulting" /\ ConsultingNext /\ UNCHANGED <<guardianVars, claimsVars, evaluationVars>>
    /\ UNCHANGED <<moneyVars, questionVars, mediaVars, messageVars, assignmentVars, quotasVars, chatVars,
                 availabilityVars, focus>>

AssignmentMoves ==
    /\ \/ focus = "fill" /\ FillNext /\ client'[client2] = AtRest
       \/ focus = "escalate" /\ EscalateNext
       \/ focus = "reverse" /\ ReverseNext
    /\ InOrder
    /\ UNCHANGED <<moneyVars, questionVars, mediaVars, messageVars, peopleVars, quotasVars, chatVars,
                 availabilityVars, focus>>

QuotasMove ==
    /\ focus = "quotas" /\ QuotasNext
    /\ UNCHANGED <<moneyVars, questionVars, mediaVars, messageVars, peopleVars, assignmentVars, chatVars,
                 availabilityVars, focus>>

ChatMoves ==
    /\ \/ focus = "room" /\ OverOneMessage
       \/ focus = "free" /\ PastTheEnd
    /\ UNCHANGED <<moneyVars, questionVars, mediaVars, messageVars, peopleVars, assignmentVars,
                 quotasVars, availabilityVars, focus>>

CalendarMoves ==
    /\ \/ focus = "calendar" /\ (PlacingNext \/ OneEdit)
       \/ focus = "schedule" /\ EditNext
    /\ UNCHANGED <<moneyVars, questionVars, mediaVars, messageVars, peopleVars, assignmentVars,
                 quotasVars, chatVars, focus>>

Next ==
    \/ MoneyMoves \/ QuestionsMove \/ MediaMove \/ MessagesMove
    \/ PeopleMove \/ AssignmentMoves \/ QuotasMove \/ ChatMoves \/ CalendarMoves

Spec == Init /\ [][Next]_platformVars
=============================================================================
