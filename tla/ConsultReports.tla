---------------------------- MODULE ConsultReports ----------------------------
(****************************************************************************)
(* consult_report and its two views, for one consultation.  The pipeline    *)
(* writes a draft from the recording after minutes of transcription; the    *)
(* teacher (or an administrator) makes views, edits, approves and sends;    *)
(* the student opens and shares.  Every request checks the status on a row  *)
(* read before; only sending writes under a condition, and notifies after   *)
(* the answer.  A daily job on every instance reminds of an unopened report,*)
(* unless a reminder's notification row exists, written after the reminder. *)
(****************************************************************************)
EXTENDS Integers, FiniteSets

CONSTANTS
    Reviewers,      \* requests of teacher and administrators in flight
    Pipelines,      \* runs of process in flight
    Reminders,      \* runs of the reminder job, one per instance of the API
    GuardianSees,   \* consultation_note.guardian_visible
    MaxSendings,    \* bound: sendings that are counted
    MaxStray        \* bound: reminders begun beside another or left without a row

Audiences == {"student", "guardian"}

ASSUME ReportsAssumption ==
    /\ GuardianSees \in BOOLEAN /\ {MaxSendings, MaxStray} \subseteq Nat
    /\ IsFiniteSet(Reminders)

VARIABLES
    report,     \* consult_report: status, opened_at
    views,      \* consult_report_view: status of each, or "none"
    guardianShared,  \* shared_at of the guardian's view
    reviewer, pipeline, reminder,  \* what each is doing
    reminderRow, \* there is a consult_report_reminder notification of the report
    telling,    \* notifications of a sending that are still to be delivered
    sendings,   \* history: how often the report became sent
    notices, untold, \* history: notifications of a sending that were and were not delivered
    reminded,   \* history: reminders delivered
    crowded,    \* history: reminders begun while another had no row yet
    rowless     \* history: reminders delivered whose row was never written

noticeVars == <<telling, sendings, notices, untold>>
reminderVars == <<reminder, reminderRow, reminded, crowded, rowless>>
reportsVars == <<report, views, guardianShared, reviewer, pipeline, noticeVars, reminderVars>>

Unoccupied == [at |-> "idle"]

ReportsInit ==
    /\ report = [status |-> "none", opened |-> FALSE]
    /\ views = [a \in Audiences |-> "none"]
    /\ guardianShared = FALSE
    /\ reviewer = [c \in Reviewers |-> Unoccupied]
    /\ pipeline = [p \in Pipelines |-> Unoccupied]
    /\ reminder = [j \in Reminders |-> Unoccupied]
    /\ reminderRow = FALSE
    /\ telling = 0 /\ sendings = 0 /\ notices = 0 /\ untold = 0
    /\ reminded = 0 /\ crowded = 0 /\ rowless = 0

Starts(c, at) == reviewer[c] = Unoccupied /\ reviewer' = [reviewer EXCEPT ![c] = [at |-> at]]
Moves(c, at) == reviewer' = [reviewer EXCEPT ![c] = [at |-> at]]
Ends(c) == reviewer' = [reviewer EXCEPT ![c] = Unoccupied]

(****************************************************************************)
(* process: on the stored recording, by a retry, or by rebuild.             *)
(****************************************************************************)
StartProcess(p) ==
    /\ pipeline[p] = Unoccupied
    /\ report.status \in {"none", "draft"}
    /\ pipeline' = [pipeline EXCEPT ![p] = [at |-> "save"]]
    /\ UNCHANGED <<report, views, guardianShared, reviewer, noticeVars, reminderVars>>

\* The upsert makes a draft of whatever the report has become meanwhile.
SaveDraft(p) ==
    /\ pipeline[p].at = "save"
    /\ report' = [report EXCEPT !.status = "draft"]
    /\ pipeline' = [pipeline EXCEPT ![p] = Unoccupied]
    /\ UNCHANGED <<views, guardianShared, reviewer, noticeVars, reminderVars>>

ProcessFails(p) ==
    /\ pipeline[p].at = "save"
    /\ pipeline' = [pipeline EXCEPT ![p] = Unoccupied]
    /\ UNCHANGED <<report, views, guardianShared, reviewer, noticeVars, reminderVars>>

(****************************************************************************)
(* generateViews: the parent report, the two views, then the status.        *)
(****************************************************************************)
ReadGenerate(c) ==
    /\ report.status # "sent"
    /\ Starts(c, "views")
    /\ report' = IF report.status = "none" THEN [report EXCEPT !.status = "draft"] ELSE report
    /\ UNCHANGED <<views, guardianShared, pipeline, noticeVars, reminderVars>>

WriteViews(c) ==
    /\ reviewer[c].at = "views"
    /\ views' = [student |-> "draft", guardian |-> IF GuardianSees THEN "draft" ELSE "none"]
    /\ guardianShared' = IF GuardianSees THEN guardianShared ELSE FALSE
    /\ Moves(c, "redraft")
    /\ UNCHANGED <<report, pipeline, noticeVars, reminderVars>>

\* Also the last write of updateView, when the report it read was approved.
Redraft(c) ==
    /\ reviewer[c].at = "redraft"
    /\ report' = [report EXCEPT !.status = "draft"]
    /\ Ends(c)
    /\ UNCHANGED <<views, guardianShared, pipeline, noticeVars, reminderVars>>

\* The model behind consultReportViews fails: only the parent report stays.
GenerateFails(c) ==
    /\ reviewer[c].at = "views"
    /\ Ends(c)
    /\ UNCHANGED <<report, views, guardianShared, pipeline, noticeVars, reminderVars>>

(****************************************************************************)
(* updateView, approve, approveViews.                                       *)
(****************************************************************************)
ReadUpdateView(c, a) ==
    /\ report.status \in {"draft", "approved"}
    /\ views[a] # "none"
    /\ reviewer[c] = Unoccupied
    /\ reviewer' = [reviewer EXCEPT ![c] =
           [at |-> "edit", of |-> a, approved |-> report.status = "approved"]]
    /\ UNCHANGED <<report, views, guardianShared, pipeline, noticeVars, reminderVars>>

EditView(c) ==
    /\ reviewer[c].at = "edit"
    /\ LET a == reviewer[c].of
       IN views' = IF views[a] = "none" THEN views ELSE [views EXCEPT ![a] = "draft"]
    /\ IF reviewer[c].approved THEN Moves(c, "redraft") ELSE Ends(c)
    /\ UNCHANGED <<report, guardianShared, pipeline, noticeVars, reminderVars>>

ReadApprove(c) ==
    /\ report.status \in {"draft", "approved"}
    /\ Starts(c, "approve")
    /\ UNCHANGED <<report, views, guardianShared, pipeline, noticeVars, reminderVars>>

Approve(c) ==
    /\ reviewer[c].at = "approve"
    /\ report' = [report EXCEPT !.status = "approved"]
    /\ Ends(c)
    /\ UNCHANGED <<views, guardianShared, pipeline, noticeVars, reminderVars>>

ReadApproveViews(c) ==
    /\ report.status \in {"draft", "approved"}
    /\ views["student"] # "none"
    /\ Starts(c, "approve views")
    /\ UNCHANGED <<report, views, guardianShared, pipeline, noticeVars, reminderVars>>

ApproveViews(c) ==
    /\ reviewer[c].at = "approve views"
    /\ views' = [a \in Audiences |-> IF views[a] = "none" THEN "none" ELSE "approved"]
    /\ Moves(c, "approve")
    /\ UNCHANGED <<report, guardianShared, pipeline, noticeVars, reminderVars>>

(****************************************************************************)
(* send and sendViews; the latter also wants a view for the student.        *)
(****************************************************************************)
ReadSend(c) ==
    /\ report.status = "approved"
    /\ Starts(c, "send")
    /\ UNCHANGED <<report, views, guardianShared, pipeline, noticeVars, reminderVars>>

\* Mutant: updated by id only.
StillApproved_ById == TRUE
\* updateMany where status = approved.
StillApproved == report.status = "approved"

SendReport(c) ==
    /\ reviewer[c].at = "send"
    /\ sendings < MaxSendings
    /\ IF StillApproved
       THEN /\ report' = [report EXCEPT !.status = "sent"]
            /\ sendings' = IF report.status = "sent" THEN sendings ELSE sendings + 1
            /\ telling' = telling + 1
       ELSE UNCHANGED <<report, sendings, telling>>
    /\ Ends(c)
    /\ UNCHANGED <<views, guardianShared, pipeline, notices, untold, reminderVars>>

\* notify is not waited for.
NoticeDelivered ==
    /\ telling > 0
    /\ telling' = telling - 1 /\ notices' = notices + 1
    /\ UNCHANGED <<report, views, guardianShared, reviewer, pipeline, sendings, untold, reminderVars>>

\* notify swallows its failure; the process may die before it.
NoticeLost ==
    /\ telling > 0
    /\ telling' = telling - 1 /\ untold' = untold + 1
    /\ UNCHANGED <<report, views, guardianShared, reviewer, pipeline, sendings, notices, reminderVars>>

(****************************************************************************)
(* The student opens the report and shares it; the daily reminder.          *)
(****************************************************************************)
OpenReport ==
    /\ report.status = "sent" /\ ~report.opened
    /\ report' = [report EXCEPT !.opened = TRUE]
    /\ UNCHANGED <<views, guardianShared, reviewer, pipeline, noticeVars, reminderVars>>

ShareToGuardian ==
    /\ report.status = "sent" /\ views["guardian"] # "none" /\ ~guardianShared
    /\ guardianShared' = TRUE
    /\ UNCHANGED <<report, views, reviewer, pipeline, noticeVars, reminderVars>>

ListUnopened(j) ==
    /\ reminder[j] = Unoccupied
    /\ report.status = "sent" /\ ~report.opened
    /\ reminder' = [reminder EXCEPT ![j] = [at |-> "check"]]
    /\ UNCHANGED <<report, views, guardianShared, reviewer, pipeline, noticeVars,
                   reminderRow, reminded, crowded, rowless>>

\* Bound on what the histories count.
FewCrossings == crowded' + rowless' <= MaxStray

Already == reminderRow
RowToCome(j) == reminder[j].at \in {"remind", "record"}

LookUpReminder(j) ==
    /\ reminder[j].at = "check"
    /\ reminder' = [reminder EXCEPT ![j] = IF Already THEN Unoccupied ELSE [at |-> "remind"]]
    /\ crowded' = IF ~Already /\ \E k \in Reminders : RowToCome(k) THEN crowded + 1 ELSE crowded
    /\ UNCHANGED <<report, views, guardianShared, reviewer, pipeline, noticeVars,
                   reminderRow, reminded, rowless>>
    /\ FewCrossings

\* notify delivers and then creates the row.
Remind(j) ==
    /\ reminder[j].at = "remind"
    /\ reminded' = reminded + 1
    /\ reminder' = [reminder EXCEPT ![j] = [at |-> "record"]]
    /\ UNCHANGED <<report, views, guardianShared, reviewer, pipeline, noticeVars,
                   reminderRow, crowded, rowless>>

RecordReminder(j) ==
    /\ reminder[j].at = "record"
    /\ reminderRow' = TRUE
    /\ reminder' = [reminder EXCEPT ![j] = Unoccupied]
    /\ UNCHANGED <<report, views, guardianShared, reviewer, pipeline, noticeVars,
                   reminded, crowded, rowless>>

\* A failure that notify swallows, or the end of the run.
ReminderDies(j) ==
    /\ reminder[j] # Unoccupied
    /\ rowless' = IF reminder[j].at = "record" THEN rowless + 1 ELSE rowless
    /\ reminder' = [reminder EXCEPT ![j] = Unoccupied]
    /\ UNCHANGED <<report, views, guardianShared, reviewer, pipeline, noticeVars,
                   reminderRow, reminded, crowded>>
    /\ FewCrossings

DraftNext ==
    \/ \E p \in Pipelines : StartProcess(p) \/ SaveDraft(p) \/ ProcessFails(p)
    \/ \E c \in Reviewers :
          \/ ReadGenerate(c) \/ WriteViews(c) \/ Redraft(c) \/ GenerateFails(c)
          \/ EditView(c) \/ ReadApprove(c) \/ Approve(c)
          \/ ReadApproveViews(c) \/ ApproveViews(c) \/ ReadSend(c) \/ SendReport(c)
          \/ \E a \in Audiences : ReadUpdateView(c, a)
    \/ NoticeDelivered \/ NoticeLost \/ OpenReport \/ ShareToGuardian

ReminderNext ==
    \E j \in Reminders :
        \/ ListUnopened(j) \/ LookUpReminder(j) \/ Remind(j)
        \/ RecordReminder(j) \/ ReminderDies(j)

ReportsNext == DraftNext \/ ReminderNext

ReportsSpec == ReportsInit /\ [][ReportsNext]_reportsVars

(****************************************************************************)
(* Properties.                                                              *)
(****************************************************************************)
\* Every time the report became sent the student is notified once, or the one
\* notification got lost, whatever sendings, approvals and drafts overlap.  Of an
\* unopened report he is reminded once, even if it is drafted, approved and sent again,
\* but for runs of the job that looked before the other's row was there and for
\* reminders whose row was never written.
OneNoticePerSending ==
    /\ notices + untold + telling = sendings
    /\ reminded <= 1 + crowded + rowless
=============================================================================
