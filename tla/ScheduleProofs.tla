----------------------------- MODULE ScheduleProofs -----------------------------
(****************************************************************************)
(* The jobs that run by the clock, and the counters and calendars they go   *)
(* by: announcements, automatic assignment, the quotas of the language      *)
(* model and the outbox, for every number of runs, of rows and of accounts. *)
(****************************************************************************)
EXTENDS Announcements, Assignment, Quotas, Outbox, FiniteSetTheorems, WellFoundedInduction, TLAPS

(****************************************************************************)
(* Announcements: each row is claimed before anything is sent for it.       *)
(****************************************************************************)
RowRecords == [status : {"absent", "pending", "sent", "cancelled"}, reminder : BOOLEAN,
               count : {Uncounted, Cardinality(Audience)}]

RunRecords ==
    [at : {"none", "remind", "due"}, left : SUBSET Announcements]
    \cup [at : {"notify"}, left : SUBSET Announcements, of : Announcements]
    \cup [at : {"dispatch"}, left : SUBSET Announcements, of : Announcements, to : SUBSET Audience]

AnnouncementTypeOK ==
    /\ row \in [Announcements -> RowRecords]
    /\ tickRun \in [TickRuns -> RunRecords]
    /\ heard \in [Announcements -> [Audience -> Nat]]
    /\ foretold \in [Announcements -> Nat]

\* A run that is about to tell the author has claimed the reminder, alone, and nobody
\* told him before.
ForetoldInTurn(n) ==
    /\ foretold[n] \in {0, 1}
    /\ foretold[n] = 1 => row[n].reminder
    /\ \A r \in TickRuns : tickRun[r].at = "notify" /\ tickRun[r].of = n =>
          /\ row[n].reminder /\ foretold[n] = 0
          /\ \A s \in TickRuns \ {r} : ~(tickRun[s].at = "notify" /\ tickRun[s].of = n)

\* A run that sends has claimed the row, alone; whom it has passed has heard it once.
SentInTurn(n) ==
    /\ \A a \in Audience : heard[n][a] \in {0, 1}
    /\ row[n].status # "sent" => n \notin cutShort /\ \A a \in Audience : heard[n][a] = 0
    /\ \A r \in TickRuns : tickRun[r].at = "dispatch" /\ tickRun[r].of = n =>
          /\ row[n].status = "sent" /\ n \notin cutShort
          /\ \A a \in Audience : heard[n][a] = IF a \in tickRun[r].to THEN 0 ELSE 1
          /\ \A s \in TickRuns \ {r} : ~(tickRun[s].at = "dispatch" /\ tickRun[s].of = n)
    /\ row[n].status = "sent" /\ ~Sending(n) /\ n \notin cutShort =>
          /\ row[n].count = Cardinality(Audience)
          /\ \A a \in Audience : heard[n][a] = 1

HeardInv ==
    /\ AnnouncementTypeOK
    /\ \A n \in Announcements : ForetoldInTurn(n) /\ SentInTurn(n)

\* What a run holds.
LEMMA RunShape ==
    ASSUME AnnouncementTypeOK, NEW r \in TickRuns
    PROVE  /\ tickRun[r].at \in {"none", "remind", "due", "notify", "dispatch"}
           /\ tickRun[r].left \subseteq Announcements
           /\ tickRun[r].at \in {"notify", "dispatch"} => tickRun[r].of \in Announcements
           /\ tickRun[r].at = "dispatch" => tickRun[r].to \subseteq Audience
           /\ tickRun[r].at \in {"remind", "due"} =>
                 tickRun[r] = [at |-> tickRun[r].at, left |-> tickRun[r].left]
           /\ tickRun[r].at = "dispatch" =>
                 tickRun[r] = [at |-> "dispatch", left |-> tickRun[r].left, of |-> tickRun[r].of,
                               to |-> tickRun[r].to]
  BY DEF AnnouncementTypeOK, RunRecords

\* What a row is made of.
LEMMA RowShape ==
    ASSUME AnnouncementTypeOK, NEW n \in Announcements
    PROVE  row[n] = [status |-> row[n].status, reminder |-> row[n].reminder, count |-> row[n].count]
           /\ row[n].status \in {"absent", "pending", "sent", "cancelled"}
           /\ row[n].reminder \in BOOLEAN /\ row[n].count \in {Uncounted, Cardinality(Audience)}
  BY DEF AnnouncementTypeOK, RowRecords

\* What a step changes in a row.
LEMMA RowChanges ==
    ASSUME AnnouncementTypeOK, NEW n \in Announcements
    PROVE  /\ \A new : [row[n] EXCEPT !.status = new]
                     = [status |-> new, reminder |-> row[n].reminder, count |-> row[n].count]
           /\ \A new : [row[n] EXCEPT !.reminder = new]
                     = [status |-> row[n].status, reminder |-> new, count |-> row[n].count]
           /\ \A new : [row[n] EXCEPT !.count = new]
                     = [status |-> row[n].status, reminder |-> row[n].reminder, count |-> new]
  <1>1. PICK s, b, c : row[n] = [status |-> s, reminder |-> b, count |-> c]
    BY RowShape
  <1> QED BY <1>1

\* Every run but one stays.
LEMMA RunMoves ==
    ASSUME AnnouncementTypeOK, NEW r \in TickRuns, NEW to \in RunRecords, Runs(r, to)
    PROVE  tickRun'[r] = to /\ (\A s \in TickRuns \ {r} : tickRun'[s] = tickRun[s])
           /\ tickRun' \in [TickRuns -> RunRecords]
  BY DEF AnnouncementTypeOK, Runs

\* A run that takes up or puts down rows, and neither tells nor sends before or after.
LEMMA RunTurns ==
    ASSUME HeardInv, NEW r \in TickRuns, NEW to \in RunRecords, Runs(r, to),
           tickRun[r].at \in {"none", "remind", "due", "notify"}, to.at \in {"none", "remind", "due"},
           UNCHANGED <<row, heard, foretold, cutShort>>
    PROVE  HeardInv'
  <1>1. tickRun'[r] = to /\ (\A s \in TickRuns \ {r} : tickRun'[s] = tickRun[s])
        /\ tickRun' \in [TickRuns -> RunRecords]
    BY RunMoves DEF HeardInv
  <1>2. AnnouncementTypeOK'
    BY <1>1 DEF HeardInv, AnnouncementTypeOK
  <1>3. ASSUME NEW n \in Announcements PROVE ForetoldInTurn(n)' /\ SentInTurn(n)'
    <2>1. ForetoldInTurn(n)'
      BY <1>1 DEF HeardInv, ForetoldInTurn
    <2>2. Sending(n)' <=> Sending(n)
      BY <1>1 DEF Sending
    <2>3. SentInTurn(n)'
      BY <1>1, <2>2 DEF HeardInv, SentInTurn
    <2> QED BY <2>1, <2>3
  <1> QED BY <1>2, <1>3 DEF HeardInv

\* A row is written or cancelled, and no run moves.
LEMMA RowsChange ==
    ASSUME HeardInv, UNCHANGED <<tickRun, heard, foretold, cutShort>>,
           row' \in [Announcements -> RowRecords],
           \A n \in Announcements :
              \/ row'[n] = row[n]
              \/ /\ row[n].status # "sent" /\ row'[n].status # "sent"
                 /\ row'[n].reminder = row[n].reminder
    PROVE  HeardInv'
  <1>1. AnnouncementTypeOK'
    BY DEF HeardInv, AnnouncementTypeOK
  <1>2. ASSUME NEW n \in Announcements PROVE ForetoldInTurn(n)' /\ SentInTurn(n)'
    BY DEF HeardInv, ForetoldInTurn, SentInTurn, Sending
  <1> QED BY <1>1, <1>2 DEF HeardInv

\* The author is told in advance.
LEMMA RemindersStep ==
    ASSUME HeardInv, NEW r \in TickRuns,
           NotifyAuthor(r) \/ \E n \in Announcements : ClaimReminder(r, n)
    PROVE  HeardInv'
  <1> USE DEF HeardInv
  <1>1. ASSUME NEW n \in Announcements, ClaimReminder(r, n), Unreminded(n) PROVE HeardInv'
    <2> DEFINE to == [at |-> "notify", left |-> tickRun[r].left, of |-> n]
    <2>1. tickRun[r].at = "remind" /\ row' = [row EXCEPT ![n].reminder = TRUE] /\ Runs(r, to)
          /\ UNCHANGED <<heard, foretold, cutShort>> /\ ~row[n].reminder
      BY <1>1 DEF ClaimReminder, Unreminded
    <2>2. to \in RunRecords
      BY RunShape DEF RunRecords
    <2>3. tickRun'[r] = to /\ (\A s \in TickRuns \ {r} : tickRun'[s] = tickRun[s])
          /\ tickRun' \in [TickRuns -> RunRecords]
      BY <2>1, <2>2, RunMoves
    <2> DEFINE claimed == [status |-> row[n].status, reminder |-> TRUE, count |-> row[n].count]
    <2>4. row' = [row EXCEPT ![n] = claimed] /\ claimed \in RowRecords
      <3>1. [row[n] EXCEPT !.reminder = TRUE] = claimed
        BY RowChanges
      <3>2. claimed \in RowRecords
        BY RowShape DEF RowRecords
      <3> QED BY <2>1, <3>1, <3>2
    <2>5. AnnouncementTypeOK'
      <3> HIDE DEF claimed
      <3> QED BY <2>1, <2>3, <2>4 DEF AnnouncementTypeOK
    <2>6. row'[n].reminder /\ row'[n].status = row[n].status /\ row'[n].count = row[n].count
          /\ \A m \in Announcements \ {n} : row'[m] = row[m]
      BY <2>4 DEF AnnouncementTypeOK
    <2>7. to.at = "notify" /\ to.of = n
      OBVIOUS
    <2> HIDE DEF to
    <2>8. ASSUME NEW m \in Announcements PROVE ForetoldInTurn(m)'
      BY <2>1, <2>3, <2>6, <2>7 DEF ForetoldInTurn
    <2>9. ASSUME NEW m \in Announcements PROVE SentInTurn(m)'
      <3>1. Sending(m)' <=> Sending(m)
        BY <2>1, <2>3, <2>7 DEF Sending
      <3>2. row'[m].status = row[m].status /\ row'[m].count = row[m].count
        BY <2>6
      <3> QED BY <2>1, <2>3, <2>7, <3>1, <3>2 DEF SentInTurn
    <2> QED BY <2>5, <2>8, <2>9
  <1>2. ASSUME NEW n \in Announcements, ClaimReminder(r, n), ~Unreminded(n) PROVE HeardInv'
    <2>1. tickRun[r].at = "remind" /\ row' = [row EXCEPT ![n].reminder = TRUE] /\ row[n].reminder
          /\ Runs(r, [tickRun[r] EXCEPT !.left = tickRun[r].left \ {n}])
          /\ UNCHANGED <<heard, foretold, cutShort>>
      BY <1>2 DEF ClaimReminder, Unreminded
    <2>2. row' = row
      BY <2>1, RowShape DEF AnnouncementTypeOK
    <2>3. Runs(r, [at |-> "remind", left |-> tickRun[r].left \ {n}])
      <3>1. tickRun[r] = [at |-> "remind", left |-> tickRun[r].left]
        BY <2>1, RunShape
      <3>2. [tickRun[r] EXCEPT !.left = tickRun[r].left \ {n}]
            = [at |-> "remind", left |-> tickRun[r].left \ {n}]
        BY <3>1
      <3> QED BY <2>1, <3>2
    <2>4. [at |-> "remind", left |-> tickRun[r].left \ {n}] \in RunRecords
      BY RunShape DEF RunRecords
    <2> QED BY <2>1, <2>2, <2>3, <2>4, RunTurns
  <1>3. CASE NotifyAuthor(r)
    <2>1. PICK n \in Announcements : tickRun[r].of = n
      BY <1>3, RunShape DEF NotifyAuthor
    <2> DEFINE to == [at |-> "remind", left |-> tickRun[r].left \ {n}]
    <2>2. tickRun[r].at = "notify" /\ foretold' = [foretold EXCEPT ![n] = @ + 1] /\ Runs(r, to)
          /\ UNCHANGED <<row, heard, cutShort>>
      BY <1>3, <2>1 DEF NotifyAuthor
    <2>3. to \in RunRecords /\ to.at = "remind"
      BY RunShape DEF RunRecords
    <2> HIDE DEF to
    <2>4. tickRun'[r] = to /\ (\A s \in TickRuns \ {r} : tickRun'[s] = tickRun[s])
          /\ tickRun' \in [TickRuns -> RunRecords]
      BY <2>2, <2>3, RunMoves
    <2>5. foretold[n] = 0 /\ row[n].reminder
      BY <2>1, <2>2 DEF ForetoldInTurn
    <2>6. foretold'[n] = 1 /\ \A m \in Announcements \ {n} : foretold'[m] = foretold[m]
      BY <2>2, <2>5 DEF AnnouncementTypeOK
    <2>7. AnnouncementTypeOK'
      BY <2>2, <2>4 DEF AnnouncementTypeOK
    <2>8. ASSUME NEW m \in Announcements PROVE ForetoldInTurn(m)'
      BY <2>1, <2>2, <2>3, <2>4, <2>5, <2>6 DEF ForetoldInTurn
    <2>9. ASSUME NEW m \in Announcements PROVE SentInTurn(m)'
      <3>1. Sending(m)' <=> Sending(m)
        BY <2>2, <2>3, <2>4 DEF Sending
      <3> QED BY <2>2, <2>3, <2>4, <3>1 DEF SentInTurn
    <2> QED BY <2>7, <2>8, <2>9
  <1> QED BY <1>1, <1>2, <1>3

\* A run claims what is due, sends it and writes the count.
LEMMA SendingStep ==
    ASSUME HeardInv, NEW r \in TickRuns,
           \/ WriteCount(r) \/ TickDies(r)
           \/ \E n \in Announcements : ClaimDue(r, n)
           \/ \E a \in Audience : Dispatch(r, a)
    PROVE  HeardInv'
  <1> USE DEF HeardInv
  <1>1. ASSUME NEW n \in Announcements, ClaimDue(r, n), StillPendingRow(n) PROVE HeardInv'
    <2> DEFINE to == [at |-> "dispatch", left |-> tickRun[r].left, of |-> n, to |-> Audience]
               sent == [status |-> "sent", reminder |-> row[n].reminder, count |-> row[n].count]
    <2>1. tickRun[r].at = "due" /\ row' = [row EXCEPT ![n].status = "sent"] /\ Runs(r, to)
          /\ row[n].status = "pending" /\ UNCHANGED <<heard, foretold, cutShort>>
      BY <1>1 DEF ClaimDue, StillPendingRow
    <2>2. to \in RunRecords /\ to.at = "dispatch" /\ to.of = n /\ to.to = Audience
      BY RunShape DEF RunRecords
    <2>3. row' = [row EXCEPT ![n] = sent] /\ sent \in RowRecords
      <3>1. [row[n] EXCEPT !.status = "sent"] = sent
        BY RowChanges
      <3>2. sent \in RowRecords
        BY RowShape DEF RowRecords
      <3> QED BY <2>1, <3>1, <3>2
    <2>4. sent.status = "sent" /\ sent.reminder = row[n].reminder
      OBVIOUS
    <2> HIDE DEF to, sent
    <2>5. tickRun'[r] = to /\ (\A s \in TickRuns \ {r} : tickRun'[s] = tickRun[s])
          /\ tickRun' \in [TickRuns -> RunRecords]
      BY <2>1, <2>2, RunMoves
    <2>6. AnnouncementTypeOK'
      BY <2>1, <2>3, <2>5 DEF AnnouncementTypeOK
    <2>7. row'[n] = sent /\ \A m \in Announcements \ {n} : row'[m] = row[m]
      BY <2>3 DEF AnnouncementTypeOK
    <2>8. ASSUME NEW m \in Announcements PROVE ForetoldInTurn(m)'
      <3>1. row'[m].reminder = row[m].reminder
        BY <2>4, <2>7
      <3> QED BY <2>1, <2>2, <2>5, <3>1 DEF ForetoldInTurn
    <2>9. ASSUME NEW m \in Announcements \ {n} PROVE SentInTurn(m)'
      <3>1. Sending(m)' <=> Sending(m)
        BY <2>1, <2>2, <2>5 DEF Sending
      <3> QED BY <2>1, <2>2, <2>5, <2>7, <3>1 DEF SentInTurn
    <2>10. SentInTurn(n)'
      <3>1. Sending(n)'
        BY <2>2, <2>5 DEF Sending
      <3>2. \A s \in TickRuns : ~(tickRun[s].at = "dispatch" /\ tickRun[s].of = n)
        BY <2>1 DEF SentInTurn
      <3>3. n \notin cutShort /\ \A a \in Audience : heard[n][a] = 0
        BY <2>1 DEF SentInTurn
      <3> QED BY <2>1, <2>2, <2>4, <2>5, <2>7, <3>1, <3>2, <3>3 DEF SentInTurn
    <2> QED BY <2>6, <2>8, <2>9, <2>10
  <1>2. ASSUME NEW n \in Announcements, ClaimDue(r, n), ~StillPendingRow(n) PROVE HeardInv'
    <2>1. tickRun[r].at = "due" /\ UNCHANGED <<row, heard, foretold, cutShort>>
          /\ Runs(r, [tickRun[r] EXCEPT !.left = tickRun[r].left \ {n}])
      BY <1>2 DEF ClaimDue
    <2>2. Runs(r, [at |-> "due", left |-> tickRun[r].left \ {n}])
      <3>1. tickRun[r] = [at |-> "due", left |-> tickRun[r].left]
        BY <2>1, RunShape
      <3>2. [tickRun[r] EXCEPT !.left = tickRun[r].left \ {n}]
            = [at |-> "due", left |-> tickRun[r].left \ {n}]
        BY <3>1
      <3> QED BY <2>1, <3>2
    <2>3. [at |-> "due", left |-> tickRun[r].left \ {n}] \in RunRecords
      BY RunShape DEF RunRecords
    <2> QED BY <2>1, <2>2, <2>3, RunTurns
  <1>3. ASSUME NEW a \in Audience, Dispatch(r, a) PROVE HeardInv'
    <2>1. PICK n \in Announcements : tickRun[r].of = n
      BY <1>3, RunShape DEF Dispatch
    <2> DEFINE to == [at |-> "dispatch", left |-> tickRun[r].left, of |-> n, to |-> tickRun[r].to \ {a}]
    <2>2. tickRun[r].at = "dispatch" /\ heard' = [heard EXCEPT ![n][a] = heard[n][a] + 1]
          /\ Runs(r, [tickRun[r] EXCEPT !.to = tickRun[r].to \ {a}]) /\ a \in tickRun[r].to
          /\ UNCHANGED <<row, foretold, cutShort>>
      BY <1>3, <2>1 DEF Dispatch
    <2>3. Runs(r, to)
      <3>1. tickRun[r] = [at |-> "dispatch", left |-> tickRun[r].left, of |-> n, to |-> tickRun[r].to]
        BY <2>1, <2>2, RunShape
      <3>2. [tickRun[r] EXCEPT !.to = tickRun[r].to \ {a}] = to
        BY <3>1
      <3> QED BY <2>2, <3>2
    <2>4. to \in RunRecords /\ to.at = "dispatch" /\ to.of = n /\ to.to = tickRun[r].to \ {a}
      BY <2>2, RunShape DEF RunRecords
    <2> HIDE DEF to
    <2>5. tickRun'[r] = to /\ (\A s \in TickRuns \ {r} : tickRun'[s] = tickRun[s])
          /\ tickRun' \in [TickRuns -> RunRecords]
      BY <2>3, <2>4, RunMoves
    <2>6. heard \in [Announcements -> [Audience -> Nat]] /\ heard[n][a] = 0
      BY <2>1, <2>2 DEF AnnouncementTypeOK, SentInTurn
    <2>7. /\ heard' \in [Announcements -> [Audience -> Nat]] /\ heard'[n][a] = 1
          /\ \A b \in Audience \ {a} : heard'[n][b] = heard[n][b]
          /\ \A m \in Announcements \ {n} : heard'[m] = heard[m]
      BY <2>2, <2>6
    <2>8. AnnouncementTypeOK'
      BY <2>2, <2>5, <2>7 DEF AnnouncementTypeOK
    <2>9. ASSUME NEW m \in Announcements PROVE ForetoldInTurn(m)'
      BY <2>2, <2>4, <2>5 DEF ForetoldInTurn
    <2>10. ASSUME NEW m \in Announcements PROVE Sending(m)' <=> Sending(m)
      BY <2>1, <2>2, <2>4, <2>5 DEF Sending
    <2>11. ASSUME NEW m \in Announcements \ {n} PROVE SentInTurn(m)'
      BY <2>1, <2>2, <2>4, <2>5, <2>7, <2>10 DEF SentInTurn
    <2>12. SentInTurn(n)'
      <3>1. row[n].status = "sent" /\ n \notin cutShort /\ Sending(n)
            /\ (\A b \in Audience : heard[n][b] = IF b \in tickRun[r].to THEN 0 ELSE 1)
            /\ \A s \in TickRuns \ {r} : ~(tickRun[s].at = "dispatch" /\ tickRun[s].of = n)
        BY <2>1, <2>2 DEF SentInTurn, Sending
      <3>2. \A b \in Audience : heard'[n][b] = IF b \in to.to THEN 0 ELSE 1
        BY <2>4, <2>7, <3>1
      <3>3. \A b \in Audience : heard'[n][b] \in {0, 1}
        BY <3>2
      <3> QED BY <2>2, <2>4, <2>5, <2>10, <3>1, <3>2, <3>3 DEF SentInTurn
    <2> QED BY <2>8, <2>9, <2>11, <2>12
  <1>4. CASE WriteCount(r)
    <2>1. PICK n \in Announcements : tickRun[r].of = n
      BY <1>4, RunShape DEF WriteCount
    <2> DEFINE to == [at |-> "due", left |-> tickRun[r].left \ {n}]
               counted == [status |-> row[n].status, reminder |-> row[n].reminder,
                           count |-> Cardinality(Audience)]
    <2>2. tickRun[r].at = "dispatch" /\ tickRun[r].to = {} /\ Runs(r, to)
          /\ row' = [row EXCEPT ![n].count = Cardinality(Audience)]
          /\ UNCHANGED <<heard, foretold, cutShort>>
      BY <1>4, <2>1 DEF WriteCount
    <2>3. to \in RunRecords /\ to.at = "due"
      BY RunShape DEF RunRecords
    <2>4. row' = [row EXCEPT ![n] = counted] /\ counted \in RowRecords
      <3>1. [row[n] EXCEPT !.count = Cardinality(Audience)] = counted
        BY RowChanges
      <3>2. counted \in RowRecords
        BY RowShape DEF RowRecords
      <3> QED BY <2>2, <3>1, <3>2
    <2>5. counted.status = row[n].status /\ counted.reminder = row[n].reminder
          /\ counted.count = Cardinality(Audience)
      OBVIOUS
    <2> HIDE DEF to, counted
    <2>6. tickRun'[r] = to /\ (\A s \in TickRuns \ {r} : tickRun'[s] = tickRun[s])
          /\ tickRun' \in [TickRuns -> RunRecords]
      BY <2>2, <2>3, RunMoves
    <2>7. AnnouncementTypeOK'
      BY <2>2, <2>4, <2>6 DEF AnnouncementTypeOK
    <2>8. row'[n] = counted /\ \A m \in Announcements \ {n} : row'[m] = row[m]
      BY <2>4 DEF AnnouncementTypeOK
    <2>9. ASSUME NEW m \in Announcements PROVE ForetoldInTurn(m)'
      <3>1. row'[m].reminder = row[m].reminder
        BY <2>5, <2>8
      <3> QED BY <2>2, <2>3, <2>6, <3>1 DEF ForetoldInTurn
    <2>10. ASSUME NEW m \in Announcements \ {n} PROVE SentInTurn(m)'
      <3>1. Sending(m)' <=> Sending(m)
        BY <2>1, <2>2, <2>3, <2>6 DEF Sending
      <3> QED BY <2>1, <2>2, <2>3, <2>6, <2>8, <3>1 DEF SentInTurn
    <2>11. SentInTurn(n)'
      <3>1. row[n].status = "sent" /\ n \notin cutShort
            /\ (\A b \in Audience : heard[n][b] = 1)
            /\ \A s \in TickRuns \ {r} : ~(tickRun[s].at = "dispatch" /\ tickRun[s].of = n)
        BY <2>1, <2>2 DEF SentInTurn
      <3> QED BY <2>2, <2>3, <2>5, <2>6, <2>8, <3>1 DEF SentInTurn
    <2> QED BY <2>7, <2>9, <2>10, <2>11
  <1>5. CASE TickDies(r)
    <2>1. Unstarted \in RunRecords /\ Unstarted.at = "none" /\ Runs(r, Unstarted)
          /\ UNCHANGED <<row, heard, foretold>>
          /\ cutShort' = IF tickRun[r].at = "dispatch" THEN cutShort \cup {tickRun[r].of} ELSE cutShort
      BY <1>5 DEF TickDies, Unstarted, RunRecords
    <2>2. tickRun'[r] = Unstarted /\ (\A s \in TickRuns \ {r} : tickRun'[s] = tickRun[s])
          /\ tickRun' \in [TickRuns -> RunRecords]
      BY <2>1, RunMoves
    <2>3. AnnouncementTypeOK'
      BY <2>1, <2>2 DEF AnnouncementTypeOK
    <2>4. ASSUME NEW m \in Announcements PROVE ForetoldInTurn(m)'
      BY <2>1, <2>2 DEF ForetoldInTurn
    <2>5. ASSUME NEW m \in Announcements, ~(tickRun[r].at = "dispatch" /\ tickRun[r].of = m)
          PROVE  SentInTurn(m)'
      <3>1. Sending(m)' <=> Sending(m)
        BY <2>1, <2>2, <2>5 DEF Sending
      <3>2. m \in cutShort' <=> m \in cutShort
        BY <2>1, <2>5
      <3> QED BY <2>1, <2>2, <3>1, <3>2 DEF SentInTurn
    <2>6. ASSUME NEW m \in Announcements, tickRun[r].at = "dispatch", tickRun[r].of = m
          PROVE  SentInTurn(m)'
      <3>1. m \in cutShort' /\ row[m].status = "sent"
            /\ \A s \in TickRuns : ~(tickRun'[s].at = "dispatch" /\ tickRun'[s].of = m)
        BY <2>1, <2>2, <2>6 DEF SentInTurn
      <3> QED BY <2>1, <3>1 DEF SentInTurn
    <2> QED BY <2>3, <2>4, <2>5, <2>6
  <1> QED BY <1>1, <1>2, <1>3, <1>4, <1>5

\* Runs that meet, and cancellations that meet them: nobody hears an announcement twice
\* or hears a cancelled one (announcement.service, the claims of the job).
THEOREM AnnouncementsHeardOnce == AnnouncementsSpec => []HeardOnce
  <1> DEFINE Inv == HeardInv /\ due \subseteq Announcements
  <1>1. AnnouncementsInit => Inv
    <2> SUFFICES ASSUME AnnouncementsInit PROVE Inv
      OBVIOUS
    <2>1. AnnouncementTypeOK
      BY DEF AnnouncementsInit, AnnouncementTypeOK, RowRecords, RunRecords, Unstarted
    <2>2. \A r \in TickRuns : tickRun[r].at = "none"
      BY DEF AnnouncementsInit, Unstarted
    <2>3. \A n \in Announcements : row[n].status = "absent" /\ foretold[n] = 0 /\ n \notin cutShort
                                   /\ \A a \in Audience : heard[n][a] = 0
      BY DEF AnnouncementsInit
    <2> QED BY <2>1, <2>2, <2>3 DEF HeardInv, ForetoldInTurn, SentInTurn, AnnouncementsInit
  <1>2. Inv /\ [AnnouncementsNext]_announcementVars => Inv'
    <2> SUFFICES ASSUME Inv, [AnnouncementsNext]_announcementVars PROVE Inv'
      OBVIOUS
    <2>8. due' \subseteq Announcements
      BY DEF AnnouncementsNext, Schedule, ComesDue, CancelScheduled, ReadCancel, ListReminders,
             NotifyAuthor, ListDueRows, WriteCount, EndTick, TickDies, ClaimReminder, ClaimDue,
             Dispatch, announcementVars
    <2>1. ASSUME UNCHANGED announcementVars PROVE HeardInv'
      BY <2>1 DEF announcementVars, HeardInv, AnnouncementTypeOK, ForetoldInTurn, SentInTurn, Sending
    <2>2. ASSUME NEW n \in Announcements, Schedule(n) PROVE HeardInv'
      <3>1. row' = [row EXCEPT ![n].status = "pending"] /\ row[n].status = "absent"
            /\ UNCHANGED <<tickRun, heard, foretold, cutShort>>
        BY <2>2 DEF Schedule
      <3> DEFINE new == [status |-> "pending", reminder |-> row[n].reminder, count |-> row[n].count]
      <3>2. [row[n] EXCEPT !.status = "pending"] = new
        BY RowChanges DEF HeardInv
      <3>3. new \in RowRecords /\ new.status = "pending" /\ new.reminder = row[n].reminder
        BY RowShape DEF RowRecords, HeardInv
      <3> HIDE DEF new
      <3>4. row' \in [Announcements -> RowRecords] /\ row'[n] = new
            /\ \A m \in Announcements \ {n} : row'[m] = row[m]
        BY <3>1, <3>2, <3>3 DEF HeardInv, AnnouncementTypeOK
      <3> QED BY <3>1, <3>3, <3>4, RowsChange
    <2>3. ASSUME NEW c \in Cancellers, CancelScheduled(c) PROVE HeardInv'
      <3> DEFINE Off(n) == n \in canceller[c].left /\ StillPendingRow(n)
                 off(n) == [status |-> "cancelled", reminder |-> row[n].reminder, count |-> row[n].count]
      <3>1. row' = [n \in Announcements |-> IF Off(n) THEN [row[n] EXCEPT !.status = "cancelled"]
                                                      ELSE row[n]]
            /\ UNCHANGED <<tickRun, heard, foretold, cutShort>>
        BY <2>3 DEF CancelScheduled
      <3>2. \A n \in Announcements : [row[n] EXCEPT !.status = "cancelled"] = off(n)
                                     /\ off(n) \in RowRecords /\ row[n] \in RowRecords
        BY RowShape DEF RowRecords, HeardInv, AnnouncementTypeOK
      <3>3. \A n \in Announcements : Off(n) => row[n].status # "sent"
        BY DEF StillPendingRow
      <3>4. \A n \in Announcements : off(n).status = "cancelled" /\ off(n).reminder = row[n].reminder
        OBVIOUS
      <3> HIDE DEF Off, off
      <3>5. row' \in [Announcements -> RowRecords]
            /\ \A n \in Announcements : row'[n] = IF Off(n) THEN off(n) ELSE row[n]
        BY <3>1, <3>2
      <3> QED BY <3>1, <3>3, <3>4, <3>5, RowsChange
    <2>4. ASSUME UNCHANGED <<row, tickRun, heard, foretold, cutShort>> PROVE HeardInv'
      BY <2>4 DEF HeardInv, AnnouncementTypeOK, ForetoldInTurn, SentInTurn, Sending
    <2>5. ASSUME NEW n \in Announcements, ComesDue(n) \/ \E c \in Cancellers : ReadCancel(c, n)
          PROVE  HeardInv'
      BY <2>4, <2>5 DEF ComesDue, ReadCancel
    <2>6. ASSUME NEW r \in TickRuns, ListReminders(r) \/ ListDueRows(r) \/ EndTick(r)
          PROVE  HeardInv'
      <3>1. UNCHANGED <<row, heard, foretold, cutShort>> /\ tickRun[r].at \in {"none", "remind", "due"}
            /\ \/ Runs(r, Unstarted)
               \/ Runs(r, [at |-> "remind", left |->
                          {n \in Announcements \ due : StillPendingRow(n) /\ Unreminded(n)}])
               \/ Runs(r, [at |-> "due", left |-> {n \in due : StillPendingRow(n)}])
                  /\ {n \in due : StillPendingRow(n)} \subseteq Announcements
        BY <2>6 DEF ListReminders, ListDueRows, EndTick, Unstarted
      <3>2. \A left \in SUBSET Announcements :
               [at |-> "remind", left |-> left] \in RunRecords /\ [at |-> "due", left |-> left] \in RunRecords
        BY DEF RunRecords
      <3>3. Unstarted \in RunRecords /\ Unstarted.at = "none"
        BY DEF RunRecords, Unstarted
      <3> QED BY <3>1, <3>2, <3>3, RunTurns
    <2>7. ASSUME NEW r \in TickRuns,
                 \/ NotifyAuthor(r) \/ WriteCount(r) \/ TickDies(r)
                 \/ \E n \in Announcements : ClaimReminder(r, n) \/ ClaimDue(r, n)
                 \/ \E a \in Audience : Dispatch(r, a)
          PROVE  HeardInv'
      BY <2>7, RemindersStep, SendingStep
    <2> QED BY <2>1, <2>2, <2>3, <2>5, <2>6, <2>7, <2>8 DEF AnnouncementsNext
  <1>3. Inv => HeardOnce
    BY DEF HeardInv, HeardOnce, ForetoldInTurn, SentInTurn, AnnouncementTypeOK
  <1> QED BY <1>1, <1>2, <1>3, PTL DEF AnnouncementsSpec

(****************************************************************************)
(* Automatic assignment.                                                    *)
(****************************************************************************)
ItemsOf(job) == IF job = "requests" THEN AutoRequests
                ELSE IF job = "blocks" THEN Blocks ELSE Newcomers

PassRecords ==
    {AtRest}
    \cup [at : {"next"}, job : {"requests", "blocks", "reverse"}, manual : BOOLEAN, since : Nat,
          left : SUBSET Items]
    \cup [at : {"link"}, job : {"requests", "blocks"}, manual : BOOLEAN, since : Nat,
          left : SUBSET Items, item : Items, window : Windows]
    \cup [at : {"reverse"}, job : {"reverse"}, manual : BOOLEAN, since : Nat,
          left : SUBSET Items, item : Items]

ClientRecords ==
    [at : {"rest", "create"}, left : {{}}]
    \cup [at : {"cancel"}, left : {{}}, of : AutoRequests]
    \cup [at : {"book"}, left : {{q} : q \in Escalations}]
    \cup [at : {"link"}, left : {{q} : q \in Escalations}, window : Windows]

\* A run holds rows of its own job, the one it is placing among them.
InItsJob(r) == r.at # "rest" =>
    r.left \subseteq ItemsOf(r.job) /\ (r.at \in {"link", "reverse"} => r.item \in r.left)

AssignmentTypeOK ==
    /\ request \in [AutoRequests -> {"absent", "waiting", "assigned", "cancelled"}]
    /\ linked \in [Items -> Windows \cup {Unlinked}]
    /\ placed \subseteq Items \X Windows
    /\ pass \in [Passes -> PassRecords] /\ \A p \in Passes : InItsJob(pass[p])
    /\ client \in [Clients -> ClientRecords]
    /\ fillLock \in Nat /\ clock \in Nat

\* The lock of the cron: two runs that took it did so at different times.
Scheduled(p) == pass[p].at # "rest" /\ ~pass[p].manual
OneEachFiring ==
    /\ \A p \in Passes : Scheduled(p) => pass[p].since <= clock /\ pass[p].since < fillLock
    /\ \A p, o \in Passes : Scheduled(p) /\ Scheduled(o) /\ p # o => pass[p].since # pass[o].since

\* What two runs, or two requests, hold at once is contested.
HeldOnce ==
    /\ \A p, o \in Passes : p # o => pass[p].left \cap pass[o].left \subseteq contested
    /\ \A c, d \in Clients : c # d => client[c].left \cap client[d].left \subseteq contested

LinksIn(p, i) == pass[p].at = "link" /\ pass[p].item = i
LinksFor(c, i) == client[c].at = "link" /\ i \in client[c].left

\* An item that is not contested has no booking while it is to be placed, one while it is
\* to be linked, and the one that its row names.
BookedInTurn(i) ==
    /\ linked[i] # Unlinked => BookingsOf(i) = {<<i, linked[i]>>}
    /\ BookingsOf(i) # {} => \/ linked[i] # Unlinked
                             \/ \E p \in Passes : LinksIn(p, i)
                             \/ \E c \in Clients : LinksFor(c, i)
    /\ \A p \in Passes :
          /\ LinksIn(p, i) => linked[i] = Unlinked /\ BookingsOf(i) = {<<i, pass[p].window>>}
          /\ i \in pass[p].left /\ pass[p].job # "reverse" /\ ~LinksIn(p, i) => BookingsOf(i) = {}
          /\ pass[p].at = "reverse" /\ pass[p].item = i => BookingsOf(i) = {}
    /\ \A c \in Clients :
          /\ LinksFor(c, i) => linked[i] = Unlinked /\ BookingsOf(i) = {<<i, client[c].window>>}
          /\ client[c].at = "book" /\ i \in client[c].left => BookingsOf(i) = {}
    /\ i \in AutoRequests /\ request[i] \in {"absent", "waiting"} => linked[i] = Unlinked

AssignmentInv ==
    /\ AssignmentTypeOK /\ OneEachFiring /\ HeldOnce
    /\ \A i \in Items \ (contested \cup orphaned) : BookedInTurn(i)

\* What a run and a request hold.
LEMMA HolderShape ==
    ASSUME AssignmentTypeOK
    PROVE  /\ \A p \in Passes :
                 /\ pass[p] = AtRest <=> pass[p].at = "rest"
                 /\ pass[p].at \in {"rest", "next", "link", "reverse"}
                 /\ pass[p].at = "rest" => pass[p].left = {}
                 /\ pass[p].left \subseteq Items
                 /\ pass[p].at # "rest" =>
                       /\ pass[p].job \in {"requests", "blocks", "reverse"}
                       /\ pass[p].manual \in BOOLEAN /\ pass[p].since \in Nat
                       /\ pass[p].left \subseteq ItemsOf(pass[p].job)
                 /\ pass[p].at = "link" => pass[p].item \in pass[p].left /\ pass[p].window \in Windows
                                           /\ pass[p].job # "reverse"
                 /\ pass[p].at = "reverse" => pass[p].item \in pass[p].left /\ pass[p].job = "reverse"
           /\ \A c \in Clients :
                 /\ client[c] = AtRest <=> client[c].at = "rest"
                 /\ client[c].at \in {"rest", "create", "cancel", "book", "link"}
                 /\ client[c].at \in {"rest", "create", "cancel"} => client[c].left = {}
                 /\ client[c].at = "cancel" => client[c].of \in AutoRequests
                 /\ client[c].at \in {"book", "link"} => \E q \in Escalations : client[c].left = {q}
                 /\ client[c].at = "link" => client[c].window \in Windows
  <1>1. ASSUME NEW p \in Passes
        PROVE  /\ pass[p] = AtRest <=> pass[p].at = "rest"
               /\ pass[p].at \in {"rest", "next", "link", "reverse"}
               /\ pass[p].at = "rest" => pass[p].left = {}
               /\ pass[p].left \subseteq Items
               /\ pass[p].at # "rest" =>
                     /\ pass[p].job \in {"requests", "blocks", "reverse"}
                     /\ pass[p].manual \in BOOLEAN /\ pass[p].since \in Nat
               /\ pass[p].at = "link" => pass[p].window \in Windows /\ pass[p].job # "reverse"
               /\ pass[p].at = "reverse" => pass[p].job = "reverse"
    BY DEF AssignmentTypeOK, PassRecords, AtRest
  <1>2. ASSUME NEW p \in Passes PROVE InItsJob(pass[p])
    BY DEF AssignmentTypeOK
  <1>3. ASSUME NEW c \in Clients
        PROVE  /\ client[c] = AtRest <=> client[c].at = "rest"
               /\ client[c].at \in {"rest", "create", "cancel", "book", "link"}
               /\ client[c].at \in {"rest", "create", "cancel"} => client[c].left = {}
               /\ client[c].at = "cancel" => client[c].of \in AutoRequests
               /\ client[c].at \in {"book", "link"} => \E q \in Escalations : client[c].left = {q}
               /\ client[c].at = "link" => client[c].window \in Windows
    BY DEF AssignmentTypeOK, ClientRecords, AtRest
  <1> QED BY <1>1, <1>2, <1>3 DEF InItsJob

\* The kinds of items are apart.
LEMMA ItemKinds ==
    /\ \A job \in {"requests", "blocks", "reverse"} :
          ItemsOf(job) \subseteq Items /\ ItemsOf(job) \cap Escalations = {}
          /\ \A other \in {"requests", "blocks", "reverse"} :
                ItemsOf(job) \cap ItemsOf(other) # {} => job = other
    /\ ItemsOf("requests") = AutoRequests /\ ItemsOf("blocks") = Blocks
    /\ ItemsOf("reverse") = Newcomers /\ AutoRequests \cap Escalations = {}
    /\ AutoRequests \subseteq Items /\ Blocks \subseteq Items /\ Escalations \subseteq Items
    /\ Newcomers \subseteq Items
  BY AssignmentAssumption DEF ItemsOf, Items

\* A run goes on with what it holds, or puts some of it down.
LEMMA PassGoes ==
    ASSUME AssignmentInv, NEW p \in Passes, NEW to \in PassRecords, InItsJob(to),
           pass' = [pass EXCEPT ![p] = to], to.left \subseteq pass[p].left,
           to.at # "rest" =>
              pass[p].at # "rest" /\ to.manual = pass[p].manual /\ to.since = pass[p].since,
           UNCHANGED <<client, contested, clock, fillLock>>,
           request' \in [AutoRequests -> {"absent", "waiting", "assigned", "cancelled"}],
           linked' \in [Items -> Windows \cup {Unlinked}], placed' \subseteq Items \X Windows
    PROVE  AssignmentTypeOK' /\ OneEachFiring' /\ HeldOnce'
  <1>1. pass'[p] = to /\ (\A o \in Passes \ {p} : pass'[o] = pass[o])
        /\ pass' \in [Passes -> PassRecords]
    BY DEF AssignmentInv, AssignmentTypeOK
  <1>2. AssignmentTypeOK'
    BY <1>1 DEF AssignmentInv, AssignmentTypeOK
  <1>3. \A o \in Passes : Scheduled(o)' => Scheduled(o) /\ pass'[o].since = pass[o].since
    BY <1>1 DEF Scheduled
  <1>4. OneEachFiring'
    BY <1>3 DEF AssignmentInv, OneEachFiring
  <1>5. \A o \in Passes : pass'[o].left \subseteq pass[o].left
    BY <1>1
  <1>6. HeldOnce'
    BY <1>5 DEF AssignmentInv, HeldOnce
  <1> QED BY <1>2, <1>4, <1>6

\* An item that a run neither books nor links stays as it was.
LEMMA PassLeaves ==
    ASSUME AssignmentInv, NEW p \in Passes, NEW to, pass' = [pass EXCEPT ![p] = to],
           NEW i \in Items \ (contested \cup orphaned), client' = client,
           linked'[i] = linked[i], BookingsOf(i)' = BookingsOf(i),
           i \in AutoRequests => request'[i] = request[i],
           to.at = "link" /\ to.item = i <=> LinksIn(p, i),
           LinksIn(p, i) => to.window = pass[p].window,
           i \in to.left /\ to.job # "reverse" =>
              (i \in pass[p].left /\ pass[p].job # "reverse") \/ BookingsOf(i) = {},
           to.at = "reverse" /\ to.item = i => BookingsOf(i) = {}
    PROVE  BookedInTurn(i)'
  <1>1. pass'[p] = to /\ \A o \in Passes \ {p} : pass'[o] = pass[o]
    BY DEF AssignmentInv, AssignmentTypeOK
  <1>2. BookedInTurn(i)
    BY DEF AssignmentInv
  <1>3. \A o \in Passes : /\ LinksIn(o, i)' <=> LinksIn(o, i)
                          /\ LinksIn(o, i) => pass'[o].window = pass[o].window
    BY <1>1 DEF LinksIn
  <1>4. \A c \in Clients : LinksFor(c, i)' <=> LinksFor(c, i)
    BY DEF LinksFor
  <1>5. ASSUME NEW o \in Passes
        PROVE  /\ i \in pass'[o].left /\ pass'[o].job # "reverse" /\ ~LinksIn(o, i) => BookingsOf(i) = {}
               /\ pass'[o].at = "reverse" /\ pass'[o].item = i => BookingsOf(i) = {}
    <2>1. CASE o = p
      BY <1>1, <1>2, <2>1 DEF BookedInTurn
    <2>2. CASE o # p
      BY <1>1, <1>2, <2>2 DEF BookedInTurn
    <2> QED BY <2>1, <2>2
  <1> QED BY <1>2, <1>3, <1>4, <1>5 DEF BookedInTurn

\* The request of a student goes on, and an item that it neither books nor links stays.
LEMMA ClientGoes ==
    ASSUME AssignmentInv, NEW c \in Clients, NEW to \in ClientRecords,
           client' = [client EXCEPT ![c] = to],
           UNCHANGED <<pass, clock, fillLock>>, contested \subseteq contested',
           \A d \in Clients, q \in to.left : d # c /\ q \in client[d].left => q \in contested',
           request' \in [AutoRequests -> {"absent", "waiting", "assigned", "cancelled"}],
           linked' \in [Items -> Windows \cup {Unlinked}], placed' \subseteq Items \X Windows
    PROVE  AssignmentTypeOK' /\ OneEachFiring' /\ HeldOnce'
  <1>1. client'[c] = to /\ (\A d \in Clients \ {c} : client'[d] = client[d])
        /\ client' \in [Clients -> ClientRecords]
    BY DEF AssignmentInv, AssignmentTypeOK
  <1>2. AssignmentTypeOK'
    BY <1>1 DEF AssignmentInv, AssignmentTypeOK
  <1>3. OneEachFiring'
    BY DEF AssignmentInv, OneEachFiring, Scheduled
  <1>4. ASSUME NEW d \in Clients, NEW e \in Clients, d # e
        PROVE  client'[d].left \cap client'[e].left \subseteq contested'
    BY <1>1, <1>4 DEF AssignmentInv, HeldOnce
  <1>5. HeldOnce'
    BY <1>4 DEF AssignmentInv, HeldOnce
  <1> QED BY <1>2, <1>3, <1>5

\* An item that a request of a student neither books nor links.
LEMMA ClientLeaves ==
    ASSUME AssignmentInv, NEW c \in Clients, NEW to, client' = [client EXCEPT ![c] = to],
           NEW i \in Items \ (contested \cup orphaned), pass' = pass,
           linked'[i] = linked[i], BookingsOf(i)' = BookingsOf(i),
           i \in AutoRequests /\ request'[i] \in {"absent", "waiting"}
              => request[i] \in {"absent", "waiting"},
           to.at = "link" /\ i \in to.left <=> LinksFor(c, i),
           LinksFor(c, i) => to.window = client[c].window,
           to.at = "book" /\ i \in to.left => BookingsOf(i) = {}
    PROVE  BookedInTurn(i)'
  <1>1. client'[c] = to /\ \A d \in Clients \ {c} : client'[d] = client[d]
    BY DEF AssignmentInv, AssignmentTypeOK
  <1>2. BookedInTurn(i)
    BY DEF AssignmentInv
  <1>3. \A d \in Clients : /\ LinksFor(d, i)' <=> LinksFor(d, i)
                           /\ LinksFor(d, i) => client'[d].window = client[d].window
    BY <1>1 DEF LinksFor
  <1>4. \A o \in Passes : LinksIn(o, i)' <=> LinksIn(o, i)
    BY DEF LinksIn
  <1>5. \A d \in Clients : client'[d].at = "book" /\ i \in client'[d].left => BookingsOf(i) = {}
    BY <1>1, <1>2 DEF BookedInTurn
  <1> QED BY <1>2, <1>3, <1>4, <1>5 DEF BookedInTurn

\* A run that lists the rows of a job meets what others hold, or holds it alone: an item
\* that it holds alone has no booking yet.
LEMMA ListingStep ==
    ASSUME AssignmentInv, NEW p \in Passes, NEW job \in {"requests", "blocks", "reverse"},
           NEW manual \in BOOLEAN, NEW since \in Nat, NEW items \in SUBSET ItemsOf(job),
           Lists(p, job, manual, since, items), pass[p].left = {},
           job # "reverse" => \A i \in items \ (contested \cup orphaned) : linked[i] = Unlinked,
           ~manual => \A o \in Passes \ {p} : Scheduled(o) => pass[o].since # since,
           UNCHANGED <<request, linked, placed, client, clock, orphaned>>,
           fillLock' \in Nat, fillLock <= fillLock', ~manual => since <= clock /\ since < fillLock'
    PROVE  AssignmentInv'
  <1> DEFINE to == [at |-> "next", job |-> job, manual |-> manual, since |-> since, left |-> items]
  <1>1. pass' = [pass EXCEPT ![p] = to]
        /\ contested' = contested \cup (items \cap HeldElsewhere(p, manual, since))
    BY DEF Lists
  <1>2. items \subseteq Items
    BY ItemKinds
  <1>3. to \in PassRecords /\ InItsJob(to)
    BY <1>2 DEF PassRecords, InItsJob
  <1>4. to.at = "next" /\ to.job = job /\ to.manual = manual /\ to.since = since /\ to.left = items
    OBVIOUS
  <1> HIDE DEF to
  <1>5. pass'[p] = to /\ (\A o \in Passes \ {p} : pass'[o] = pass[o])
        /\ pass' \in [Passes -> PassRecords]
    BY <1>1, <1>3 DEF AssignmentInv, AssignmentTypeOK
  <1>6. AssignmentTypeOK'
    BY <1>3, <1>5 DEF AssignmentInv, AssignmentTypeOK
  <1>7. OneEachFiring'
    <2>1. \A o \in Passes \ {p} : (Scheduled(o)' <=> Scheduled(o)) /\ pass'[o].since = pass[o].since
      BY <1>5 DEF Scheduled
    <2>2. Scheduled(p)' <=> ~manual
      BY <1>4, <1>5 DEF Scheduled
    <2>3. \A o \in Passes : Scheduled(o) => pass[o].since \in Nat
      BY HolderShape DEF AssignmentInv, Scheduled
    <2>4. fillLock \in Nat /\ clock \in Nat
      BY DEF AssignmentInv, AssignmentTypeOK
    <2> QED BY <1>4, <1>5, <2>1, <2>2, <2>3, <2>4 DEF AssignmentInv, OneEachFiring
  <1>8. \A o \in Passes \ {p} : items \cap pass[o].left \subseteq contested'
    <2> TAKE o \in Passes \ {p}
    <2>1. CASE pass[o].at = "rest"
      BY <2>1, HolderShape DEF AssignmentInv
    <2>2. CASE pass[o].at # "rest"
      <3>1. pass[o] # AtRest /\ (manual \/ pass[o].manual \/ pass[o].since # since)
        BY <2>2, HolderShape DEF AssignmentInv, Scheduled
      <3>2. pass[o].left \subseteq HeldElsewhere(p, manual, since)
        BY <3>1 DEF HeldElsewhere
      <3> QED BY <1>1, <3>2
    <2> QED BY <2>1, <2>2
  <1>9. HeldOnce'
    <2>1. ASSUME NEW o \in Passes, NEW q \in Passes, o # q
          PROVE  pass'[o].left \cap pass'[q].left \subseteq contested'
      <3>1. pass[o].left \cap pass[q].left \subseteq contested /\ contested \subseteq contested'
        BY <1>1, <2>1 DEF AssignmentInv, HeldOnce
      <3> QED BY <1>4, <1>5, <1>8, <2>1, <3>1
    <2>2. \A c, d \in Clients : c # d => client'[c].left \cap client'[d].left \subseteq contested'
      BY <1>1 DEF AssignmentInv, HeldOnce
    <2> QED BY <2>1, <2>2 DEF HeldOnce
  <1>10. ASSUME NEW i \in Items \ (contested' \cup orphaned') PROVE BookedInTurn(i)'
    <2>1. i \in Items \ (contested \cup orphaned)
      BY <1>1
    <2>2. BookingsOf(i)' = BookingsOf(i)
      BY DEF BookingsOf
    <2>3. ~LinksIn(p, i)
      BY HolderShape DEF AssignmentInv, LinksIn
    <2>4. i \in items /\ job # "reverse" => BookingsOf(i) = {}
      <3> SUFFICES ASSUME i \in items, job # "reverse" PROVE BookingsOf(i) = {}
        OBVIOUS
      <3>1. linked[i] = Unlinked /\ i \notin Escalations
        BY <2>1, ItemKinds
      <3>2. \A o \in Passes : ~LinksIn(o, i)
        BY <1>8, <2>3, HolderShape DEF AssignmentInv, LinksIn
      <3>3. \A c \in Clients : ~LinksFor(c, i)
        BY <3>1, HolderShape DEF AssignmentInv, LinksFor
      <3> QED BY <2>1, <3>1, <3>2, <3>3 DEF AssignmentInv, BookedInTurn
    <2> QED BY <1>1, <1>4, <2>1, <2>2, <2>3, <2>4, PassLeaves
  <1> QED BY <1>6, <1>7, <1>9, <1>10 DEF AssignmentInv

\* The jobs start, by cron under its lock or by hand, and go on to the questions.
LEMMA StartsStep ==
    ASSUME AssignmentInv, NEW p \in Passes,
           ScheduledFill(p) \/ ManualFill(p) \/ ListBlocks(p) \/ ReverseScan(p)
    PROVE  AssignmentInv'
  <1>1. fillLock \in Nat /\ clock \in Nat
    BY DEF AssignmentInv, AssignmentTypeOK
  <1>2. Waiting \subseteq ItemsOf("requests") /\ Unscheduled \subseteq ItemsOf("blocks")
        /\ Newcomers \subseteq ItemsOf("reverse")
    BY ItemKinds DEF Waiting, Unscheduled
  <1>3. ASSUME NEW i \in Waiting \ (contested \cup orphaned) PROVE linked[i] = Unlinked
    <2>1. i \in AutoRequests /\ i \in Items /\ request[i] = "waiting"
      BY ItemKinds DEF Waiting
    <2> QED BY <2>1 DEF AssignmentInv, BookedInTurn
  <1>4. \A i \in Unscheduled : linked[i] = Unlinked
    BY DEF Unscheduled
  <1>5. CASE ScheduledFill(p)
    <2>1. pass[p].left = {} /\ Lists(p, "requests", FALSE, clock, Waiting) /\ fillLock <= clock
          /\ fillLock' = clock + FillTTL
          /\ UNCHANGED <<request, linked, placed, client, clock, orphaned>>
      BY <1>5, HolderShape DEF ScheduledFill, Elected, AssignmentInv
    <2>2. FillTTL \in Nat \ {0}
      BY AssignmentAssumption
    <2>3. \A o \in Passes \ {p} : Scheduled(o) => pass[o].since # clock
      <3>1. \A o \in Passes : Scheduled(o) => pass[o].since \in Nat /\ pass[o].since < fillLock
        BY HolderShape DEF AssignmentInv, OneEachFiring, Scheduled
      <3> QED BY <1>1, <2>1, <3>1
    <2>4. PICK since \in Nat, items \in SUBSET ItemsOf("requests") : since = clock /\ items = Waiting
      BY <1>1, <1>2
    <2>5. fillLock' \in Nat /\ fillLock <= fillLock' /\ since <= clock /\ since < fillLock'
      BY <1>1, <2>1, <2>2, <2>4
    <2>6. Lists(p, "requests", FALSE, since, items)
          /\ \A i \in items \ (contested \cup orphaned) : linked[i] = Unlinked
      BY <1>3, <2>1, <2>4
    <2>7. \A o \in Passes \ {p} : Scheduled(o) => pass[o].since # since
      BY <2>3, <2>4
    <2> QED BY <2>1, <2>5, <2>6, <2>7, ListingStep
  <1>6. CASE ManualFill(p)
    <2>1. pass[p].left = {} /\ Lists(p, "requests", TRUE, 0, Waiting)
          /\ UNCHANGED <<request, linked, placed, client, fillLock, clock, orphaned>>
      BY <1>6, HolderShape DEF ManualFill, AssignmentInv
    <2>2. PICK items \in SUBSET ItemsOf("requests") : items = Waiting
      BY <1>2
    <2>3. Lists(p, "requests", TRUE, 0, items)
          /\ \A i \in items \ (contested \cup orphaned) : linked[i] = Unlinked
      BY <1>3, <2>1, <2>2
    <2>4. fillLock' \in Nat /\ fillLock <= fillLock' /\ 0 \in Nat
      BY <1>1, <2>1
    <2> QED BY <2>1, <2>3, <2>4, ListingStep
  <1>7. CASE ReverseScan(p)
    <2>1. pass[p].left = {} /\ Lists(p, "reverse", TRUE, 0, Newcomers)
          /\ UNCHANGED <<request, linked, placed, client, fillLock, clock, orphaned>>
      BY <1>7, HolderShape DEF ReverseScan, AssignmentInv
    <2>2. PICK items \in SUBSET ItemsOf("reverse") : items = Newcomers
      BY <1>2
    <2>3. Lists(p, "reverse", TRUE, 0, items)
      BY <2>1, <2>2
    <2>4. fillLock' \in Nat /\ fillLock <= fillLock' /\ 0 \in Nat
      BY <1>1, <2>1
    <2> QED BY <2>1, <2>3, <2>4, ListingStep
  <1>8. CASE ListBlocks(p)
    <2>1. pass[p].left = {} /\ pass[p].at # "rest"
          /\ Lists(p, "blocks", pass[p].manual, pass[p].since, Unscheduled)
          /\ UNCHANGED <<request, linked, placed, client, fillLock, clock, orphaned>>
      BY <1>8 DEF ListBlocks
    <2>2. PICK manual \in BOOLEAN, since \in Nat : pass[p].manual = manual /\ pass[p].since = since
      BY <2>1, HolderShape DEF AssignmentInv
    <2>3. ~manual => /\ since <= clock /\ since < fillLock
                     /\ \A o \in Passes \ {p} : Scheduled(o) => pass[o].since # since
      BY <2>1, <2>2 DEF AssignmentInv, OneEachFiring, Scheduled
    <2> QED BY <1>1, <1>2, <1>4, <2>1, <2>2, <2>3, ListingStep
  <1> QED BY <1>5, <1>6, <1>7, <1>8

\* What a run is made of while it goes through its list, or links.
LEMMA PassRecord ==
    ASSUME AssignmentTypeOK, NEW p \in Passes
    PROVE  /\ pass[p].at = "next" =>
                 pass[p] = [at |-> "next", job |-> pass[p].job, manual |-> pass[p].manual,
                            since |-> pass[p].since, left |-> pass[p].left]
           /\ pass[p].at # "rest" => \A left \in SUBSET pass[p].left :
                 LET next == [at |-> "next", job |-> pass[p].job, manual |-> pass[p].manual,
                              since |-> pass[p].since, left |-> left]
                 IN next \in PassRecords /\ InItsJob(next)
           /\ AtRest \in PassRecords /\ InItsJob(AtRest) /\ AtRest.at = "rest" /\ AtRest.left = {}
  <1>1. pass[p].at = "next" =>
                 pass[p] = [at |-> "next", job |-> pass[p].job, manual |-> pass[p].manual,
                            since |-> pass[p].since, left |-> pass[p].left]
    BY DEF AssignmentTypeOK, PassRecords, AtRest
  <1>2. ASSUME pass[p].at # "rest", NEW left \in SUBSET pass[p].left
        PROVE  LET next == [at |-> "next", job |-> pass[p].job, manual |-> pass[p].manual,
                              since |-> pass[p].since, left |-> left]
               IN next \in PassRecords /\ InItsJob(next)
    <2>1. /\ left \in SUBSET Items /\ left \subseteq ItemsOf(pass[p].job)
          /\ pass[p].job \in {"requests", "blocks", "reverse"}
          /\ pass[p].manual \in BOOLEAN /\ pass[p].since \in Nat
      BY <1>2, HolderShape
    <2> QED BY <2>1 DEF PassRecords, InItsJob
  <1>3. AtRest \in PassRecords /\ InItsJob(AtRest) /\ AtRest.at = "rest" /\ AtRest.left = {}
    BY DEF AtRest, PassRecords, InItsJob
  <1> QED BY <1>1, <1>2, <1>3

\* A run puts an item down, ends or dies: what it had booked and not yet linked is orphaned.
LEMMA PuttingDownStep ==
    ASSUME AssignmentInv, NEW p \in Passes,
           \/ EndPass(p) \/ PassDiesBooking(p)
           \/ \E i \in Items : NotPlaced(p, i)
    PROVE  AssignmentInv'
  <1>1. ASSUME NEW i \in Items, NotPlaced(p, i) PROVE AssignmentInv'
    <2> DEFINE to == [at |-> "next", job |-> pass[p].job, manual |-> pass[p].manual,
                      since |-> pass[p].since, left |-> pass[p].left \ {i}]
    <2>1. pass[p].at = "next" /\ pass' = [pass EXCEPT ![p].left = pass[p].left \ {i}]
          /\ UNCHANGED <<request, linked, placed, client, fillLock, clock, contested, orphaned>>
      BY <1>1 DEF NotPlaced
    <2>2. pass' = [pass EXCEPT ![p] = to]
      <3>1. PICK job, manual, since, left :
               pass[p] = [at |-> "next", job |-> job, manual |-> manual, since |-> since, left |-> left]
        BY <2>1, PassRecord DEF AssignmentInv
      <3>2. [pass[p] EXCEPT !.left = pass[p].left \ {i}] = to
        BY <3>1
      <3> QED BY <2>1, <3>2
    <2>3. to \in PassRecords /\ InItsJob(to)
      <3>1. pass[p].left \ {i} \in SUBSET pass[p].left
        OBVIOUS
      <3> QED BY <2>1, <3>1, PassRecord DEF AssignmentInv
    <2>4. to.at = "next" /\ to.job = pass[p].job /\ to.manual = pass[p].manual
          /\ to.since = pass[p].since /\ to.left \subseteq pass[p].left
      OBVIOUS
    <2> HIDE DEF to
    <2>5. AssignmentTypeOK' /\ OneEachFiring' /\ HeldOnce'
      BY <2>1, <2>2, <2>3, <2>4, PassGoes DEF AssignmentInv, AssignmentTypeOK
    <2>6. ASSUME NEW j \in Items \ (contested \cup orphaned) PROVE BookedInTurn(j)'
      <3>1. BookingsOf(j)' = BookingsOf(j) /\ ~LinksIn(p, j)
        BY <2>1 DEF BookingsOf, LinksIn
      <3> QED BY <2>1, <2>2, <2>4, <3>1, PassLeaves
    <2> QED BY <2>1, <2>5, <2>6 DEF AssignmentInv
  <1>2. CASE EndPass(p) \/ PassDiesBooking(p)
    <2>1. /\ pass' = [pass EXCEPT ![p] = AtRest]
          /\ orphaned' = (IF pass[p].at = "link" THEN orphaned \cup {pass[p].item} ELSE orphaned)
          /\ UNCHANGED <<request, linked, placed, client, fillLock, clock, contested>>
      BY <1>2 DEF EndPass, PassDiesBooking
    <2>2. AtRest \in PassRecords /\ InItsJob(AtRest) /\ AtRest.at = "rest" /\ AtRest.left = {}
      BY PassRecord DEF AssignmentInv
    <2>3. AssignmentTypeOK' /\ OneEachFiring' /\ HeldOnce'
      BY <2>1, <2>2, PassGoes DEF AssignmentInv, AssignmentTypeOK
    <2>4. ASSUME NEW j \in Items \ (contested' \cup orphaned') PROVE BookedInTurn(j)'
      <3>1. BookingsOf(j)' = BookingsOf(j)
        BY <2>1 DEF BookingsOf
      <3>2. ~LinksIn(p, j) /\ j \in Items \ (contested \cup orphaned)
        BY <2>1 DEF LinksIn
      <3> QED BY <2>1, <2>2, <3>1, <3>2, PassLeaves
    <2> QED BY <2>3, <2>4 DEF AssignmentInv
  <1> QED BY <1>1, <1>2

\* A run looks whether a newcomer has a consultation by now.
LEMMA PriorStep ==
    ASSUME AssignmentInv, NEW p \in Passes, NEW s \in Newcomers, CheckPrior(p, s)
    PROVE  AssignmentInv'
  <1> DEFINE to == [at |-> "reverse", job |-> pass[p].job, manual |-> pass[p].manual,
                    since |-> pass[p].since, left |-> pass[p].left, item |-> s]
  <1>1. pass[p].at = "next" /\ pass[p].job = "reverse" /\ s \in pass[p].left /\ BookingsOf(s) = {}
        /\ pass' = [pass EXCEPT ![p] = to]
        /\ UNCHANGED <<request, linked, placed, client, fillLock, clock, contested, orphaned>>
    BY DEF CheckPrior, HadNone
  <1>2. pass[p].manual \in BOOLEAN /\ pass[p].since \in Nat /\ pass[p].left \subseteq Items
        /\ pass[p].left \subseteq ItemsOf("reverse") /\ s \in Items
    BY <1>1, HolderShape, ItemKinds DEF AssignmentInv
  <1>3. to \in PassRecords /\ InItsJob(to)
    BY <1>1, <1>2 DEF PassRecords, InItsJob
  <1>4. to.at = "reverse" /\ to.job = "reverse" /\ to.item = s /\ to.manual = pass[p].manual
        /\ to.since = pass[p].since /\ to.left = pass[p].left
    BY <1>1
  <1> HIDE DEF to
  <1>5. AssignmentTypeOK' /\ OneEachFiring' /\ HeldOnce'
    BY <1>1, <1>3, <1>4, PassGoes DEF AssignmentInv, AssignmentTypeOK
  <1>6. ASSUME NEW j \in Items \ (contested \cup orphaned) PROVE BookedInTurn(j)'
    <2>1. BookingsOf(j)' = BookingsOf(j) /\ ~LinksIn(p, j)
      BY <1>1 DEF BookingsOf, LinksIn
    <2> QED BY <1>1, <1>4, <2>1, PassLeaves
  <1> QED BY <1>1, <1>5, <1>6 DEF AssignmentInv

\* The bookings of the items when one is made.
LEMMA BookingMade ==
    ASSUME AssignmentTypeOK, NEW i \in Items, NEW w, placed' = placed \cup {<<i, w>>}
    PROVE  BookingsOf(i)' = BookingsOf(i) \cup {<<i, w>>}
           /\ \A j \in Items \ {i} : BookingsOf(j)' = BookingsOf(j)
  BY DEF BookingsOf

\* An item that is held alone is held by nobody else, in a run or in a request.
LEMMA HeldAlone ==
    ASSUME AssignmentInv, NEW i \in Items \ (contested \cup orphaned)
    PROVE  /\ \A p \in Passes : i \in pass[p].left =>
                 /\ \A o \in Passes \ {p} : i \notin pass[o].left /\ ~LinksIn(o, i)
                                            /\ ~(pass[o].at = "reverse" /\ pass[o].item = i)
                 /\ \A c \in Clients : i \notin client[c].left
           /\ \A c \in Clients : i \in client[c].left =>
                 /\ \A d \in Clients \ {c} : i \notin client[d].left
                 /\ \A p \in Passes : i \notin pass[p].left /\ ~LinksIn(p, i)
                                      /\ ~(pass[p].at = "reverse" /\ pass[p].item = i)
  <1>1. \A o \in Passes : i \notin pass[o].left =>
           ~LinksIn(o, i) /\ ~(pass[o].at = "reverse" /\ pass[o].item = i)
    BY HolderShape DEF AssignmentInv, LinksIn
  <1>2. \A p, o \in Passes : p # o /\ i \in pass[p].left => i \notin pass[o].left
    BY DEF AssignmentInv, HeldOnce
  <1>3. \A c, d \in Clients : c # d /\ i \in client[c].left => i \notin client[d].left
    BY DEF AssignmentInv, HeldOnce
  <1>4. \A p \in Passes, c \in Clients : i \in pass[p].left => i \notin client[c].left
    <2> TAKE p \in Passes, c \in Clients
    <2>1. i \in client[c].left => i \in Escalations
      BY HolderShape DEF AssignmentInv
    <2>2. i \in pass[p].left => i \notin Escalations
      BY HolderShape, ItemKinds DEF AssignmentInv
    <2> QED BY <2>1, <2>2
  <1> QED BY <1>1, <1>2, <1>3, <1>4

\* A run books a consultation for an item that has none.
LEMMA PlacingStep ==
    ASSUME AssignmentInv, NEW p \in Passes, NEW i \in Items, NEW w \in Windows, Place(p, i, w)
    PROVE  AssignmentInv'
  <1> DEFINE to == [at |-> "link", job |-> pass[p].job, manual |-> pass[p].manual,
                    since |-> pass[p].since, left |-> pass[p].left, item |-> i, window |-> w]
  <1>1. pass[p].at = "next" /\ pass[p].job # "reverse" /\ i \in pass[p].left
        /\ pass' = [pass EXCEPT ![p] = to] /\ placed' = placed \cup {<<i, w>>}
        /\ UNCHANGED <<request, linked, client, fillLock, clock, contested, orphaned>>
    BY DEF Place
  <1>2. pass[p].job \in {"requests", "blocks"} /\ pass[p].manual \in BOOLEAN /\ pass[p].since \in Nat
        /\ pass[p].left \subseteq Items /\ pass[p].left \subseteq ItemsOf(pass[p].job)
    BY <1>1, HolderShape DEF AssignmentInv
  <1>3. to \in PassRecords /\ InItsJob(to)
    BY <1>1, <1>2 DEF PassRecords, InItsJob
  <1>4. to.at = "link" /\ to.job = pass[p].job /\ to.item = i /\ to.window = w
        /\ to.manual = pass[p].manual /\ to.since = pass[p].since /\ to.left = pass[p].left
    OBVIOUS
  <1> HIDE DEF to
  <1>5. AssignmentTypeOK' /\ OneEachFiring' /\ HeldOnce'
    <2>1. /\ request' \in [AutoRequests -> {"absent", "waiting", "assigned", "cancelled"}]
          /\ linked' \in [Items -> Windows \cup {Unlinked}] /\ placed' \subseteq Items \X Windows
      BY <1>1 DEF AssignmentInv, AssignmentTypeOK
    <2> QED BY <1>1, <1>3, <1>4, <2>1, PassGoes
  <1>6. BookingsOf(i)' = BookingsOf(i) \cup {<<i, w>>}
        /\ \A j \in Items \ {i} : BookingsOf(j)' = BookingsOf(j)
    BY <1>1, BookingMade DEF AssignmentInv
  <1>7. ASSUME NEW j \in Items \ (contested \cup orphaned), j # i PROVE BookedInTurn(j)'
    <2>1. BookingsOf(j)' = BookingsOf(j) /\ ~LinksIn(p, j)
      BY <1>1, <1>6, <1>7 DEF LinksIn
    <2> QED BY <1>1, <1>4, <1>7, <2>1, PassLeaves
  <1>8. ASSUME i \notin contested \cup orphaned PROVE BookedInTurn(i)'
    <2>1. BookedInTurn(i)
      BY <1>8 DEF AssignmentInv
    <2>2. BookingsOf(i) = {} /\ linked[i] = Unlinked
      BY <1>1, <2>1 DEF BookedInTurn, LinksIn
    <2>3. BookingsOf(i)' = {<<i, w>>}
      BY <1>6, <2>2
    <2>4. pass'[p] = to /\ \A o \in Passes \ {p} : pass'[o] = pass[o]
      BY <1>1 DEF AssignmentInv, AssignmentTypeOK
    <2>5. LinksIn(p, i)'
      BY <1>4, <2>4 DEF LinksIn
    <2>6. \A o \in Passes \ {p} : i \notin pass'[o].left /\ ~LinksIn(o, i)'
                                  /\ ~(pass'[o].at = "reverse" /\ pass'[o].item = i)
      BY <1>1, <1>8, <2>4, HeldAlone DEF LinksIn
    <2>7. \A c \in Clients : i \notin client'[c].left
      BY <1>1, <1>8, HeldAlone
    <2> QED BY <1>1, <1>4, <2>2, <2>3, <2>4, <2>5, <2>6, <2>7 DEF BookedInTurn, LinksFor
  <1> QED BY <1>1, <1>5, <1>7, <1>8 DEF AssignmentInv

\* The row of an item names the booking that was made for it: by a run that linked it
\* after, or that booked and linked at once.
LEMMA LinkingStep ==
    ASSUME AssignmentInv, NEW p \in Passes, NEW i \in Items, NEW w \in Windows,
           pass[p].at \in {"link", "reverse"}, pass[p].item = i,
           pass' = [pass EXCEPT ![p] = [at |-> "next", job |-> pass[p].job,
                    manual |-> pass[p].manual, since |-> pass[p].since, left |-> pass[p].left \ {i}]],
           linked' = [linked EXCEPT ![i] = w],
           \/ placed' = placed /\ pass[p].at = "link" /\ pass[p].window = w
           \/ placed' = placed \cup {<<i, w>>} /\ pass[p].at = "reverse",
           \/ i \in AutoRequests /\ request' = [request EXCEPT ![i] = "assigned"]
           \/ i \notin AutoRequests /\ request' = request,
           UNCHANGED <<client, fillLock, clock, contested, orphaned>>
    PROVE  AssignmentInv'
  <1> DEFINE to == [at |-> "next", job |-> pass[p].job, manual |-> pass[p].manual,
                    since |-> pass[p].since, left |-> pass[p].left \ {i}]
  <1>1. pass' = [pass EXCEPT ![p] = to] /\ i \in pass[p].left
    BY HolderShape DEF AssignmentInv
  <1>2. to \in PassRecords /\ InItsJob(to)
    <2>1. pass[p].left \ {i} \in SUBSET pass[p].left
      OBVIOUS
    <2> QED BY <2>1, PassRecord DEF AssignmentInv
  <1>3. to.at = "next" /\ to.job = pass[p].job /\ to.manual = pass[p].manual
        /\ to.since = pass[p].since /\ to.left = pass[p].left \ {i}
    OBVIOUS
  <1> HIDE DEF to
  <1>4. /\ request' \in [AutoRequests -> {"absent", "waiting", "assigned", "cancelled"}]
        /\ linked' \in [Items -> Windows \cup {Unlinked}] /\ placed' \subseteq Items \X Windows
        /\ linked'[i] = w /\ (\A j \in Items \ {i} : linked'[j] = linked[j])
        /\ \A j \in AutoRequests \ {i} : request'[j] = request[j]
    BY DEF AssignmentInv, AssignmentTypeOK
  <1>5. AssignmentTypeOK' /\ OneEachFiring' /\ HeldOnce'
    BY <1>1, <1>2, <1>3, <1>4, PassGoes
  <1>6. \A j \in Items \ {i} : BookingsOf(j)' = BookingsOf(j)
    <2>1. CASE placed' = placed
      BY <2>1 DEF BookingsOf
    <2>2. CASE placed' = placed \cup {<<i, w>>}
      BY <2>2, BookingMade DEF AssignmentInv
    <2> QED BY <2>1, <2>2
  <1>7. ASSUME NEW j \in Items \ (contested \cup orphaned), j # i PROVE BookedInTurn(j)'
    <2>1. BookingsOf(j)' = BookingsOf(j) /\ ~LinksIn(p, j) /\ linked'[j] = linked[j]
          /\ (j \in AutoRequests => request'[j] = request[j])
      BY <1>4, <1>6, <1>7 DEF LinksIn
    <2> QED BY <1>1, <1>3, <1>7, <2>1, PassLeaves
  <1>8. ASSUME i \notin contested \cup orphaned PROVE BookedInTurn(i)'
    <2>1. BookedInTurn(i)
      BY <1>8 DEF AssignmentInv
    <2>2. BookingsOf(i)' = {<<i, w>>}
      <3>1. CASE placed' = placed /\ pass[p].at = "link" /\ pass[p].window = w
        <4>1. BookingsOf(i) = {<<i, w>>}
          BY <2>1, <3>1 DEF BookedInTurn, LinksIn
        <4> QED BY <3>1, <4>1 DEF BookingsOf
      <3>2. CASE placed' = placed \cup {<<i, w>>} /\ pass[p].at = "reverse"
        <4>1. BookingsOf(i) = {}
          BY <2>1, <3>2 DEF BookedInTurn
        <4> QED BY <3>2, <4>1, BookingMade DEF AssignmentInv
      <3> QED BY <3>1, <3>2
    <2>3. pass'[p] = to /\ \A o \in Passes \ {p} : pass'[o] = pass[o]
      BY <1>1 DEF AssignmentInv, AssignmentTypeOK
    <2>4. \A o \in Passes : i \notin pass'[o].left /\ ~LinksIn(o, i)'
                            /\ ~(pass'[o].at = "reverse" /\ pass'[o].item = i)
      BY <1>1, <1>3, <1>8, <2>3, HeldAlone DEF LinksIn
    <2>5. \A c \in Clients : i \notin client'[c].left
      BY <1>1, <1>8, HeldAlone
    <2>6. i \in AutoRequests => request'[i] = "assigned"
      BY DEF AssignmentInv, AssignmentTypeOK
    <2>7. linked'[i] # Unlinked
      BY <1>4, AssignmentAssumption
    <2> QED BY <1>4, <2>2, <2>4, <2>5, <2>6, <2>7 DEF BookedInTurn, LinksFor
  <1> QED BY <1>5, <1>7, <1>8 DEF AssignmentInv

\* Both ways in which a run links.
LEMMA RunLinksStep ==
    ASSUME AssignmentInv, NEW p \in Passes,
           LinkPlaced(p) \/ \E w \in Windows : PlaceReverse(p, w)
    PROVE  AssignmentInv'
  <1>1. CASE LinkPlaced(p)
    <2>1. PICK i \in Items, w \in Windows : pass[p].item = i /\ pass[p].window = w
      BY <1>1, HolderShape DEF AssignmentInv, LinkPlaced
    <2>2. /\ pass[p].at = "link"
          /\ pass' = [pass EXCEPT ![p] = [at |-> "next", job |-> pass[p].job,
                    manual |-> pass[p].manual, since |-> pass[p].since, left |-> pass[p].left \ {i}]]
          /\ linked' = [linked EXCEPT ![i] = w]
          /\ request' = IF i \in AutoRequests THEN [request EXCEPT ![i] = "assigned"] ELSE request
          /\ UNCHANGED <<placed, client, fillLock, clock, contested, orphaned>>
      BY <1>1, <2>1 DEF LinkPlaced, AssignmentInv, AssignmentTypeOK
    <2>3. \/ i \in AutoRequests /\ request' = [request EXCEPT ![i] = "assigned"]
          \/ i \notin AutoRequests /\ request' = request
      BY <2>2
    <2> QED BY <2>1, <2>2, <2>3, LinkingStep
  <1>2. ASSUME NEW w \in Windows, PlaceReverse(p, w) PROVE AssignmentInv'
    <2>1. pass[p].at = "reverse" /\ pass[p].item \in Newcomers
      BY <1>2, HolderShape, ItemKinds DEF AssignmentInv, PlaceReverse
    <2>2. PICK i \in Items : pass[p].item = i /\ i \notin AutoRequests
      BY <2>1, AssignmentAssumption DEF Items
    <2>3. /\ pass' = [pass EXCEPT ![p] = [at |-> "next", job |-> pass[p].job,
                    manual |-> pass[p].manual, since |-> pass[p].since, left |-> pass[p].left \ {i}]]
          /\ linked' = [linked EXCEPT ![i] = w] /\ placed' = placed \cup {<<i, w>>}
          /\ UNCHANGED <<request, client, fillLock, clock, contested, orphaned>>
      BY <1>2, <2>2 DEF PlaceReverse, AssignmentInv, AssignmentTypeOK
    <2> QED BY <2>1, <2>2, <2>3, LinkingStep
  <1> QED BY <1>1, <1>2

\* A student asks to be assigned, takes it back, or leaves a question as it is.
LEMMA AskingStep ==
    ASSUME AssignmentInv, NEW c \in Clients,
           \/ ReadDuplicate(c) \/ CancelRequest(c) \/ EscalationRefused(c)
           \/ \E r \in AutoRequests : RequestAutoAssign(c, r) \/ ReadCancelRequest(c, r)
    PROVE  AssignmentInv'
  <1>1. PICK to \in ClientRecords :
           client' = [client EXCEPT ![c] = to] /\ to.left = {} /\ to.at \notin {"book", "link"}
    <2>1. \A r \in AutoRequests : [at |-> "cancel", left |-> {}, of |-> r] \in ClientRecords
      BY DEF ClientRecords
    <2>2. [at |-> "create", left |-> {}] \in ClientRecords /\ AtRest \in ClientRecords
          /\ AtRest.left = {} /\ AtRest.at = "rest"
      BY DEF ClientRecords, AtRest
    <2> QED BY <2>1, <2>2 DEF ReadDuplicate, CancelRequest, EscalationRefused, RequestAutoAssign,
                               ReadCancelRequest
  <1>2. UNCHANGED <<linked, placed, pass, fillLock, clock, contested, orphaned>>
    BY DEF ReadDuplicate, CancelRequest, EscalationRefused, RequestAutoAssign, ReadCancelRequest
  <1>3. /\ request' \in [AutoRequests -> {"absent", "waiting", "assigned", "cancelled"}]
        /\ \A r \in AutoRequests : request'[r] \in {"absent", "waiting"}
                                      => request[r] \in {"absent", "waiting"}
    <2>1. CASE request' = request
      BY <2>1 DEF AssignmentInv, AssignmentTypeOK
    <2>2. ASSUME NEW r \in AutoRequests, RequestAutoAssign(c, r)
          PROVE  request[r] = "absent" /\ request' = [request EXCEPT ![r] = "waiting"]
      BY <2>2 DEF RequestAutoAssign
    <2>3. ASSUME CancelRequest(c)
          PROVE  client[c].of \in AutoRequests /\ request' = [request EXCEPT ![client[c].of] = "cancelled"]
      BY <2>3, HolderShape DEF CancelRequest, AssignmentInv
    <2> QED BY <2>1, <2>2, <2>3 DEF ReadDuplicate, EscalationRefused, ReadCancelRequest,
                                     AssignmentInv, AssignmentTypeOK
  <1>4. client[c].at # "link"
    BY DEF ReadDuplicate, CancelRequest, EscalationRefused, RequestAutoAssign, ReadCancelRequest, AtRest
  <1>5. AssignmentTypeOK' /\ OneEachFiring' /\ HeldOnce'
    <2>1. linked' \in [Items -> Windows \cup {Unlinked}] /\ placed' \subseteq Items \X Windows
      BY <1>2 DEF AssignmentInv, AssignmentTypeOK
    <2> QED BY <1>1, <1>2, <1>3, <2>1, ClientGoes
  <1>6. ASSUME NEW i \in Items \ (contested \cup orphaned) PROVE BookedInTurn(i)'
    <2>1. BookingsOf(i)' = BookingsOf(i) /\ ~LinksFor(c, i)
      BY <1>2, <1>4 DEF BookingsOf, LinksFor
    <2> QED BY <1>1, <1>2, <1>3, <2>1, ClientLeaves
  <1> QED BY <1>2, <1>5, <1>6 DEF AssignmentInv

\* A student asks for the consultation of a question that has none.
LEMMA EscalatingStep ==
    ASSUME AssignmentInv, NEW c \in Clients, NEW q \in Escalations, ReadEscalation(c, q)
    PROVE  AssignmentInv'
  <1> DEFINE to == [at |-> "book", left |-> {q}]
  <1>1. client[c].at = "rest" /\ linked[q] = Unlinked /\ client' = [client EXCEPT ![c] = to]
        /\ contested' = contested \cup ({q} \cap HeldByClients(c))
        /\ UNCHANGED <<request, linked, placed, pass, fillLock, clock, orphaned>>
    BY DEF ReadEscalation, NotEscalated, AtRest
  <1>2. to \in ClientRecords /\ to.at = "book" /\ to.left = {q}
    BY DEF ClientRecords
  <1> HIDE DEF to
  <1>3. \A d \in Clients, i \in to.left : d # c /\ i \in client[d].left => i \in contested'
    <2>1. \A d \in Clients \ {c} : client[d].left \subseteq HeldByClients(c)
      BY DEF HeldByClients
    <2> QED BY <1>1, <1>2, <2>1
  <1>4. AssignmentTypeOK' /\ OneEachFiring' /\ HeldOnce'
    <2>1. /\ request' \in [AutoRequests -> {"absent", "waiting", "assigned", "cancelled"}]
          /\ linked' \in [Items -> Windows \cup {Unlinked}] /\ placed' \subseteq Items \X Windows
      BY <1>1 DEF AssignmentInv, AssignmentTypeOK
    <2>2. contested \subseteq contested' /\ UNCHANGED <<pass, clock, fillLock>>
      BY <1>1
    <2> QED BY <1>1, <1>2, <1>3, <2>1, <2>2, ClientGoes
  <1>5. ASSUME NEW i \in Items \ (contested' \cup orphaned') PROVE BookedInTurn(i)'
    <2>1. BookingsOf(i)' = BookingsOf(i) /\ ~LinksFor(c, i) /\ i \in Items \ (contested \cup orphaned)
      BY <1>1 DEF BookingsOf, LinksFor
    <2>2. ASSUME i = q PROVE BookingsOf(i) = {}
      <3>1. \A d \in Clients : ~LinksFor(d, i)
        BY <1>2, <1>3, <2>1, <2>2 DEF LinksFor
      <3>2. \A p \in Passes : ~LinksIn(p, i)
        BY <2>2, HolderShape, ItemKinds DEF AssignmentInv, LinksIn
      <3> QED BY <1>1, <2>1, <2>2, <3>1, <3>2 DEF AssignmentInv, BookedInTurn
    <2> QED BY <1>1, <1>2, <2>1, <2>2, ClientLeaves
  <1> QED BY <1>4, <1>5 DEF AssignmentInv

\* The consultation of a question is booked, and then named in its row.
LEMMA EscalatedStep ==
    ASSUME AssignmentInv, NEW c \in Clients,
           LinkEscalation(c) \/ \E w \in Windows : BookEscalation(c, w)
    PROVE  AssignmentInv'
  <1>1. PICK q \in Escalations : client[c].left = {q}
    BY HolderShape DEF AssignmentInv, LinkEscalation, BookEscalation
  <1>2. q \in Items /\ q \notin AutoRequests
    BY ItemKinds
  <1>3. ASSUME NEW w \in Windows, BookEscalation(c, w) PROVE AssignmentInv'
    <2> DEFINE to == [at |-> "link", left |-> {q}, window |-> w]
    <2>1. client[c].at = "book" /\ client' = [client EXCEPT ![c] = to]
          /\ placed' = placed \cup {<<q, w>>}
          /\ UNCHANGED <<request, linked, pass, fillLock, clock, contested, orphaned>>
      BY <1>1, <1>3 DEF BookEscalation
    <2>2. to \in ClientRecords /\ to.at = "link" /\ to.left = {q} /\ to.window = w
      BY DEF ClientRecords
    <2> HIDE DEF to
    <2>3. AssignmentTypeOK' /\ OneEachFiring' /\ HeldOnce'
      <3>1. /\ request' \in [AutoRequests -> {"absent", "waiting", "assigned", "cancelled"}]
            /\ linked' \in [Items -> Windows \cup {Unlinked}] /\ placed' \subseteq Items \X Windows
        BY <1>2, <2>1 DEF AssignmentInv, AssignmentTypeOK
      <3>2. \A d \in Clients, i \in to.left : d # c /\ i \in client[d].left => i \in contested'
        BY <1>1, <2>1, <2>2 DEF AssignmentInv, HeldOnce
      <3>3. contested \subseteq contested' /\ UNCHANGED <<pass, clock, fillLock>>
        BY <2>1
      <3> QED BY <2>1, <2>2, <3>1, <3>2, <3>3, ClientGoes
    <2>4. BookingsOf(q)' = BookingsOf(q) \cup {<<q, w>>}
          /\ \A j \in Items \ {q} : BookingsOf(j)' = BookingsOf(j)
      BY <1>2, <2>1, BookingMade DEF AssignmentInv
    <2>5. ASSUME NEW j \in Items \ (contested \cup orphaned), j # q PROVE BookedInTurn(j)'
      <3>1. BookingsOf(j)' = BookingsOf(j) /\ ~LinksFor(c, j)
        BY <2>1, <2>4, <2>5 DEF LinksFor
      <3> QED BY <2>1, <2>2, <2>5, <3>1, ClientLeaves
    <2>6. ASSUME q \notin contested \cup orphaned PROVE BookedInTurn(q)'
      <3>1. BookedInTurn(q)
        BY <1>2, <2>6 DEF AssignmentInv
      <3>2. BookingsOf(q) = {} /\ linked[q] = Unlinked
        BY <1>1, <2>1, <3>1 DEF BookedInTurn
      <3>3. BookingsOf(q)' = {<<q, w>>}
        BY <2>4, <3>2
      <3>4. client'[c] = to /\ \A d \in Clients \ {c} : client'[d] = client[d]
        BY <2>1 DEF AssignmentInv, AssignmentTypeOK
      <3>5. \A d \in Clients \ {c} : q \notin client'[d].left
        BY <1>1, <1>2, <2>6, <3>4, HeldAlone
      <3>6. \A p \in Passes : q \notin pass'[p].left /\ ~LinksIn(p, q)'
                              /\ ~(pass'[p].at = "reverse" /\ pass'[p].item = q)
        BY <1>1, <1>2, <2>1, <2>6, HeldAlone DEF LinksIn
      <3>7. LinksFor(c, q)'
        BY <2>2, <3>4 DEF LinksFor
      <3> QED BY <1>2, <2>1, <2>2, <3>2, <3>3, <3>4, <3>5, <3>6, <3>7 DEF BookedInTurn, LinksFor
    <2> QED BY <2>1, <2>3, <2>5, <2>6 DEF AssignmentInv
  <1>4. CASE LinkEscalation(c)
    <2>1. PICK w \in Windows : client[c].window = w
      BY <1>4, HolderShape DEF LinkEscalation, AssignmentInv
    <2>2. client[c].at = "link" /\ client' = [client EXCEPT ![c] = AtRest]
          /\ linked' = [i \in Items |-> IF i = q THEN w ELSE linked[i]]
          /\ UNCHANGED <<request, placed, pass, fillLock, clock, contested, orphaned>>
      BY <1>1, <1>4, <2>1 DEF LinkEscalation
    <2>3. AtRest \in ClientRecords /\ AtRest.at = "rest" /\ AtRest.left = {}
      BY DEF AtRest, ClientRecords
    <2>4. AssignmentTypeOK' /\ OneEachFiring' /\ HeldOnce'
      <3>1. /\ request' \in [AutoRequests -> {"absent", "waiting", "assigned", "cancelled"}]
            /\ linked' \in [Items -> Windows \cup {Unlinked}] /\ placed' \subseteq Items \X Windows
        BY <2>2 DEF AssignmentInv, AssignmentTypeOK
      <3> QED BY <2>2, <2>3, <3>1, ClientGoes
    <2>5. ASSUME NEW j \in Items \ (contested \cup orphaned), j # q PROVE BookedInTurn(j)'
      <3>1. BookingsOf(j)' = BookingsOf(j) /\ ~LinksFor(c, j) /\ linked'[j] = linked[j]
        BY <1>1, <2>2, <2>5 DEF LinksFor, BookingsOf
      <3> QED BY <2>2, <2>3, <2>5, <3>1, ClientLeaves
    <2>6. ASSUME q \notin contested \cup orphaned PROVE BookedInTurn(q)'
      <3>1. BookingsOf(q) = {<<q, w>>} /\ BookingsOf(q)' = BookingsOf(q)
        BY <1>1, <1>2, <2>1, <2>2, <2>6 DEF AssignmentInv, BookedInTurn, LinksFor, BookingsOf
      <3>2. linked'[q] = w /\ w # Unlinked
        BY <1>2, <2>2, AssignmentAssumption
      <3>3. client'[c] = AtRest /\ \A d \in Clients \ {c} : client'[d] = client[d]
        BY <2>2 DEF AssignmentInv, AssignmentTypeOK
      <3>4. \A d \in Clients : q \notin client'[d].left
        BY <1>1, <1>2, <2>3, <2>6, <3>3, HeldAlone
      <3>5. \A p \in Passes : q \notin pass'[p].left /\ ~LinksIn(p, q)'
                              /\ ~(pass'[p].at = "reverse" /\ pass'[p].item = q)
        BY <1>1, <1>2, <2>2, <2>6, HeldAlone DEF LinksIn
      <3> QED BY <1>2, <3>1, <3>2, <3>4, <3>5 DEF BookedInTurn, LinksFor
    <2> QED BY <2>2, <2>4, <2>5, <2>6 DEF AssignmentInv
  <1> QED BY <1>3, <1>4

\* The request of a student is cut short.
LEMMA ClientDiesStep ==
    ASSUME AssignmentInv, NEW c \in Clients, ClientDies(c)
    PROVE  AssignmentInv'
  <1>1. client' = [client EXCEPT ![c] = AtRest]
        /\ orphaned' = (IF client[c].at = "link" THEN orphaned \cup client[c].left ELSE orphaned)
        /\ UNCHANGED <<request, linked, placed, pass, fillLock, clock, contested>>
    BY DEF ClientDies
  <1>2. AtRest \in ClientRecords /\ AtRest.at = "rest" /\ AtRest.left = {}
    BY DEF AtRest, ClientRecords
  <1>3. AssignmentTypeOK' /\ OneEachFiring' /\ HeldOnce'
    <2>1. /\ request' \in [AutoRequests -> {"absent", "waiting", "assigned", "cancelled"}]
          /\ linked' \in [Items -> Windows \cup {Unlinked}] /\ placed' \subseteq Items \X Windows
      BY <1>1 DEF AssignmentInv, AssignmentTypeOK
    <2> QED BY <1>1, <1>2, <2>1, ClientGoes
  <1>4. ASSUME NEW j \in Items \ (contested' \cup orphaned') PROVE BookedInTurn(j)'
    <2>1. BookingsOf(j)' = BookingsOf(j) /\ ~LinksFor(c, j) /\ j \in Items \ (contested \cup orphaned)
      BY <1>1 DEF LinksFor, BookingsOf
    <2> QED BY <1>1, <1>2, <2>1, ClientLeaves
  <1> QED BY <1>3, <1>4 DEF AssignmentInv

\* Time passes, or nothing happens.
LEMMA AssignmentRests ==
    ASSUME AssignmentInv, Tick \/ UNCHANGED assignmentVars
    PROVE  AssignmentInv'
  <1>1. clock' \in Nat /\ clock <= clock' /\ clock \in Nat
        /\ UNCHANGED <<request, linked, placed, pass, client, fillLock, contested, orphaned>>
    BY DEF Tick, assignmentVars, AssignmentInv, AssignmentTypeOK
  <1>2. AssignmentTypeOK' /\ HeldOnce'
    BY <1>1 DEF AssignmentInv, AssignmentTypeOK, HeldOnce
  <1>3. OneEachFiring'
    <2>1. \A p \in Passes : (Scheduled(p)' <=> Scheduled(p)) /\ (Scheduled(p) => pass[p].since \in Nat)
      BY <1>1, HolderShape DEF Scheduled, AssignmentInv
    <2> QED BY <1>1, <2>1 DEF AssignmentInv, OneEachFiring
  <1>4. \A i \in Items \ (contested' \cup orphaned') : BookedInTurn(i)'
    BY <1>1 DEF AssignmentInv, BookedInTurn, LinksIn, LinksFor, BookingsOf
  <1> QED BY <1>2, <1>3, <1>4 DEF AssignmentInv

\* A request, a question and a newcomer get at most one consultation, and the row names
\* it, but for runs that held the item at once or died before they wrote the row
\* (runFill, escalate and runReverseScan in auto-assign.service).
THEOREM EverythingBookedOnce == AssignmentSpec => []BookedOnce
  <1>1. AssignmentInit => AssignmentInv
    <2> SUFFICES ASSUME AssignmentInit PROVE AssignmentInv
      OBVIOUS
    <2>1. AtRest \in PassRecords /\ InItsJob(AtRest) /\ AtRest \in ClientRecords
          /\ AtRest.at = "rest" /\ AtRest.left = {}
      BY DEF AtRest, PassRecords, ClientRecords, InItsJob
    <2>2. (\A p \in Passes : pass[p] = AtRest) /\ (\A c \in Clients : client[c] = AtRest)
      BY DEF AssignmentInit
    <2>3. AssignmentTypeOK
      BY <2>1 DEF AssignmentInit, AssignmentTypeOK
    <2>4. OneEachFiring /\ HeldOnce
      BY <2>1, <2>2 DEF OneEachFiring, HeldOnce, Scheduled
    <2>5. \A i \in Items : BookedInTurn(i)
      BY <2>1, <2>2 DEF BookedInTurn, LinksIn, LinksFor, BookingsOf, AssignmentInit
    <2> QED BY <2>3, <2>4, <2>5 DEF AssignmentInv
  <1>2. AssignmentInv /\ [AssignmentNext]_assignmentVars => AssignmentInv'
    <2> SUFFICES ASSUME AssignmentInv, [AssignmentNext]_assignmentVars PROVE AssignmentInv'
      OBVIOUS
    <2>1. CASE FillNext
      BY <2>1, AssignmentRests, AskingStep, StartsStep, RunLinksStep, PuttingDownStep, PlacingStep
         DEF FillNext, PassGoesOn
    <2>2. CASE EscalateNext
      BY <2>2, AskingStep, EscalatedStep, ClientDiesStep, EscalatingStep DEF EscalateNext
    <2>3. CASE ReverseNext
      BY <2>3, StartsStep, PuttingDownStep, PriorStep, RunLinksStep DEF ReverseNext, PassGoesOn
    <2>4. CASE UNCHANGED assignmentVars
      BY <2>4, AssignmentRests
    <2> QED BY <2>1, <2>2, <2>3, <2>4 DEF AssignmentNext
  <1>3. AssignmentInv => BookedOnce
    <2> SUFFICES ASSUME AssignmentInv, NEW i \in Items \ (contested \cup orphaned)
                 PROVE  /\ Cardinality(BookingsOf(i)) <= 1
                        /\ linked[i] # Unlinked => <<i, linked[i]>> \in placed
                        /\ BookingsOf(i) # {} => linked[i] # Unlinked \/ i \in BeingLinked
      BY DEF BookedOnce
    <2>1. BookedInTurn(i)
      BY DEF AssignmentInv
    <2>2. BookingsOf(i) = {} \/ \E w : BookingsOf(i) = {<<i, w>>}
      BY <2>1 DEF BookedInTurn
    <2>3. Cardinality(BookingsOf(i)) <= 1
      <3>1. CASE BookingsOf(i) = {}
        BY <3>1, FS_EmptySet
      <3>2. ASSUME NEW w, BookingsOf(i) = {<<i, w>>} PROVE Cardinality(BookingsOf(i)) <= 1
        <4>1. Cardinality({<<i, w>>}) = 1
          BY FS_Singleton
        <4> QED BY <3>2, <4>1
      <3> QED BY <2>2, <3>1, <3>2
    <2>4. linked[i] # Unlinked => <<i, linked[i]>> \in placed
      BY <2>1 DEF BookedInTurn, BookingsOf
    <2>5. BookingsOf(i) # {} => linked[i] # Unlinked \/ i \in BeingLinked
      BY <2>1 DEF BookedInTurn, BeingLinked, LinksIn, LinksFor
    <2> QED BY <2>3, <2>4, <2>5
  <1> QED BY <1>1, <1>2, <1>3, PTL DEF AssignmentSpec

(****************************************************************************)
(* The quotas of the language model.                                        *)
(****************************************************************************)
AskerRecords ==
    [at : {"quiet", "record"}]
    \cup [at : {"total", "purpose", "call"}, of : Purposes, entitled : BOOLEAN]

QuotaTypeOK ==
    /\ total \in Nat /\ byPurpose \in [Purposes -> Nat] /\ byUser \in Nat /\ recorded \in Nat
    /\ asker \in [Askers -> AskerRecords]
    /\ called \in [Purposes -> Nat] /\ succeeded \in Nat /\ missed \in Nat

\* The requests that have passed the total, for one of P; and the purpose.
PastTotal(P) == {a \in Askers : asker[a].at \in {"purpose", "call"} /\ asker[a].of \in P}
PastPurpose(p) == {a \in Askers : asker[a].at = "call" /\ asker[a].of = p}
\* The requests at work on what their grade entitles to, and those that are to record it.
Working == {a \in Askers : asker[a].at \in {"total", "purpose", "call"} /\ asker[a].entitled}
Recording == {a \in Askers : asker[a].at = "record"}

UpTo(count, limit, used) == count <= limit /\ count <= used

\* What was let through counts, what is on its way included; what succeeded is recorded,
\* is to be, or was missed.
QuotaCounts ==
    /\ UpTo(CallsOf(Purposes) + Cardinality(PastTotal(Purposes)), TotalLimit, total)
    /\ UpTo(CallsOf(Purposes \ ReservedPurposes) + Cardinality(PastTotal(Purposes \ ReservedPurposes)),
            DiscretionaryTotal, total)
    /\ \A p \in Purposes :
          UpTo(called[p] + Cardinality(PastPurpose(p)), PurposeLimit[p], byPurpose[p])
    /\ recorded + Cardinality(Recording) <= succeeded
    /\ succeeded <= recorded + Cardinality(Recording) + missed
    /\ succeeded + Cardinality(Working) <= Entitled + missed + Cardinality(Askers) - 1

QuotasInv == QuotaTypeOK /\ QuotaCounts

\* One element more, or one less.
LEMMA CountMoves ==
    ASSUME NEW S, NEW T, NEW a, IsFiniteSet(S), T = S \cup {a} \/ T = S \ {a}
    PROVE  /\ IsFiniteSet(T) /\ Cardinality(S) \in Nat /\ Cardinality(T) \in Nat
           /\ Cardinality(T) = Cardinality(S) - (IF a \in S THEN 1 ELSE 0) + (IF a \in T THEN 1 ELSE 0)
  <1>1. Cardinality(S) \in Nat
    BY FS_CardinalityType
  <1>2. CASE T = S \cup {a}
    <2>1. IsFiniteSet(T) /\ Cardinality(T) = IF a \in S THEN Cardinality(S) ELSE Cardinality(S) + 1
      BY <1>2, FS_AddElement
    <2>2. a \in T
      BY <1>2
    <2> QED BY <1>1, <2>1, <2>2
  <1>3. CASE T = S \ {a}
    <2>1. IsFiniteSet(T) /\ Cardinality(T) = IF a \in S THEN Cardinality(S) - 1 ELSE Cardinality(S)
      BY <1>3, FS_RemoveElement
    <2>2. a \notin T
      BY <1>3
    <2>3. Cardinality(T) \in Nat
      BY <2>1, FS_CardinalityType
    <2> QED BY <1>1, <2>1, <2>2, <2>3
  <1> QED BY <1>2, <1>3

Past(r, P) == IF r.at \in {"purpose", "call"} /\ r.of \in P THEN 1 ELSE 0
Calls(r, p) == IF r.at = "call" /\ r.of = p THEN 1 ELSE 0
Works(r) == IF r.at \in {"total", "purpose", "call"} /\ r.entitled THEN 1 ELSE 0
Records(r) == IF r.at = "record" THEN 1 ELSE 0

\* A request moves on, and with it the counts.
LEMMA AskerMoves ==
    ASSUME QuotaTypeOK, NEW a \in Askers, NEW to \in AskerRecords, Goes(a, to)
    PROVE  /\ asker' \in [Askers -> AskerRecords]
           /\ \A P : /\ Cardinality(PastTotal(P)) \in Nat /\ Cardinality(PastTotal(P)') \in Nat
                     /\ Cardinality(PastTotal(P)') = Cardinality(PastTotal(P)) - Past(asker[a], P) + Past(to, P)
           /\ \A p : /\ Cardinality(PastPurpose(p)) \in Nat /\ Cardinality(PastPurpose(p)') \in Nat
                     /\ Cardinality(PastPurpose(p)') = Cardinality(PastPurpose(p))
                          - Calls(asker[a], p) + Calls(to, p)
           /\ Cardinality(Working) \in Nat /\ Cardinality(Working') \in Nat
           /\ Cardinality(Working') = Cardinality(Working) - Works(asker[a]) + Works(to)
           /\ Cardinality(Recording) \in Nat /\ Cardinality(Recording') \in Nat
           /\ Cardinality(Recording') = Cardinality(Recording) - Records(asker[a]) + Records(to)
  <1>1. asker' \in [Askers -> AskerRecords] /\ asker'[a] = to
        /\ \A b \in Askers \ {a} : asker'[b] = asker[b]
    BY DEF QuotaTypeOK, Goes
  <1>2. ASSUME NEW P
        PROVE  /\ Cardinality(PastTotal(P)) \in Nat /\ Cardinality(PastTotal(P)') \in Nat
               /\ Cardinality(PastTotal(P)') = Cardinality(PastTotal(P)) - Past(asker[a], P) + Past(to, P)
    <2>1. PastTotal(P)' = PastTotal(P) \cup {a} \/ PastTotal(P)' = PastTotal(P) \ {a}
      BY <1>1 DEF PastTotal
    <2>2. IsFiniteSet(PastTotal(P))
      BY QuotasAssumption, FS_Subset DEF PastTotal
    <2>3. (a \in PastTotal(P)' <=> to.at \in {"purpose", "call"} /\ to.of \in P)
          /\ (a \in PastTotal(P) <=> asker[a].at \in {"purpose", "call"} /\ asker[a].of \in P)
      BY <1>1 DEF PastTotal
    <2>4. /\ Cardinality(PastTotal(P)) \in Nat /\ Cardinality(PastTotal(P)') \in Nat
          /\ Cardinality(PastTotal(P)') = Cardinality(PastTotal(P))
                - (IF a \in PastTotal(P) THEN 1 ELSE 0) + (IF a \in PastTotal(P)' THEN 1 ELSE 0)
      BY <2>1, <2>2, CountMoves
    <2> QED BY <2>3, <2>4 DEF Past
  <1>3. ASSUME NEW p
        PROVE  /\ Cardinality(PastPurpose(p)) \in Nat /\ Cardinality(PastPurpose(p)') \in Nat
               /\ Cardinality(PastPurpose(p)') = Cardinality(PastPurpose(p)) - Calls(asker[a], p) + Calls(to, p)
    <2>1. PastPurpose(p)' = PastPurpose(p) \cup {a} \/ PastPurpose(p)' = PastPurpose(p) \ {a}
      BY <1>1 DEF PastPurpose
    <2>2. IsFiniteSet(PastPurpose(p))
      BY QuotasAssumption, FS_Subset DEF PastPurpose
    <2>3. (a \in PastPurpose(p)' <=> to.at = "call" /\ to.of = p)
          /\ (a \in PastPurpose(p) <=> asker[a].at = "call" /\ asker[a].of = p)
      BY <1>1 DEF PastPurpose
    <2>4. /\ Cardinality(PastPurpose(p)) \in Nat /\ Cardinality(PastPurpose(p)') \in Nat
          /\ Cardinality(PastPurpose(p)') = Cardinality(PastPurpose(p))
                - (IF a \in PastPurpose(p) THEN 1 ELSE 0) + (IF a \in PastPurpose(p)' THEN 1 ELSE 0)
      BY <2>1, <2>2, CountMoves
    <2> QED BY <2>3, <2>4 DEF Calls
  <1>4. /\ Cardinality(Working) \in Nat /\ Cardinality(Working') \in Nat
        /\ Cardinality(Working') = Cardinality(Working) - Works(asker[a]) + Works(to)
    <2>1. Working' = Working \cup {a} \/ Working' = Working \ {a}
      BY <1>1 DEF Working
    <2>2. IsFiniteSet(Working)
      BY QuotasAssumption, FS_Subset DEF Working
    <2>3. (a \in Working' <=> to.at \in {"total", "purpose", "call"} /\ to.entitled)
          /\ (a \in Working <=> asker[a].at \in {"total", "purpose", "call"} /\ asker[a].entitled)
      BY <1>1 DEF Working
    <2>4. /\ Cardinality(Working) \in Nat /\ Cardinality(Working') \in Nat
          /\ Cardinality(Working') = Cardinality(Working)
                - (IF a \in Working THEN 1 ELSE 0) + (IF a \in Working' THEN 1 ELSE 0)
      BY <2>1, <2>2, CountMoves
    <2> QED BY <2>3, <2>4 DEF Works
  <1>5. /\ Cardinality(Recording) \in Nat /\ Cardinality(Recording') \in Nat
        /\ Cardinality(Recording') = Cardinality(Recording) - Records(asker[a]) + Records(to)
    <2>1. Recording' = Recording \cup {a} \/ Recording' = Recording \ {a}
      BY <1>1 DEF Recording
    <2>2. IsFiniteSet(Recording)
      BY QuotasAssumption, FS_Subset DEF Recording
    <2>3. (a \in Recording' <=> to.at = "record") /\ (a \in Recording <=> asker[a].at = "record")
      BY <1>1 DEF Recording
    <2>4. /\ Cardinality(Recording) \in Nat /\ Cardinality(Recording') \in Nat
          /\ Cardinality(Recording') = Cardinality(Recording)
                - (IF a \in Recording THEN 1 ELSE 0) + (IF a \in Recording' THEN 1 ELSE 0)
      BY <2>1, <2>2, CountMoves
    <2> QED BY <2>3, <2>4 DEF Records
  <1> QED BY <1>1, <1>2, <1>3, <1>4, <1>5

\* The calls counted are finitely many,
LEMMA CallsCounted ==
    ASSUME NEW P, P \subseteq Purposes
    PROVE  CallsOf(P) \in Nat
           /\ IsFiniteSet({c \in P \X (1 .. MaxEntitled + MaxOther) : c[2] <= called[c[1]]})
  <1>1. MaxEntitled + MaxOther \in Int
    BY QuotasAssumption
  <1>2. IsFiniteSet(P) /\ IsFiniteSet(1 .. MaxEntitled + MaxOther)
    <2>1. IsFiniteSet(P)
      BY QuotasAssumption, FS_Subset
    <2>2. IsFiniteSet(1 .. MaxEntitled + MaxOther)
      BY <1>1, FS_Interval
    <2> QED BY <2>1, <2>2
  <1>3. IsFiniteSet(P \X (1 .. MaxEntitled + MaxOther))
    BY <1>2, FS_Product
  <1>4. IsFiniteSet({c \in P \X (1 .. MaxEntitled + MaxOther) : c[2] <= called[c[1]]})
    BY <1>3, FS_Subset
  <1> QED BY <1>4, FS_CardinalityType DEF CallsOf

\* and one more call adds one at most.
LEMMA CallsRise ==
    ASSUME called \in [Purposes -> Nat], NEW p \in Purposes, called' = [called EXCEPT ![p] = @ + 1],
           NEW P, P \subseteq Purposes
    PROVE  CallsOf(P)' \in Nat /\ CallsOf(P)' <= CallsOf(P) + (IF p \in P THEN 1 ELSE 0)
  <1> DEFINE S == {c \in P \X (1 .. MaxEntitled + MaxOther) : c[2] <= called[c[1]]}
             T == {c \in P \X (1 .. MaxEntitled + MaxOther) : c[2] <= called'[c[1]]}
             new == <<p, called[p] + 1>>
  <1>1. CallsOf(P) = Cardinality(S) /\ CallsOf(P)' = Cardinality(T)
    BY DEF CallsOf
  <1>2. IsFiniteSet(S) /\ Cardinality(S) \in Nat
    BY CallsCounted, <1>1
  <1>3. T \subseteq S \cup {new} /\ (p \notin P => T \subseteq S)
    <2>1. called'[p] = called[p] + 1 /\ \A q \in Purposes \ {p} : called'[q] = called[q]
      OBVIOUS
    <2>2. \A q \in P, n \in 1 .. MaxEntitled + MaxOther :
             n <= called'[q] => n <= called[q] \/ (q = p /\ n = called[p] + 1)
      <3> TAKE q \in P, n \in 1 .. MaxEntitled + MaxOther
      <3>1. n \in Int /\ called[q] \in Nat
        BY QuotasAssumption
      <3> QED BY <2>1, <3>1
    <2> QED BY <2>2
  <1> HIDE DEF S, T, new
  <1>4. IsFiniteSet(S \cup {new}) /\ Cardinality(S \cup {new}) <= Cardinality(S) + 1
    BY <1>2, FS_AddElement
  <1>5. IsFiniteSet(T) /\ Cardinality(T) \in Nat /\ Cardinality(T) <= Cardinality(S \cup {new})
    BY <1>3, <1>4, FS_Subset, FS_CardinalityType
  <1>6. p \notin P => Cardinality(T) <= Cardinality(S)
    BY <1>2, <1>3, FS_Subset
  <1>7. Cardinality(S \cup {new}) \in Nat
    BY <1>4, FS_CardinalityType
  <1> QED BY <1>1, <1>2, <1>4, <1>5, <1>6, <1>7

\* What is left alone keeps its counts, where no call is let through.
LEMMA UsesKept ==
    ASSUME QuotasInv, NEW a \in Askers, NEW to \in AskerRecords, Goes(a, to), called' = called,
           total' \in Nat, total <= total', byPurpose' \in [Purposes -> Nat],
           \A p \in Purposes : byPurpose[p] <= byPurpose'[p] /\ Calls(to, p) <= Calls(asker[a], p),
           Past(to, Purposes) <= Past(asker[a], Purposes),
           Past(to, Purposes \ ReservedPurposes) <= Past(asker[a], Purposes \ ReservedPurposes)
    PROVE  /\ UpTo(CallsOf(Purposes) + Cardinality(PastTotal(Purposes)), TotalLimit, total)'
           /\ UpTo(CallsOf(Purposes \ ReservedPurposes)
                     + Cardinality(PastTotal(Purposes \ ReservedPurposes)), DiscretionaryTotal, total)'
           /\ \A p \in Purposes :
                 UpTo(called[p] + Cardinality(PastPurpose(p)), PurposeLimit[p], byPurpose[p])'
  <1> DEFINE Others == Purposes \ ReservedPurposes
  <1>1. /\ \A P : Past(asker[a], P) \in {0, 1} /\ Past(to, P) \in {0, 1}
        /\ \A p : Calls(asker[a], p) \in {0, 1} /\ Calls(to, p) \in {0, 1}
    BY DEF Past, Calls
  <1>2. CallsOf(Purposes)' = CallsOf(Purposes) /\ CallsOf(Others)' = CallsOf(Others)
        /\ CallsOf(Purposes) \in Nat /\ CallsOf(Others) \in Nat
    <2>1. CallsOf(Purposes) \in Nat /\ CallsOf(Others) \in Nat
      BY CallsCounted
    <2> QED BY <2>1 DEF CallsOf
  <1>3. total \in Nat /\ {TotalLimit, DiscretionaryTotal} \subseteq Nat
    BY QuotasAssumption DEF QuotasInv, QuotaTypeOK
  <1>4. \A P : /\ Cardinality(PastTotal(P)) \in Nat /\ Cardinality(PastTotal(P)') \in Nat
               /\ Cardinality(PastTotal(P)') = Cardinality(PastTotal(P)) - Past(asker[a], P) + Past(to, P)
    BY AskerMoves DEF QuotasInv
  <1>5. UpTo(CallsOf(Purposes) + Cardinality(PastTotal(Purposes)), TotalLimit, total)'
    BY <1>1, <1>2, <1>3, <1>4 DEF UpTo, QuotasInv, QuotaCounts
  <1>6. UpTo(CallsOf(Others) + Cardinality(PastTotal(Others)), DiscretionaryTotal, total)'
    BY <1>1, <1>2, <1>3, <1>4 DEF UpTo, QuotasInv, QuotaCounts
  <1>7. ASSUME NEW p \in Purposes
        PROVE  UpTo(called[p] + Cardinality(PastPurpose(p)), PurposeLimit[p], byPurpose[p])'
    <2>1. /\ Cardinality(PastPurpose(p)) \in Nat /\ Cardinality(PastPurpose(p)') \in Nat
          /\ Cardinality(PastPurpose(p)') = Cardinality(PastPurpose(p)) - Calls(asker[a], p) + Calls(to, p)
      BY AskerMoves DEF QuotasInv
    <2>2. called[p] \in Nat /\ byPurpose[p] \in Nat /\ byPurpose'[p] \in Nat /\ PurposeLimit[p] \in Nat
          /\ called'[p] = called[p] /\ byPurpose[p] <= byPurpose'[p] /\ Calls(to, p) <= Calls(asker[a], p)
      BY QuotasAssumption DEF QuotasInv, QuotaTypeOK
    <2>3. UpTo(called[p] + Cardinality(PastPurpose(p)), PurposeLimit[p], byPurpose[p])
      BY DEF QuotasInv, QuotaCounts
    <2> QED BY <1>1, <2>1, <2>2, <2>3 DEF UpTo
  <1> QED BY <1>5, <1>6, <1>7

\* So does the entitled work, where none of it begins, ends or is recorded.
LEMMA WorkKept ==
    ASSUME QuotasInv, NEW a \in Askers, NEW to \in AskerRecords, Goes(a, to),
           Works(to) <= Works(asker[a]), Records(to) = Records(asker[a]),
           UNCHANGED <<recorded, succeeded, missed>>
    PROVE  /\ (recorded + Cardinality(Recording) <= succeeded)'
           /\ (succeeded <= recorded + Cardinality(Recording) + missed)'
           /\ (succeeded + Cardinality(Working) <= Entitled + missed + Cardinality(Askers) - 1)'
  <1>1. /\ Cardinality(Working) \in Nat /\ Cardinality(Working') \in Nat
        /\ Cardinality(Working') = Cardinality(Working) - Works(asker[a]) + Works(to)
        /\ Cardinality(Recording) \in Nat
        /\ Cardinality(Recording') = Cardinality(Recording) - Records(asker[a]) + Records(to)
    BY AskerMoves DEF QuotasInv
  <1>2. Works(to) \in {0, 1} /\ Works(asker[a]) \in {0, 1} /\ Records(asker[a]) \in {0, 1}
    BY DEF Works, Records
  <1>3. Cardinality(Askers) \in Nat /\ Entitled \in Nat
    BY QuotasAssumption, FS_CardinalityType
  <1>4. recorded \in Nat /\ succeeded \in Nat /\ missed \in Nat
    BY DEF QuotasInv, QuotaTypeOK
  <1> QED BY <1>1, <1>2, <1>3, <1>4 DEF QuotasInv, QuotaCounts

\* What a request remembers.
LEMMA AskerShape ==
    ASSUME QuotaTypeOK, NEW a \in Askers
    PROVE  /\ asker[a].at \in {"quiet", "record", "total", "purpose", "call"}
           /\ asker[a] = Quiet <=> asker[a].at = "quiet"
           /\ asker[a].at \in {"total", "purpose", "call"} =>
                 /\ asker[a].of \in Purposes /\ asker[a].entitled \in BOOLEAN
                 /\ asker[a] = [at |-> asker[a].at, of |-> asker[a].of, entitled |-> asker[a].entitled]
           /\ Quiet \in AskerRecords /\ Quiet.at = "quiet"
  BY DEF QuotaTypeOK, AskerRecords, Quiet

\* A request begins; without the cache nothing need be counted.
LEMMA ConsumeKeepsCounts ==
    ASSUME QuotasInv, NEW a \in Askers, NEW p \in Purposes,
           ConsumeSubject(a, p) \/ ConsumeWithoutCache(a, p)
    PROVE  QuotasInv'
  <1> DEFINE r == [at |-> "total", of |-> p, entitled |-> FALSE]
  <1>1. PICK to \in {Quiet, r} : Goes(a, to)
    BY DEF ConsumeSubject, ConsumeWithoutCache
  <1>2. r \in AskerRecords /\ Quiet \in AskerRecords /\ asker[a] = Quiet
    BY DEF ConsumeSubject, ConsumeWithoutCache, AskerRecords, Quiet
  <1>3. \A q \in {Quiet, r} : /\ \A P : Past(q, P) = 0 
                              /\ \A d : Calls(q, d) = 0
                              /\ Works(q) = 0 /\ Records(q) = 0
    BY DEF Past, Calls, Works, Records, Quiet
  <1>4. UNCHANGED <<total, byPurpose, recorded, called, succeeded, missed>> /\ byUser' \in Nat
    BY DEF ConsumeSubject, ConsumeWithoutCache, MayCount, QuotasInv, QuotaTypeOK
  <1>5. to \in AskerRecords /\ asker[a] \in {Quiet, r}
    BY <1>1, <1>2
  <1> HIDE DEF r
  <1>6. QuotaTypeOK'
    BY <1>1, <1>4, <1>5, AskerMoves DEF QuotasInv, QuotaTypeOK
  <1>7. total \in Nat /\ byPurpose \in [Purposes -> Nat]
    BY DEF QuotasInv, QuotaTypeOK
  <1>8. /\ UpTo(CallsOf(Purposes) + Cardinality(PastTotal(Purposes)), TotalLimit, total)'
        /\ UpTo(CallsOf(Purposes \ ReservedPurposes)
                  + Cardinality(PastTotal(Purposes \ ReservedPurposes)), DiscretionaryTotal, total)'
        /\ \A d \in Purposes :
              UpTo(called[d] + Cardinality(PastPurpose(d)), PurposeLimit[d], byPurpose[d])'
    BY <1>1, <1>3, <1>4, <1>5, <1>7, UsesKept
  <1>9. /\ (recorded + Cardinality(Recording) <= succeeded)'
        /\ (succeeded <= recorded + Cardinality(Recording) + missed)'
        /\ (succeeded + Cardinality(Working) <= Entitled + missed + Cardinality(Askers) - 1)'
    BY <1>1, <1>3, <1>4, <1>5, WorkKept
  <1> QED BY <1>6, <1>8, <1>9 DEF QuotasInv, QuotaCounts

\* The cache refuses what was on its way.
LEMMA GuardWithoutCacheKeepsCounts ==
    ASSUME QuotasInv, NEW a \in Askers, GuardWithoutCache(a)
    PROVE  QuotasInv'
  <1>1. Goes(a, Quiet) /\ Quiet \in AskerRecords
        /\ asker[a].at \in {"total", "purpose"} /\ asker[a].of \in Purposes
    BY AskerShape DEF GuardWithoutCache, QuotasInv
  <1>2. UNCHANGED <<byUser, recorded, called, succeeded, missed>>
    BY DEF GuardWithoutCache
  <1>3. total' \in Nat /\ total <= total' /\ byPurpose' \in [Purposes -> Nat]
        /\ \A d \in Purposes : byPurpose[d] <= byPurpose'[d]
    <2>1. total \in Nat /\ byPurpose \in [Purposes -> Nat]
      BY DEF QuotasInv, QuotaTypeOK
    <2>2. CASE asker[a].at = "total"
      BY <2>1, <2>2 DEF GuardWithoutCache, MayCount
    <2>3. CASE asker[a].at # "total"
      <3>1. PICK n \in MayCount(byPurpose[asker[a].of]) :
               byPurpose' = [byPurpose EXCEPT ![asker[a].of] = n]
        BY <2>3 DEF GuardWithoutCache
      <3>2. n \in Nat /\ byPurpose[asker[a].of] <= n
        BY <1>1, <2>1 DEF MayCount
      <3>3. UNCHANGED total
        BY <2>3 DEF GuardWithoutCache
      <3> QED BY <1>1, <2>1, <3>1, <3>2, <3>3
    <2> QED BY <2>2, <2>3
  <1>4. /\ \A P : Past(Quiet, P) = 0 /\ Past(asker[a], P) \in {0, 1}
        /\ \A d : Calls(Quiet, d) = 0 /\ Calls(asker[a], d) \in {0, 1}
        /\ Works(Quiet) = 0 /\ Works(asker[a]) \in {0, 1} 
        /\ Records(Quiet) = 0 /\ Records(asker[a]) = 0
    BY <1>1 DEF Past, Calls, Works, Records, Quiet
  <1>5. QuotaTypeOK'
    <2>1. asker' \in [Askers -> AskerRecords]
      BY <1>1, AskerMoves DEF QuotasInv
    <2> QED BY <1>2, <1>3, <2>1 DEF QuotasInv, QuotaTypeOK
  <1>6. /\ UpTo(CallsOf(Purposes) + Cardinality(PastTotal(Purposes)), TotalLimit, total)'
        /\ UpTo(CallsOf(Purposes \ ReservedPurposes)
                  + Cardinality(PastTotal(Purposes \ ReservedPurposes)), DiscretionaryTotal, total)'
        /\ \A d \in Purposes :
              UpTo(called[d] + Cardinality(PastPurpose(d)), PurposeLimit[d], byPurpose[d])'
    <2>1. \A d \in Purposes : byPurpose[d] <= byPurpose'[d] /\ Calls(Quiet, d) <= Calls(asker[a], d)
      BY <1>3, <1>4
    <2>2. Past(Quiet, Purposes) <= Past(asker[a], Purposes)
          /\ Past(Quiet, Purposes \ ReservedPurposes) <= Past(asker[a], Purposes \ ReservedPurposes)
      BY <1>4
    <2> QED BY <1>1, <1>2, <1>3, <2>1, <2>2, UsesKept
  <1>7. /\ (recorded + Cardinality(Recording) <= succeeded)'
        /\ (succeeded <= recorded + Cardinality(Recording) + missed)'
        /\ (succeeded + Cardinality(Working) <= Entitled + missed + Cardinality(Askers) - 1)'
    BY <1>1, <1>2, <1>4, WorkKept
  <1> QED BY <1>5, <1>6, <1>7 DEF QuotasInv, QuotaCounts

\* The total lets a request pass only below its ceiling, the one of the others being the lower.
LEMMA ConsumeTotalKeepsCounts ==
    ASSUME QuotasInv, NEW a \in Askers, ConsumeTotal(a)
    PROVE  QuotasInv'
  <1>1. PICK p \in Purposes, e \in BOOLEAN :
           asker[a] = [at |-> "total", of |-> p, entitled |-> e]
    BY AskerShape DEF ConsumeTotal, QuotasInv
  <1> DEFINE r == [at |-> "purpose", of |-> p, entitled |-> e]
             Others == Purposes \ ReservedPurposes
  <1>2. r \in AskerRecords /\ Quiet \in AskerRecords
    BY DEF AskerRecords, Quiet
  <1>3. total' = total + 1 /\ UNCHANGED <<byPurpose, byUser, recorded, called, succeeded, missed>>
        /\ total \in Nat /\ byPurpose \in [Purposes -> Nat]
    BY DEF ConsumeTotal, QuotasInv, QuotaTypeOK
  <1>4. /\ Works(asker[a]) \in {0, 1} /\ Works(r) = Works(asker[a]) /\ Works(Quiet) = 0
        /\ Records(asker[a]) = 0 /\ Records(r) = 0 /\ Records(Quiet) = 0
        /\ \A d : Calls(asker[a], d) = 0 /\ Calls(r, d) = 0 /\ Calls(Quiet, d) = 0
        /\ \A P : Past(asker[a], P) = 0 /\ Past(r, P) = (IF p \in P THEN 1 ELSE 0)
                  /\ Past(Quiet, P) = 0
    BY <1>1 DEF Past, Calls, Works, Records, Quiet
  <1>5. \/ Goes(a, Quiet)
        \/ Goes(a, r) /\ total + 1 <= Ceiling(p)
    <2>1. [asker[a] EXCEPT !.at = "purpose"] = r /\ asker[a].of = p
      BY <1>1
    <2> QED BY <2>1 DEF ConsumeTotal, Within
  <1> HIDE DEF r
  <1>6. QuotaTypeOK'
    <2>1. asker' \in [Askers -> AskerRecords]
      BY <1>2, <1>5, AskerMoves DEF QuotasInv
    <2> QED BY <1>3, <2>1 DEF QuotasInv, QuotaTypeOK
  <1>7. /\ (recorded + Cardinality(Recording) <= succeeded)'
        /\ (succeeded <= recorded + Cardinality(Recording) + missed)'
        /\ (succeeded + Cardinality(Working) <= Entitled + missed + Cardinality(Askers) - 1)'
    BY <1>2, <1>3, <1>4, <1>5, WorkKept
  <1>8. /\ UpTo(CallsOf(Purposes) + Cardinality(PastTotal(Purposes)), TotalLimit, total)'
        /\ UpTo(CallsOf(Others) + Cardinality(PastTotal(Others)), DiscretionaryTotal, total)'
        /\ \A d \in Purposes :
              UpTo(called[d] + Cardinality(PastPurpose(d)), PurposeLimit[d], byPurpose[d])'
    <2>1. CASE Goes(a, Quiet)
      BY <1>2, <1>3, <1>4, <2>1, UsesKept
    <2>2. CASE Goes(a, r) /\ total + 1 <= Ceiling(p)
      <3>1. CallsOf(Purposes)' = CallsOf(Purposes) /\ CallsOf(Others)' = CallsOf(Others)
            /\ CallsOf(Purposes) \in Nat /\ CallsOf(Others) \in Nat
        <4>1. CallsOf(Purposes) \in Nat /\ CallsOf(Others) \in Nat
          BY CallsCounted
        <4> QED BY <1>3, <4>1 DEF CallsOf
      <3>2. \A P : /\ Cardinality(PastTotal(P)) \in Nat /\ Cardinality(PastTotal(P)') \in Nat
                   /\ Cardinality(PastTotal(P)') = Cardinality(PastTotal(P)) + Past(r, P)
        <4>1. \A P : /\ Cardinality(PastTotal(P)) \in Nat /\ Cardinality(PastTotal(P)') \in Nat
                     /\ Cardinality(PastTotal(P)')
                           = Cardinality(PastTotal(P)) - Past(asker[a], P) + Past(r, P)
          BY <1>2, <2>2, AskerMoves DEF QuotasInv
        <4> QED BY <1>4, <4>1
      <3>3. {TotalLimit, DiscretionaryTotal} \subseteq Nat /\ DiscretionaryTotal <= TotalLimit
        BY QuotasAssumption
      <3>4. total + 1 <= TotalLimit /\ (p \in Others => total + 1 <= DiscretionaryTotal)
        BY <1>3, <2>2, <3>3 DEF Ceiling
      <3>5. Past(r, Purposes) = 1 /\ Past(r, Others) = (IF p \in Others THEN 1 ELSE 0)
        BY <1>4
      <3>6. UpTo(CallsOf(Purposes) + Cardinality(PastTotal(Purposes)), TotalLimit, total)
            /\ UpTo(CallsOf(Others) + Cardinality(PastTotal(Others)), DiscretionaryTotal, total)
        BY DEF QuotasInv, QuotaCounts
      <3> HIDE DEF Others
      <3>7. UpTo(CallsOf(Purposes) + Cardinality(PastTotal(Purposes)), TotalLimit, total)'
        BY <1>3, <3>1, <3>2, <3>3, <3>4, <3>5, <3>6 DEF UpTo
      <3>8. UpTo(CallsOf(Others) + Cardinality(PastTotal(Others)), DiscretionaryTotal, total)'
        BY <1>3, <3>1, <3>2, <3>3, <3>4, <3>5, <3>6 DEF UpTo
      <3>9. ASSUME NEW d \in Purposes
            PROVE  UpTo(called[d] + Cardinality(PastPurpose(d)), PurposeLimit[d], byPurpose[d])'
        <4>1. /\ Cardinality(PastPurpose(d)) \in Nat
              /\ Cardinality(PastPurpose(d)') = Cardinality(PastPurpose(d)) - Calls(asker[a], d) + Calls(r, d)
          BY <1>2, <2>2, AskerMoves DEF QuotasInv
        <4>2. Cardinality(PastPurpose(d)') = Cardinality(PastPurpose(d))
          BY <1>4, <4>1
        <4>3. UpTo(called[d] + Cardinality(PastPurpose(d)), PurposeLimit[d], byPurpose[d])
          BY DEF QuotasInv, QuotaCounts
        <4> QED BY <1>3, <4>2, <4>3 DEF UpTo
      <3> QED BY <3>7, <3>8, <3>9
    <2> QED BY <1>5, <2>1, <2>2
  <1> QED BY <1>6, <1>7, <1>8 DEF QuotasInv, QuotaCounts

\* The purpose lets one more pass, or refuses what the total had let pass.
LEMMA ConsumePurposeKeepsCounts ==
    ASSUME QuotasInv, NEW a \in Askers, ConsumePurpose(a)
    PROVE  QuotasInv'
  <1>1. PICK p \in Purposes, e \in BOOLEAN :
           asker[a] = [at |-> "purpose", of |-> p, entitled |-> e]
    BY AskerShape DEF ConsumePurpose, QuotasInv
  <1> DEFINE r == [at |-> "call", of |-> p, entitled |-> e]
             Others == Purposes \ ReservedPurposes
  <1>2. r \in AskerRecords /\ Quiet \in AskerRecords
    BY DEF AskerRecords, Quiet
  <1>3. byPurpose' = [byPurpose EXCEPT ![p] = @ + 1]
        /\ UNCHANGED <<total, byUser, recorded, called, succeeded, missed>>
        /\ total \in Nat /\ byPurpose \in [Purposes -> Nat]
    BY <1>1 DEF ConsumePurpose, QuotasInv, QuotaTypeOK
  <1>4. /\ Works(asker[a]) \in {0, 1} /\ Works(r) = Works(asker[a]) /\ Works(Quiet) = 0
        /\ Records(asker[a]) = 0 /\ Records(r) = 0 /\ Records(Quiet) = 0
        /\ \A d : Calls(asker[a], d) = 0 /\ Calls(r, d) = (IF d = p THEN 1 ELSE 0) /\ Calls(Quiet, d) = 0
        /\ \A P : Past(asker[a], P) \in {0, 1} /\ Past(r, P) = Past(asker[a], P) /\ Past(Quiet, P) = 0
    BY <1>1 DEF Past, Calls, Works, Records, Quiet
  <1>5. \/ Goes(a, Quiet)
        \/ Goes(a, r) /\ byPurpose[p] + 1 <= PurposeLimit[p]
    <2>1. [asker[a] EXCEPT !.at = "call"] = r /\ asker[a].of = p
      BY <1>1
    <2> QED BY <2>1 DEF ConsumePurpose, Within
  <1>6. byPurpose' \in [Purposes -> Nat] /\ byPurpose'[p] = byPurpose[p] + 1
        /\ \A d \in Purposes \ {p} : byPurpose'[d] = byPurpose[d]
    BY <1>3
  <1> HIDE DEF r
  <1>7. QuotaTypeOK'
    <2>1. asker' \in [Askers -> AskerRecords]
      BY <1>2, <1>5, AskerMoves DEF QuotasInv
    <2> QED BY <1>3, <1>6, <2>1 DEF QuotasInv, QuotaTypeOK
  <1>8. /\ (recorded + Cardinality(Recording) <= succeeded)'
        /\ (succeeded <= recorded + Cardinality(Recording) + missed)'
        /\ (succeeded + Cardinality(Working) <= Entitled + missed + Cardinality(Askers) - 1)'
    BY <1>2, <1>3, <1>4, <1>5, WorkKept
  <1>9. /\ UpTo(CallsOf(Purposes) + Cardinality(PastTotal(Purposes)), TotalLimit, total)'
        /\ UpTo(CallsOf(Others) + Cardinality(PastTotal(Others)), DiscretionaryTotal, total)'
        /\ \A d \in Purposes :
              UpTo(called[d] + Cardinality(PastPurpose(d)), PurposeLimit[d], byPurpose[d])'
    <2>1. CASE Goes(a, Quiet)
      <3>1. \A d \in Purposes : byPurpose[d] <= byPurpose'[d] /\ Calls(Quiet, d) <= Calls(asker[a], d)
        BY <1>3, <1>4, <1>6
      <3>2. Past(Quiet, Purposes) <= Past(asker[a], Purposes)
            /\ Past(Quiet, Others) <= Past(asker[a], Others)
        BY <1>4
      <3>3. called' = called /\ total' \in Nat /\ total <= total' /\ byPurpose' \in [Purposes -> Nat]
        BY <1>3, <1>6
      <3> QED BY <1>2, <2>1, <3>1, <3>2, <3>3, UsesKept
    <2>2. CASE Goes(a, r) /\ byPurpose[p] + 1 <= PurposeLimit[p]
      <3>1. CallsOf(Purposes)' = CallsOf(Purposes) /\ CallsOf(Others)' = CallsOf(Others)
        BY <1>3 DEF CallsOf
      <3>2. \A P : Cardinality(PastTotal(P)') = Cardinality(PastTotal(P))
        <4>1. \A P : /\ Cardinality(PastTotal(P)) \in Nat
                     /\ Cardinality(PastTotal(P)')
                           = Cardinality(PastTotal(P)) - Past(asker[a], P) + Past(r, P)
          BY <1>2, <2>2, AskerMoves DEF QuotasInv
        <4> QED BY <1>4, <4>1
      <3>3. UpTo(CallsOf(Purposes) + Cardinality(PastTotal(Purposes)), TotalLimit, total)
            /\ UpTo(CallsOf(Others) + Cardinality(PastTotal(Others)), DiscretionaryTotal, total)
        BY DEF QuotasInv, QuotaCounts
      <3>4. UpTo(CallsOf(Purposes) + Cardinality(PastTotal(Purposes)), TotalLimit, total)'
            /\ UpTo(CallsOf(Others) + Cardinality(PastTotal(Others)), DiscretionaryTotal, total)'
        BY <1>3, <3>1, <3>2, <3>3 DEF UpTo
      <3>5. ASSUME NEW d \in Purposes
            PROVE  UpTo(called[d] + Cardinality(PastPurpose(d)), PurposeLimit[d], byPurpose[d])'
        <4>1. /\ Cardinality(PastPurpose(d)) \in Nat
              /\ Cardinality(PastPurpose(d)') = Cardinality(PastPurpose(d)) - Calls(asker[a], d) + Calls(r, d)
          BY <1>2, <2>2, AskerMoves DEF QuotasInv
        <4>2. UpTo(called[d] + Cardinality(PastPurpose(d)), PurposeLimit[d], byPurpose[d])
          BY DEF QuotasInv, QuotaCounts
        <4>3. called[d] \in Nat /\ byPurpose[d] \in Nat /\ PurposeLimit[d] \in Nat /\ called'[d] = called[d]
          BY <1>3, QuotasAssumption DEF QuotasInv, QuotaTypeOK
        <4>4. CASE d = p
          <5>1. Cardinality(PastPurpose(d)') = Cardinality(PastPurpose(d)) + 1
            BY <1>4, <4>1, <4>4
          <5> QED BY <1>6, <2>2, <4>1, <4>2, <4>3, <4>4, <5>1 DEF UpTo
        <4>5. CASE d # p
          <5>1. Cardinality(PastPurpose(d)') = Cardinality(PastPurpose(d))
            BY <1>4, <4>1, <4>5
          <5> QED BY <1>6, <4>2, <4>3, <4>5, <5>1 DEF UpTo
        <4> QED BY <4>4, <4>5
      <3> QED BY <3>4, <3>5
    <2> QED BY <1>5, <2>1, <2>2
  <1> QED BY <1>7, <1>8, <1>9 DEF QuotasInv, QuotaCounts

\* A call is let through, and work that succeeds goes on to its record.
LEMMA CallKeepsCounts ==
    ASSUME QuotasInv, NEW a \in Askers, NEW works \in BOOLEAN, Call(a, works)
    PROVE  QuotasInv'
  <1>1. PICK p \in Purposes, e \in BOOLEAN : asker[a] = [at |-> "call", of |-> p, entitled |-> e]
    BY AskerShape DEF Call, QuotasInv
  <1> DEFINE to == IF e /\ works THEN [at |-> "record"] ELSE Quiet
             done == IF e /\ works THEN 1 ELSE 0
             Others == Purposes \ ReservedPurposes
  <1>2. to \in AskerRecords /\ Goes(a, to)
    BY <1>1 DEF AskerRecords, Quiet, Call
  <1>3. called' = [called EXCEPT ![p] = @ + 1] /\ succeeded' = succeeded + done
        /\ UNCHANGED <<total, byPurpose, byUser, recorded, missed>>
        /\ called \in [Purposes -> Nat] /\ succeeded \in Nat /\ recorded \in Nat /\ missed \in Nat
    BY <1>1 DEF Call, QuotasInv, QuotaTypeOK
  <1>4. /\ Works(asker[a]) = (IF e THEN 1 ELSE 0) /\ Works(to) = 0
        /\ Records(asker[a]) = 0 /\ Records(to) = done
        /\ \A d : Calls(asker[a], d) = (IF d = p THEN 1 ELSE 0) /\ Calls(to, d) = 0
        /\ \A P : Past(asker[a], P) = (IF p \in P THEN 1 ELSE 0) /\ Past(to, P) = 0
    <2>1. \/ e /\ works /\ to = [at |-> "record"]
          \/ ~(e /\ works) /\ to = [at |-> "quiet"]
      BY DEF Quiet
    <2> HIDE DEF to
    <2> QED BY <1>1, <2>1 DEF Past, Calls, Works, Records
  <1>5. done \in {0, 1} /\ done <= (IF e THEN 1 ELSE 0)
    OBVIOUS
  <1>6. called' \in [Purposes -> Nat] /\ called'[p] = called[p] + 1
        /\ \A d \in Purposes \ {p} : called'[d] = called[d]
    BY <1>3
  <1> HIDE DEF to, done
  <1>7. QuotaTypeOK'
    <2>1. asker' \in [Askers -> AskerRecords]
      BY <1>2, AskerMoves DEF QuotasInv
    <2> QED BY <1>3, <1>5, <1>6, <2>1 DEF QuotasInv, QuotaTypeOK
  <1>8. /\ (recorded + Cardinality(Recording) <= succeeded)'
        /\ (succeeded <= recorded + Cardinality(Recording) + missed)'
        /\ (succeeded + Cardinality(Working) <= Entitled + missed + Cardinality(Askers) - 1)'
    <2>1. /\ Cardinality(Working) \in Nat
          /\ Cardinality(Working') = Cardinality(Working) - (IF e THEN 1 ELSE 0)
          /\ Cardinality(Recording) \in Nat
          /\ Cardinality(Recording') = Cardinality(Recording) + done
      <3>1. /\ Cardinality(Working) \in Nat
            /\ Cardinality(Working') = Cardinality(Working) - Works(asker[a]) + Works(to)
            /\ Cardinality(Recording) \in Nat
            /\ Cardinality(Recording') = Cardinality(Recording) - Records(asker[a]) + Records(to)
        BY <1>2, AskerMoves DEF QuotasInv
      <3> QED BY <1>4, <1>5, <3>1
    <2>2. Cardinality(Askers) \in Nat /\ Entitled \in Nat
      BY QuotasAssumption, FS_CardinalityType
    <2> QED BY <1>3, <1>5, <2>1, <2>2 DEF QuotasInv, QuotaCounts
  <1>9. ASSUME NEW P, P \subseteq Purposes, NEW limit \in Nat,
               UpTo(CallsOf(P) + Cardinality(PastTotal(P)), limit, total)
        PROVE  UpTo(CallsOf(P) + Cardinality(PastTotal(P)), limit, total)'
    <2>1. Cardinality(PastTotal(P)) \in Nat
          /\ Cardinality(PastTotal(P)') = Cardinality(PastTotal(P)) - (IF p \in P THEN 1 ELSE 0)
      <3>1. /\ Cardinality(PastTotal(P)) \in Nat /\ Cardinality(PastTotal(P)') \in Nat
            /\ Cardinality(PastTotal(P)') = Cardinality(PastTotal(P)) - Past(asker[a], P) + Past(to, P)
        BY <1>2, AskerMoves DEF QuotasInv
      <3> QED BY <1>4, <3>1
    <2>2. CallsOf(P)' \in Nat /\ CallsOf(P)' <= CallsOf(P) + (IF p \in P THEN 1 ELSE 0)
      BY <1>3, <1>9, CallsRise
    <2>3. CallsOf(P) \in Nat
      BY <1>9, CallsCounted
    <2>4. total \in Nat /\ total' = total
      BY <1>3 DEF QuotasInv, QuotaTypeOK
    <2> QED BY <1>9, <2>1, <2>2, <2>3, <2>4 DEF UpTo
  <1>10. UpTo(CallsOf(Purposes) + Cardinality(PastTotal(Purposes)), TotalLimit, total)'
    BY <1>9, QuotasAssumption DEF QuotasInv, QuotaCounts
  <1>11. UpTo(CallsOf(Others) + Cardinality(PastTotal(Others)), DiscretionaryTotal, total)'
    BY <1>9, QuotasAssumption DEF QuotasInv, QuotaCounts
  <1>12. ASSUME NEW d \in Purposes
         PROVE  UpTo(called[d] + Cardinality(PastPurpose(d)), PurposeLimit[d], byPurpose[d])'
    <2>1. Cardinality(PastPurpose(d)) \in Nat
          /\ Cardinality(PastPurpose(d)') = Cardinality(PastPurpose(d)) - Calls(asker[a], d) + Calls(to, d)
      BY <1>2, AskerMoves DEF QuotasInv
    <2>2. UpTo(called[d] + Cardinality(PastPurpose(d)), PurposeLimit[d], byPurpose[d])
      BY DEF QuotasInv, QuotaCounts
    <2>3. called[d] \in Nat
      BY <1>3
    <2>4. called'[d] + Cardinality(PastPurpose(d)') = called[d] + Cardinality(PastPurpose(d))
      BY <1>4, <1>6, <2>1, <2>3
    <2> QED BY <1>3, <2>2, <2>4 DEF UpTo
  <1> QED BY <1>7, <1>8, <1>10, <1>11, <1>12 DEF QuotasInv, QuotaCounts

\* Entitled work begins below the entitlement: with all the requests at work or about to
\* record, the last of them was not when this one was let pass.
LEMMA CheckEntitlementKeepsCounts ==
    ASSUME QuotasInv, NEW a \in Askers, NEW p \in Purposes, NEW away \in BOOLEAN,
           CheckEntitlement(a, p, away)
    PROVE  QuotasInv'
  <1> DEFINE r == [at |-> "total", of |-> p, entitled |-> TRUE]
  <1>1. r \in AskerRecords /\ Goes(a, r) /\ asker[a] = Quiet
    BY DEF CheckEntitlement, AskerRecords
  <1>2. /\ Works(asker[a]) = 0 /\ Works(r) = 1 /\ Records(asker[a]) = 0 /\ Records(r) = 0
        /\ \A d : Calls(asker[a], d) = 0 /\ Calls(r, d) = 0
        /\ \A P : Past(asker[a], P) = 0 /\ Past(r, P) = 0
    BY <1>1 DEF Past, Calls, Works, Records, Quiet
  <1>3. UNCHANGED <<total, byPurpose, byUser, recorded, called, succeeded>>
        /\ missed' = (IF away THEN missed + 1 ELSE missed) /\ (away \/ recorded < Entitled)
    BY DEF CheckEntitlement
  <1>4. /\ total \in Nat /\ byPurpose \in [Purposes -> Nat] /\ succeeded \in Nat
        /\ recorded \in Nat /\ missed \in Nat /\ missed' \in Nat
    BY <1>3 DEF QuotasInv, QuotaTypeOK
  <1> HIDE DEF r
  <1>5. QuotaTypeOK'
    <2>1. asker' \in [Askers -> AskerRecords]
      BY <1>1, AskerMoves DEF QuotasInv
    <2> QED BY <1>3, <1>4, <2>1 DEF QuotasInv, QuotaTypeOK
  <1>6. /\ UpTo(CallsOf(Purposes) + Cardinality(PastTotal(Purposes)), TotalLimit, total)'
        /\ UpTo(CallsOf(Purposes \ ReservedPurposes)
                  + Cardinality(PastTotal(Purposes \ ReservedPurposes)), DiscretionaryTotal, total)'
        /\ \A d \in Purposes :
              UpTo(called[d] + Cardinality(PastPurpose(d)), PurposeLimit[d], byPurpose[d])'
    <2>1. \A d \in Purposes : byPurpose[d] <= byPurpose'[d] /\ Calls(r, d) <= Calls(asker[a], d)
      BY <1>2, <1>3, <1>4
    <2>2. Past(r, Purposes) <= Past(asker[a], Purposes)
          /\ Past(r, Purposes \ ReservedPurposes) <= Past(asker[a], Purposes \ ReservedPurposes)
      BY <1>2
    <2>3. called' = called /\ total' \in Nat /\ total <= total' /\ byPurpose' \in [Purposes -> Nat]
      BY <1>3, <1>4
    <2> QED BY <1>1, <2>1, <2>2, <2>3, UsesKept
  <1>7. /\ Cardinality(Working) \in Nat /\ Cardinality(Working') = Cardinality(Working) + 1
        /\ Cardinality(Recording) \in Nat /\ Cardinality(Recording') = Cardinality(Recording)
    <2>1. /\ Cardinality(Working) \in Nat
          /\ Cardinality(Working') = Cardinality(Working) - Works(asker[a]) + Works(r)
          /\ Cardinality(Recording) \in Nat
          /\ Cardinality(Recording') = Cardinality(Recording) - Records(asker[a]) + Records(r)
      BY <1>1, AskerMoves DEF QuotasInv
    <2> QED BY <1>2, <2>1
  <1>8. Cardinality(Working') + Cardinality(Recording') <= Cardinality(Askers)
    <2>1. Working' \subseteq Askers /\ Recording' \subseteq Askers /\ Working' \cap Recording' = {}
      BY DEF Working, Recording
    <2>2. IsFiniteSet(Working') /\ IsFiniteSet(Recording') /\ IsFiniteSet(Askers)
      BY <2>1, QuotasAssumption, FS_Subset
    <2>3. IsFiniteSet(Working' \cup Recording')
          /\ Cardinality(Working' \cup Recording') = Cardinality(Working') + Cardinality(Recording')
                - Cardinality(Working' \cap Recording')
      BY <2>2, FS_Union
    <2>4. Cardinality(Working' \cap Recording') = 0
      BY <2>1, FS_EmptySet
    <2>5. Cardinality(Working' \cup Recording') <= Cardinality(Askers)
      BY <2>1, <2>2, FS_Subset
    <2>6. Cardinality(Working') \in Nat /\ Cardinality(Recording') \in Nat
      BY <2>2, FS_CardinalityType
    <2> QED BY <2>3, <2>4, <2>5, <2>6
  <1>9. /\ (recorded + Cardinality(Recording) <= succeeded)'
        /\ (succeeded <= recorded + Cardinality(Recording) + missed)'
        /\ (succeeded + Cardinality(Working) <= Entitled + missed + Cardinality(Askers) - 1)'
    <2>1. Cardinality(Askers) \in Nat /\ Entitled \in Nat
      BY QuotasAssumption, FS_CardinalityType
    <2> QED BY <1>3, <1>4, <1>7, <1>8, <2>1 DEF QuotasInv, QuotaCounts
  <1> QED BY <1>5, <1>6, <1>9 DEF QuotasInv, QuotaCounts

\* A success is recorded, or missed.
LEMMA RecordKeepsCounts ==
    ASSUME QuotasInv, NEW a \in Askers, NEW away \in BOOLEAN, Record(a, away)
    PROVE  QuotasInv'
  <1>1. Quiet \in AskerRecords /\ Goes(a, Quiet) /\ asker[a].at = "record"
    BY DEF Record, AskerRecords, Quiet
  <1>2. /\ Works(asker[a]) = 0 /\ Works(Quiet) = 0 /\ Records(asker[a]) = 1 /\ Records(Quiet) = 0
        /\ \A d : Calls(asker[a], d) = 0 /\ Calls(Quiet, d) = 0
        /\ \A P : Past(asker[a], P) = 0 /\ Past(Quiet, P) = 0
    BY <1>1 DEF Past, Calls, Works, Records, Quiet
  <1>3. UNCHANGED <<total, byPurpose, byUser, called, succeeded>>
        /\ \/ recorded' = recorded + 1 /\ missed' \in {missed, missed + 1}
           \/ recorded' = recorded /\ missed' = missed + 1
    BY DEF Record, MayCount
  <1>4. /\ total \in Nat /\ byPurpose \in [Purposes -> Nat] /\ succeeded \in Nat
        /\ recorded \in Nat /\ missed \in Nat /\ recorded' \in Nat /\ missed' \in Nat
    BY <1>3 DEF QuotasInv, QuotaTypeOK
  <1>5. QuotaTypeOK'
    <2>1. asker' \in [Askers -> AskerRecords]
      BY <1>1, AskerMoves DEF QuotasInv
    <2> QED BY <1>3, <1>4, <2>1 DEF QuotasInv, QuotaTypeOK
  <1>6. /\ UpTo(CallsOf(Purposes) + Cardinality(PastTotal(Purposes)), TotalLimit, total)'
        /\ UpTo(CallsOf(Purposes \ ReservedPurposes)
                  + Cardinality(PastTotal(Purposes \ ReservedPurposes)), DiscretionaryTotal, total)'
        /\ \A d \in Purposes :
              UpTo(called[d] + Cardinality(PastPurpose(d)), PurposeLimit[d], byPurpose[d])'
    <2>1. \A d \in Purposes : byPurpose[d] <= byPurpose'[d] /\ Calls(Quiet, d) <= Calls(asker[a], d)
      BY <1>2, <1>3, <1>4
    <2>2. Past(Quiet, Purposes) <= Past(asker[a], Purposes)
          /\ Past(Quiet, Purposes \ ReservedPurposes) <= Past(asker[a], Purposes \ ReservedPurposes)
      BY <1>2
    <2> QED BY <1>1, <1>3, <1>4, <2>1, <2>2, UsesKept
  <1>7. /\ Cardinality(Working) \in Nat /\ Cardinality(Working') = Cardinality(Working)
        /\ Cardinality(Recording) \in Nat /\ Cardinality(Recording') = Cardinality(Recording) - 1
    <2>1. /\ Cardinality(Working) \in Nat
          /\ Cardinality(Working') = Cardinality(Working) - Works(asker[a]) + Works(Quiet)
          /\ Cardinality(Recording) \in Nat
          /\ Cardinality(Recording') = Cardinality(Recording) - Records(asker[a]) + Records(Quiet)
      BY <1>1, AskerMoves DEF QuotasInv
    <2> QED BY <1>2, <2>1
  <1>8. /\ (recorded + Cardinality(Recording) <= succeeded)'
        /\ (succeeded <= recorded + Cardinality(Recording) + missed)'
        /\ (succeeded + Cardinality(Working) <= Entitled + missed + Cardinality(Askers) - 1)'
    <2>1. Cardinality(Askers) \in Nat /\ Entitled \in Nat
      BY QuotasAssumption, FS_CardinalityType
    <2> QED BY <1>3, <1>4, <1>7, <2>1 DEF QuotasInv, QuotaCounts
  <1> QED BY <1>5, <1>6, <1>8 DEF QuotasInv, QuotaCounts

\* SpentWithinLimits: the model is called no more often than each limit of the day and of
\* the purpose allows, whoever asks and whenever the cache is away, and entitled work goes
\* beyond the entitlement by no more than the requests under way and those not counted
\* (UsageQuota and SubjectQuota, the guard of the provider and AiEntitlementService).
THEOREM LimitsAlwaysHold == QuotasSpec => []SpentWithinLimits
  <1>1. QuotasInit => QuotasInv
    <2> SUFFICES ASSUME QuotasInit PROVE QuotasInv
      OBVIOUS
    <2>1. QuotaTypeOK
      BY DEF QuotasInit, QuotaTypeOK, AskerRecords, Quiet
    <2>2. /\ \A P : PastTotal(P) = {}
          /\ \A p : PastPurpose(p) = {}
          /\ Working = {} /\ Recording = {}
      BY DEF QuotasInit, PastTotal, PastPurpose, Working, Recording, Quiet
    <2>3. Cardinality({}) = 0
      BY FS_EmptySet
    <2>4. ASSUME NEW P, P \subseteq Purposes PROVE CallsOf(P) = 0
      <3>1. {c \in P \X (1 .. MaxEntitled + MaxOther) : c[2] <= called[c[1]]} = {}
        <4>1. \A c \in P \X (1 .. MaxEntitled + MaxOther) : called[c[1]] = 0 /\ c[2] \in Int /\ c[2] >= 1
          BY <2>4, QuotasAssumption DEF QuotasInit
        <4> QED BY <4>1
      <3> QED BY <2>3, <3>1 DEF CallsOf
    <2>5. CallsOf(Purposes) = 0 /\ CallsOf(Purposes \ ReservedPurposes) = 0
      BY <2>4
    <2>6. Cardinality(Askers) \in Nat \ {0}
      BY QuotasAssumption, FS_CardinalityType, FS_EmptySet
    <2>7. /\ total = 0 /\ recorded = 0 /\ succeeded = 0 /\ missed = 0
          /\ \A p \in Purposes : called[p] = 0 /\ byPurpose[p] = 0 /\ PurposeLimit[p] \in Nat
          /\ {TotalLimit, DiscretionaryTotal, Entitled} \subseteq Nat
      BY QuotasAssumption DEF QuotasInit
    <2>8. /\ Cardinality(PastTotal(Purposes)) = 0
          /\ Cardinality(PastTotal(Purposes \ ReservedPurposes)) = 0
          /\ \A p \in Purposes : Cardinality(PastPurpose(p)) = 0
          /\ Cardinality(Working) = 0 /\ Cardinality(Recording) = 0
      BY <2>2, <2>3
    <2>9. QuotaCounts
      BY <2>5, <2>6, <2>7, <2>8 DEF QuotaCounts, UpTo
    <2> QED BY <2>1, <2>9 DEF QuotasInv
  <1>2. QuotasInv /\ [QuotasNext]_quotasVars => QuotasInv'
    <2> SUFFICES ASSUME QuotasInv, [QuotasNext]_quotasVars PROVE QuotasInv'
      OBVIOUS
    <2>1. CASE UNCHANGED quotasVars
      BY <2>1 DEF QuotasInv, QuotaTypeOK, QuotaCounts, UpTo, CallsOf, PastTotal, PastPurpose, Working,
                  Recording, quotasVars
    <2>2. ASSUME NEW a \in Askers, ConsumeTotal(a) PROVE QuotasInv'
      BY <2>2, ConsumeTotalKeepsCounts
    <2>3. ASSUME NEW a \in Askers, ConsumePurpose(a) PROVE QuotasInv'
      BY <2>3, ConsumePurposeKeepsCounts
    <2>4. ASSUME NEW a \in Askers, GuardWithoutCache(a) PROVE QuotasInv'
      BY <2>4, GuardWithoutCacheKeepsCounts
    <2>5. ASSUME NEW a \in Askers, NEW p \in Purposes, ConsumeSubject(a, p) \/ ConsumeWithoutCache(a, p)
          PROVE  QuotasInv'
      BY <2>5, ConsumeKeepsCounts
    <2>6. ASSUME NEW a \in Askers, NEW p \in Purposes, NEW away \in BOOLEAN,
        CheckEntitlement(a, p, away)
          PROVE  QuotasInv'
      BY <2>6, CheckEntitlementKeepsCounts
    <2>7. ASSUME NEW a \in Askers, NEW away \in BOOLEAN, Record(a, away) PROVE QuotasInv'
      BY <2>7, RecordKeepsCounts
    <2>8. ASSUME NEW a \in Askers, NEW works \in BOOLEAN, Call(a, works) PROVE QuotasInv'
      BY <2>8, CallKeepsCounts
    <2> QED BY <2>1, <2>2, <2>3, <2>4, <2>5, <2>6, <2>7, <2>8 DEF QuotasNext
  <1>3. QuotasInv => SpentWithinLimits
    <2> SUFFICES ASSUME QuotasInv PROVE SpentWithinLimits
      OBVIOUS
    <2>1. IsFiniteSet(Working) /\ IsFiniteSet(Recording)
          /\ \A P : IsFiniteSet(PastTotal(P)) /\ \A p : IsFiniteSet(PastPurpose(p))
      BY QuotasAssumption, FS_Subset DEF Working, Recording, PastTotal, PastPurpose
    <2>2. Cardinality(Working) \in Nat /\ Cardinality(Recording) \in Nat
          /\ \A P : Cardinality(PastTotal(P)) \in Nat /\ \A p : Cardinality(PastPurpose(p)) \in Nat
      BY <2>1, FS_CardinalityType
    <2>3. CallsOf(Purposes) \in Nat /\ CallsOf(Purposes \ ReservedPurposes) \in Nat
      BY CallsCounted
    <2>4. /\ total \in Nat /\ called \in [Purposes -> Nat] /\ recorded \in Nat
          /\ succeeded \in Nat /\ missed \in Nat
          /\ {TotalLimit, DiscretionaryTotal, Entitled, Cardinality(Askers)} \subseteq Nat
          /\ PurposeLimit \in [Purposes -> Nat]
      BY QuotasAssumption, FS_CardinalityType DEF QuotasInv, QuotaTypeOK
    <2>5. QuotaCounts
      BY DEF QuotasInv
    <2>6. \A p \in Purposes : called[p] <= PurposeLimit[p]
      BY <2>2, <2>4, <2>5 DEF QuotaCounts, UpTo
    <2>7. CallsOf(Purposes) <= TotalLimit /\ CallsOf(Purposes \ ReservedPurposes) <= DiscretionaryTotal
      BY <2>2, <2>3, <2>4, <2>5 DEF QuotaCounts, UpTo
    <2>8. succeeded <= Entitled + missed + Cardinality(Askers) - 1
      BY <2>2, <2>4, <2>5 DEF QuotaCounts
    <2>9. recorded + Cardinality(Recording) \in succeeded - missed .. succeeded
      BY <2>2, <2>4, <2>5 DEF QuotaCounts
    <2> QED BY <2>6, <2>7, <2>8, <2>9 DEF SpentWithinLimits, Recording
  <1> QED BY <1>1, <1>2, <1>3, PTL DEF QuotasSpec

(****************************************************************************)
(* The outbox.                                                              *)
(****************************************************************************)
ListedRows == [of : Notices, delivered : SUBSET Channels]

OutboxTypeOK ==
    /\ notice \in [Notices -> [state : {"none", "sending", "row", "lost"},
                               delivered : SUBSET Channels, attempts : Nat]]
    /\ retrier \in [Retriers -> [at : {"waits", "deliver"}, rows : SUBSET ListedRows]
                                \cup [at : {"write"}, rows : SUBSET ListedRows, next : SUBSET Channels]]
    /\ told \in [Notices -> [Channels -> Nat]]

\* A run lists a notification once; what it is to write is of one it has.
ListsInTurn ==
    \A r \in Retriers :
        /\ \A x, y \in retrier[r].rows : x.of = y.of => x = y
        /\ \A x \in retrier[r].rows : notice[x.of].state = "row"
        /\ retrier[r].at = "write" => retrier[r].rows # {}

Has(r, n) == \E x \in retrier[r].rows : x.of = n
Writes(r, n) == retrier[r].at = "write" /\ OldestRow(r).of = n

\* What a notification was delivered over, what its row says, and what the one run that has
\* it is about to write.
NoticeTold(n) ==
    /\ notice[n].state = "none" => notice[n].delivered = {}
    /\ notice[n].attempts <= MaxAttempts
    /\ \A r, s \in Retriers : Has(r, n) /\ Has(s, n) => r = s
    /\ \A r \in Retriers : \A x \in retrier[r].rows :
          x.of = n => x.delivered = notice[n].delivered /\ notice[n].attempts < MaxAttempts
    /\ \A r \in Retriers : Writes(r, n) =>
          /\ notice[n].delivered \subseteq retrier[r].next
          /\ \A c \in Channels : told[n][c] = IF c \in retrier[r].next THEN 1 ELSE 0
    /\ (\A r \in Retriers : ~Writes(r, n)) =>
          \A c \in Channels : told[n][c] = IF c \in notice[n].delivered THEN 1 ELSE 0

OutboxInv == OutboxTypeOK /\ ListsInTurn /\ \A n \in Notices \ crossed : NoticeTold(n)

\* A set of numbers has a least one.
LEMMA LeastNumber ==
    ASSUME NEW T, T \subseteq Nat, T # {}
    PROVE  \E x \in T : \A y \in T : x <= y
  <1> DEFINE R == OpToRel(<, Nat)
  <1>1. IsWellFoundedOn(R, Nat)
    BY NatLessThanWellFounded
  <1>2. \A x, y \in Nat : y < x => <<y, x>> \in R
    BY DEF OpToRel
  <1> HIDE DEF R
  <1>3. PICK x \in T : \A y \in T : ~(<<y, x>> \in R)
    BY <1>1, WFMin
  <1>4. \A y \in T : x <= y
    <2> TAKE y \in T
    <2>1. x \in Nat /\ y \in Nat /\ ~(y < x)
      BY <1>2, <1>3
    <2> QED BY <2>1
  <1> QED BY <1>4

\* The oldest row of a run is one of its rows.
LEMMA OldestListed ==
    ASSUME OutboxTypeOK, NEW r \in Retriers, retrier[r].rows # {}
    PROVE  OldestRow(r) \in retrier[r].rows /\ OldestRow(r) \in ListedRows
  <1>1. retrier[r].rows \subseteq ListedRows
    BY DEF OutboxTypeOK
  <1> DEFINE T == {x.of : x \in retrier[r].rows}
  <1>2. T \subseteq Nat /\ T # {}
    BY <1>1, OutboxAssumption DEF ListedRows, Notices
  <1>3. PICK n \in T : \A m \in T : n <= m
    BY <1>2, LeastNumber
  <1>4. \E x \in retrier[r].rows : \A y \in retrier[r].rows : x.of <= y.of
    BY <1>3
  <1>5. OldestRow(r) \in retrier[r].rows
    BY <1>4 DEF OldestRow
  <1> QED BY <1>1, <1>5

\* A channel that was not told is told once.
LEMMA ToldOnce ==
    ASSUME NEW k \in Nat
    PROVE  Min({k + 1, 2}) \in Nat /\ (k = 0 => Min({k + 1, 2}) = 1)
  <1>1. \E x \in {k + 1, 2} : \A y \in {k + 1, 2} : x =< y
    OBVIOUS
  <1>2. Min({k + 1, 2}) \in {k + 1, 2} /\ \A y \in {k + 1, 2} : Min({k + 1, 2}) =< y
    BY <1>1 DEF Min
  <1> QED BY <1>2

\* What a run writes is of a notification it has, and one that is no row yet has no run.
LEMMA WriterHas ==
    ASSUME OutboxTypeOK, ListsInTurn, NEW r \in Retriers, NEW n \in Notices
    PROVE  (Writes(r, n) => Has(r, n)) /\ (Has(r, n) => notice[n].state = "row")
  <1>1. Writes(r, n) => Has(r, n)
    BY OldestListed DEF Writes, Has, ListsInTurn
  <1> QED BY <1>1 DEF Has, ListsInTurn

\* A notification no step touches.
LEMMA NoticeUndisturbed ==
    ASSUME OutboxTypeOK, NEW n \in Notices, NoticeTold(n),
           notice'[n] = notice[n], told'[n] = told[n],
           \A r \in Retriers : \A x \in retrier'[r].rows : x.of = n => x \in retrier[r].rows,
           \A r \in Retriers : Writes(r, n)' <=> Writes(r, n),
           \A r \in Retriers : Writes(r, n) => retrier'[r].next = retrier[r].next
    PROVE  NoticeTold(n)'
  <1>1. \A r \in Retriers : Has(r, n)' => Has(r, n)
    BY DEF Has
  <1>2. \A r, s \in Retriers : Has(r, n)' /\ Has(s, n)' => r = s
    BY <1>1 DEF NoticeTold
  <1>3. \A r \in Retriers : \A x \in retrier'[r].rows :
           x.of = n => x.delivered = notice'[n].delivered /\ notice'[n].attempts < MaxAttempts
    BY DEF NoticeTold
  <1>4. \A r \in Retriers : Writes(r, n)' =>
           /\ notice'[n].delivered \subseteq retrier'[r].next
           /\ \A c \in Channels : told'[n][c] = IF c \in retrier'[r].next THEN 1 ELSE 0
    BY DEF NoticeTold
  <1>5. (\A r \in Retriers : ~Writes(r, n)') =>
           \A c \in Channels : told'[n][c] = IF c \in notice'[n].delivered THEN 1 ELSE 0
    BY DEF NoticeTold
  <1> QED BY <1>2, <1>3, <1>4, <1>5 DEF NoticeTold

\* A notification is sent, gets its row or is lost.
LEMMA SenderKeepsTold ==
    ASSUME OutboxInv, NEW n \in Notices, NEW delivered \in SUBSET Channels,
           Send(n, delivered) \/ CreateNotice(n) \/ SenderDies(n)
    PROVE  OutboxInv'
  <1> USE DEF OutboxInv
  <1>1. notice[n].state # "row" /\ \A r \in Retriers : ~Has(r, n) /\ ~Writes(r, n)
    BY WriterHas DEF Send, CreateNotice, SenderDies
  <1>2. UNCHANGED <<retrier, crossed>>
    BY DEF Send, CreateNotice, SenderDies
  <1>3. notice \in [Notices -> [state : {"none", "sending", "row", "lost"},
                                delivered : SUBSET Channels, attempts : Nat]]
        /\ told \in [Notices -> [Channels -> Nat]]
    BY DEF OutboxTypeOK
  <1>4. \A m \in Notices \ {n} : notice'[m] = notice[m] /\ told'[m] = told[m]
    <2>1. CASE Send(n, delivered)
      BY <1>3, <2>1 DEF Send, Tell
    <2>2. CASE CreateNotice(n) \/ SenderDies(n)
      BY <1>3, <2>2 DEF CreateNotice, SenderDies
    <2> QED BY <2>1, <2>2
  <1>5. /\ notice' \in [Notices -> [state : {"none", "sending", "row", "lost"},
                                    delivered : SUBSET Channels, attempts : Nat]]
        /\ notice'[n].attempts = notice[n].attempts \/ notice'[n].attempts = 1
        /\ notice'[n].state # "none"
    <2>1. PICK s \in {"none", "sending", "row", "lost"}, d \in SUBSET Channels, k \in Nat :
             notice[n] = [state |-> s, delivered |-> d, attempts |-> k]
      BY <1>3
    <2>2. CASE Send(n, delivered)
      <3>1. notice' = [notice EXCEPT ![n].state = "sending", ![n].delivered = delivered]
        BY <2>2 DEF Send
      <3>2. notice' = [notice EXCEPT ![n] = [state |-> "sending", delivered |-> delivered, attempts |-> k]]
        <4>1. [[notice[n] EXCEPT !.state = "sending"] EXCEPT !.delivered = delivered]
                 = [state |-> "sending", delivered |-> delivered, attempts |-> k]
          <5>1. [notice[n] EXCEPT !.state = "sending"] = [state |-> "sending", delivered |-> d, attempts |-> k]
            BY <2>1
          <5>2. [[state |-> "sending", delivered |-> d, attempts |-> k] EXCEPT !.delivered = delivered]
                   = [state |-> "sending", delivered |-> delivered, attempts |-> k]
            OBVIOUS
          <5> QED BY <5>1, <5>2
        <4>2. notice' = [notice EXCEPT ![n] =
                           [[notice[n] EXCEPT !.state = "sending"] EXCEPT !.delivered = delivered]]
          BY <1>3, <3>1
        <4> QED BY <4>1, <4>2
      <3> QED BY <1>3, <2>1, <3>2
    <2>3. CASE CreateNotice(n)
      <3>1. notice' = [notice EXCEPT ![n].state = "row", ![n].attempts = 1]
        BY <2>3 DEF CreateNotice
      <3>2. notice' = [notice EXCEPT ![n] = [state |-> "row", delivered |-> d, attempts |-> 1]]
        <4>1. [[notice[n] EXCEPT !.state = "row"] EXCEPT !.attempts = 1]
                 = [state |-> "row", delivered |-> d, attempts |-> 1]
          <5>1. [notice[n] EXCEPT !.state = "row"] = [state |-> "row", delivered |-> d, attempts |-> k]
            BY <2>1
          <5>2. [[state |-> "row", delivered |-> d, attempts |-> k] EXCEPT !.attempts = 1]
                   = [state |-> "row", delivered |-> d, attempts |-> 1]
            OBVIOUS
          <5> QED BY <5>1, <5>2
        <4>2. notice' = [notice EXCEPT ![n] = [[notice[n] EXCEPT !.state = "row"] EXCEPT !.attempts = 1]]
          BY <1>3, <3>1
        <4> QED BY <4>1, <4>2
      <3> QED BY <1>3, <2>1, <3>2
    <2>4. CASE SenderDies(n)
      <3>1. notice' = [notice EXCEPT ![n].state = "lost"]
        BY <2>4 DEF SenderDies
      <3>2. notice' = [notice EXCEPT ![n] = [state |-> "lost", delivered |-> d, attempts |-> k]]
        <4>1. [notice[n] EXCEPT !.state = "lost"] = [state |-> "lost", delivered |-> d, attempts |-> k]
          BY <2>1
        <4> QED BY <3>1, <4>1
      <3> QED BY <1>3, <2>1, <3>2
    <2> QED BY <2>2, <2>3, <2>4
  <1>6. /\ told' \in [Notices -> [Channels -> Nat]]
        /\ n \notin crossed =>
              \A c \in Channels : told'[n][c] = IF c \in notice'[n].delivered THEN 1 ELSE 0
    <2>1. CASE Send(n, delivered)
      <3>1. n \notin crossed => \A c \in Channels : told[n][c] = 0
        BY <1>1, <2>1 DEF Send, NoticeTold
      <3>2. told' = [told EXCEPT ![n] =
                       [c \in Channels |-> IF c \in delivered THEN Min({told[n][c] + 1, 2}) ELSE told[n][c]]]
        BY <2>1 DEF Send, Tell
      <3>3. \A c \in Channels : told[n][c] \in Nat
        BY <1>3
      <3>4. \A c \in Channels : Min({told[n][c] + 1, 2}) \in Nat
                                /\ (told[n][c] = 0 => Min({told[n][c] + 1, 2}) = 1)
        BY <3>3, ToldOnce
      <3>5. told' \in [Notices -> [Channels -> Nat]]
        BY <1>3, <3>2, <3>3, <3>4
      <3>6. notice'[n].delivered = delivered
        BY <1>3, <2>1 DEF Send
      <3> QED BY <1>3, <3>1, <3>2, <3>4, <3>5, <3>6
    <2>2. CASE CreateNotice(n) \/ SenderDies(n)
      <3>1. notice'[n].delivered = notice[n].delivered /\ told' = told
        BY <1>3, <2>2 DEF CreateNotice, SenderDies
      <3> QED BY <1>1, <1>3, <3>1 DEF NoticeTold
    <2> QED BY <2>1, <2>2
  <1>7. OutboxTypeOK'
    BY <1>2, <1>5, <1>6 DEF OutboxTypeOK
  <1>8. \A r \in Retriers : OldestRow(r)' = OldestRow(r)
    BY <1>2 DEF OldestRow
  <1>9. ListsInTurn'
    <2>1. \A r \in Retriers : \A x \in retrier[r].rows : x.of \in Notices \ {n}
      BY <1>1 DEF Has, OutboxTypeOK, ListedRows
    <2> QED BY <1>2, <1>4, <2>1 DEF ListsInTurn
  <1>10. ASSUME NEW m \in Notices \ crossed', m # n PROVE NoticeTold(m)'
    <2>1. \A r \in Retriers : Writes(r, m)' <=> Writes(r, m)
      BY <1>2, <1>8 DEF Writes
    <2> QED BY <1>2, <1>4, <1>10, <2>1, NoticeUndisturbed
  <1>11. n \notin crossed' => NoticeTold(n)'
    <2>1. \A r \in Retriers : ~Has(r, n)' /\ ~Writes(r, n)'
      BY <1>1, <1>2, <1>8 DEF Has, Writes
    <2>2. \A r \in Retriers : \A x \in retrier'[r].rows : x.of # n
      BY <2>1 DEF Has
    <2>3. n \notin crossed' => notice'[n].attempts <= MaxAttempts
      BY <1>2, <1>5, OutboxAssumption DEF NoticeTold
    <2> QED BY <1>2, <1>5, <1>6, <2>1, <2>2, <2>3 DEF NoticeTold
  <1> QED BY <1>7, <1>9, <1>10, <1>11

\* A run drops rows, or all of them: what it had been about to write is doubtful.
LEMMA RunDropsKeepTold ==
    ASSUME OutboxInv, NEW r \in Retriers, NEW to,
           to \in [at : {"waits", "deliver"}, rows : SUBSET ListedRows],
           to.rows \subseteq retrier[r].rows, retrier' = [retrier EXCEPT ![r] = to],
           UNCHANGED <<notice, told>>, crossed \subseteq crossed',
           \A n \in Notices : Writes(r, n) => n \in crossed'
    PROVE  OutboxInv'
  <1> USE DEF OutboxInv
  <1>1. retrier'[r] = to /\ (\A s \in Retriers \ {r} : retrier'[s] = retrier[s])
        /\ OutboxTypeOK'
    BY DEF OutboxTypeOK
  <1>2. ListsInTurn'
    BY <1>1 DEF ListsInTurn
  <1>3. \A s \in Retriers \ {r} : OldestRow(s)' = OldestRow(s)
    BY <1>1 DEF OldestRow
  <1>4. to.at # "write"
    OBVIOUS
  <1>5. ASSUME NEW n \in Notices \ crossed' PROVE NoticeTold(n)'
    <2>1. \A s \in Retriers : Writes(s, n)' <=> Writes(s, n)
      BY <1>1, <1>3, <1>4 DEF Writes
    <2>2. \A s \in Retriers : Writes(s, n) => retrier'[s].next = retrier[s].next
      BY <1>1
    <2>3. \A s \in Retriers : \A x \in retrier'[s].rows : x.of = n => x \in retrier[s].rows
      BY <1>1
    <2> QED BY <2>1, <2>2, <2>3, NoticeUndisturbed
  <1> QED BY <1>1, <1>2, <1>5

\* A run takes the oldest rows with attempts left; those it shares are doubtful from then on.
LEMMA ListKeepsTold ==
    ASSUME OutboxInv, NEW r \in Retriers, ListRetriable(r)
    PROVE  OutboxInv'
  <1> USE DEF OutboxInv
  <1> DEFINE to == [at |-> "deliver", rows |-> {[of |-> n, delivered |-> notice[n].delivered] : n \in Taken}]
  <1>1. retrier[r].rows = {} /\ retrier[r].at = "waits" /\ retrier' = [retrier EXCEPT ![r] = to]
        /\ UNCHANGED <<notice, told>>
        /\ crossed' = crossed \cup {n \in Taken : \E o \in Retriers : Has(o, n)}
    BY DEF ListRetriable, Waits, Has
  <1>2. Taken \subseteq {n \in Notices : notice[n].state = "row" /\ notice[n].attempts < MaxAttempts}
    BY DEF Taken, Retriable
  <1>3. \A n \in Notices : notice[n].delivered \in SUBSET Channels
    BY DEF OutboxTypeOK
  <1>4. to \in [at : {"waits", "deliver"}, rows : SUBSET ListedRows] /\ to.at = "deliver"
    BY <1>2, <1>3 DEF ListedRows
  <1>5. \A x \in to.rows : x.of \in Taken /\ x.delivered = notice[x.of].delivered
                           /\ x = [of |-> x.of, delivered |-> notice[x.of].delivered]
    OBVIOUS
  <1> HIDE DEF to
  <1>6. retrier'[r] = to /\ (\A s \in Retriers \ {r} : retrier'[s] = retrier[s])
        /\ OutboxTypeOK'
    BY <1>1, <1>4 DEF OutboxTypeOK
  <1>7. ListsInTurn'
    <2>1. \A x, y \in to.rows : x.of = y.of => x = y
      BY <1>5
    <2>2. \A x \in to.rows : notice[x.of].state = "row"
      BY <1>2, <1>5
    <2> QED BY <1>1, <1>4, <1>6, <2>1, <2>2 DEF ListsInTurn
  <1>8. \A s \in Retriers \ {r} : OldestRow(s)' = OldestRow(s)
    BY <1>6 DEF OldestRow
  <1>9. ASSUME NEW n \in Notices \ crossed' PROVE NoticeTold(n)'
    <2>1. \A s \in Retriers : Writes(s, n)' <=> Writes(s, n)
      BY <1>1, <1>4, <1>6, <1>8 DEF Writes
    <2>2. NoticeTold(n)
      BY <1>1
    <2>3. CASE n \notin Taken
      <3>1. \A s \in Retriers : \A x \in retrier'[s].rows : x.of = n => x \in retrier[s].rows
        BY <1>5, <1>6, <2>3
      <3>2. \A s \in Retriers : Writes(s, n) => retrier'[s].next = retrier[s].next
        BY <1>1, <1>6 DEF Writes
      <3> QED BY <1>1, <2>1, <2>2, <3>1, <3>2, NoticeUndisturbed
    <2>4. CASE n \in Taken
      <3>1. \A s \in Retriers : ~Has(s, n) /\ ~Writes(s, n)
        BY <1>1, <1>9, <2>4, WriterHas
      <3>2. \A s \in Retriers \ {r} : ~Has(s, n)'
        BY <1>6, <3>1 DEF Has
      <3>3. \A s \in Retriers : \A x \in retrier'[s].rows : x.of = n =>
               x.delivered = notice'[n].delivered /\ notice'[n].attempts < MaxAttempts
        <4>1. \A s \in Retriers \ {r} : \A x \in retrier'[s].rows : x.of # n
          BY <3>2 DEF Has
        <4>2. \A x \in retrier'[r].rows : x.of = n =>
                 x.delivered = notice'[n].delivered /\ notice'[n].attempts < MaxAttempts
          BY <1>1, <1>2, <1>5, <1>6, <2>4
        <4> QED BY <4>1, <4>2
      <3>4. \A s, o \in Retriers : Has(s, n)' /\ Has(o, n)' => s = o
        BY <3>2
      <3>5. \A s \in Retriers : ~Writes(s, n)'
        BY <2>1, <3>1
      <3> QED BY <1>1, <2>2, <3>1, <3>3, <3>4, <3>5 DEF NoticeTold
    <2> QED BY <2>3, <2>4
  <1> QED BY <1>6, <1>7, <1>9

\* The channels that had failed are told, and the run goes on to write it.
LEMMA DeliverKeepsTold ==
    ASSUME OutboxInv, NEW r \in Retriers, NEW delivered \in SUBSET Channels, DeliverAgain(r, delivered)
    PROVE  OutboxInv'
  <1> USE DEF OutboxInv
  <1>1. PICK old \in ListedRows : old = OldestRow(r) /\ old \in retrier[r].rows
    BY OldestListed DEF DeliverAgain
  <1>2. PICK n \in Notices, d \in SUBSET Channels : old = [of |-> n, delivered |-> d]
    BY DEF ListedRows
  <1> DEFINE to == [at |-> "write", rows |-> retrier[r].rows, next |-> d \cup delivered]
  <1>3. retrier[r].at = "deliver" /\ retrier' = [retrier EXCEPT ![r] = to]
        /\ UNCHANGED <<notice, crossed>> /\ delivered \subseteq Channels \ d /\ Tell(n, delivered)
    BY <1>1, <1>2 DEF DeliverAgain, FailedIn
  <1>4. to \in [at : {"write"}, rows : SUBSET ListedRows, next : SUBSET Channels]
    BY DEF OutboxTypeOK
  <1>5. to.rows = retrier[r].rows /\ to.next = d \cup delivered /\ to.at = "write"
    OBVIOUS
  <1> HIDE DEF to
  <1>6. retrier'[r] = to /\ (\A s \in Retriers \ {r} : retrier'[s] = retrier[s])
        /\ retrier' \in [Retriers -> [at : {"waits", "deliver"}, rows : SUBSET ListedRows]
                                     \cup [at : {"write"}, rows : SUBSET ListedRows, next : SUBSET Channels]]
    BY <1>3, <1>4 DEF OutboxTypeOK
  <1>7. \A c \in Channels : told[n][c] \in Nat
    BY DEF OutboxTypeOK
  <1>8. \A c \in Channels : Min({told[n][c] + 1, 2}) \in Nat
                            /\ (told[n][c] = 0 => Min({told[n][c] + 1, 2}) = 1)
    BY <1>7, ToldOnce
  <1>9. told' = [told EXCEPT ![n] =
                   [c \in Channels |-> IF c \in delivered THEN Min({told[n][c] + 1, 2}) ELSE told[n][c]]]
    BY <1>3 DEF Tell
  <1>10. told' \in [Notices -> [Channels -> Nat]]
         /\ (\A m \in Notices \ {n} : told'[m] = told[m])
         /\ \A c \in Channels : told'[n][c] = IF c \in delivered THEN Min({told[n][c] + 1, 2}) ELSE told[n][c]
    BY <1>7, <1>8, <1>9 DEF OutboxTypeOK
  <1>11. OutboxTypeOK'
    BY <1>3, <1>6, <1>10 DEF OutboxTypeOK
  <1>12. ListsInTurn'
    BY <1>1, <1>3, <1>5, <1>6 DEF ListsInTurn
  <1>13. \A s \in Retriers : retrier'[s].rows = retrier[s].rows /\ OldestRow(s)' = OldestRow(s)
    BY <1>5, <1>6 DEF OldestRow
  <1>14. (\A s \in Retriers \ {r} : \A m : Writes(s, m)' <=> Writes(s, m))
         /\ \A m : ~Writes(r, m) /\ (Writes(r, m)' <=> m = n)
    <2>1. \A s \in Retriers \ {r} : \A m : Writes(s, m)' <=> Writes(s, m)
      BY <1>6, <1>13 DEF Writes
    <2>2. \A m : ~Writes(r, m)
      BY <1>3 DEF Writes
    <2>3. \A m : Writes(r, m)' <=> m = n
      <3>1. retrier'[r].at = "write"
        BY <1>5, <1>6
      <3>2. OldestRow(r)' = old
        BY <1>1, <1>13
      <3>3. old.of = n
        BY <1>2
      <3> QED BY <3>1, <3>2, <3>3 DEF Writes
    <2> QED BY <2>1, <2>2, <2>3
  <1>15. ASSUME NEW m \in Notices \ crossed', m # n PROVE NoticeTold(m)'
    <2>1. \A s \in Retriers : Writes(s, m)' <=> Writes(s, m)
      BY <1>14, <1>15
    <2>2. \A s \in Retriers : Writes(s, m) => retrier'[s].next = retrier[s].next
      BY <1>6, <1>14
    <2> QED BY <1>3, <1>10, <1>13, <1>15, <2>1, <2>2, NoticeUndisturbed
  <1>16. ASSUME n \notin crossed' PROVE NoticeTold(n)'
    <2>1. NoticeTold(n) /\ Has(r, n)
      BY <1>1, <1>2, <1>3, <1>16 DEF Has
    <2>2. \A s \in Retriers : Has(s, n) => s = r
      BY <2>1 DEF NoticeTold
    <2>3. \A s \in Retriers : ~Writes(s, n)
      BY <1>14, <2>2, WriterHas
    <2>4. notice[n].delivered = d
      BY <1>1, <1>2, <2>1 DEF NoticeTold
    <2>5. \A c \in Channels : told[n][c] = IF c \in d THEN 1 ELSE 0
      BY <2>1, <2>3, <2>4 DEF NoticeTold
    <2>6. \A c \in Channels : told'[n][c] = IF c \in d \cup delivered THEN 1 ELSE 0
      BY <1>3, <1>8, <1>10, <2>5
    <2>7. \A s \in Retriers : Writes(s, n)' => s = r
      BY <1>14, <2>3
    <2>8. \A s \in Retriers : Writes(s, n)' =>
             /\ notice'[n].delivered \subseteq retrier'[s].next
             /\ \A c \in Channels : told'[n][c] = IF c \in retrier'[s].next THEN 1 ELSE 0
      BY <1>3, <1>5, <1>6, <2>4, <2>6, <2>7
    <2>9. \A s, o \in Retriers : Has(s, n)' /\ Has(o, n)' => s = o
      BY <1>13, <2>2 DEF Has
    <2>10. \A s \in Retriers : \A x \in retrier'[s].rows :
              x.of = n => x.delivered = notice'[n].delivered /\ notice'[n].attempts < MaxAttempts
      BY <1>3, <1>13, <2>1 DEF NoticeTold
    <2>11. ~\A s \in Retriers : ~Writes(s, n)'
      BY <1>14
    <2> QED BY <1>3, <2>1, <2>8, <2>9, <2>10, <2>11 DEF NoticeTold
  <1> QED BY <1>11, <1>12, <1>15, <1>16

\* What every channel said is written, and the run is done with the row.
LEMMA WriteKeepsTold ==
    ASSUME OutboxInv, NEW r \in Retriers, WriteDelivery(r)
    PROVE  OutboxInv'
  <1> USE DEF OutboxInv
  <1>1. retrier[r].at = "write" /\ retrier[r].rows # {} /\ retrier[r].next \in SUBSET Channels
    BY DEF WriteDelivery, ListsInTurn, OutboxTypeOK
  <1>2. PICK old \in ListedRows : old = OldestRow(r) /\ old \in retrier[r].rows
    BY <1>1, OldestListed
  <1>3. PICK n \in Notices, d \in SUBSET Channels : old = [of |-> n, delivered |-> d]
    BY DEF ListedRows
  <1>4. PICK next \in SUBSET Channels : next = retrier[r].next
    BY <1>1
  <1>5. PICK s \in {"none", "sending", "row", "lost"}, had \in SUBSET Channels, k \in Nat :
           notice[n] = [state |-> s, delivered |-> had, attempts |-> k]
    BY DEF OutboxTypeOK
  <1>6. s = "row"
    BY <1>2, <1>3, <1>5 DEF ListsInTurn
  <1> DEFINE to == [at |-> "deliver", rows |-> retrier[r].rows \ {old}]
             written == [state |-> s, delivered |-> next, attempts |-> k + 1]
  <1>7. notice' = [notice EXCEPT ![n] = written] /\ retrier' = [retrier EXCEPT ![r] = to]
        /\ UNCHANGED <<told, crossed>>
    <2>1. notice' = [notice EXCEPT ![n].delivered = next, ![n].attempts = @ + 1]
      BY <1>2, <1>3, <1>4 DEF WriteDelivery
    <2>2. notice' = [notice EXCEPT ![n] = written]
      BY <1>5, <2>1 DEF OutboxTypeOK
    <2> QED BY <1>2, <2>2 DEF WriteDelivery
  <1>8. to \in [at : {"waits", "deliver"}, rows : SUBSET ListedRows] /\ to.at = "deliver"
        /\ to.rows = retrier[r].rows \ {old}
        /\ written \in [state : {"none", "sending", "row", "lost"}, delivered : SUBSET Channels, attempts : Nat]
        /\ written.state = "row" /\ written.delivered = next /\ written.attempts = k + 1
    BY <1>6 DEF OutboxTypeOK
  <1> HIDE DEF to, written
  <1>9. retrier'[r] = to /\ (\A o \in Retriers \ {r} : retrier'[o] = retrier[o])
        /\ notice'[n] = written /\ (\A m \in Notices \ {n} : notice'[m] = notice[m])
        /\ OutboxTypeOK'
    BY <1>7, <1>8 DEF OutboxTypeOK
  <1>10. \A o \in Retriers : \A x \in retrier'[o].rows : x \in retrier[o].rows
    BY <1>8, <1>9
  <1>11. ListsInTurn'
    <2>1. \A o \in Retriers : \A x \in retrier'[o].rows : x.of \in Notices /\ notice[x.of].state = "row"
      BY <1>10 DEF ListsInTurn, OutboxTypeOK, ListedRows
    <2>2. \A m \in Notices : notice[m].state = "row" => notice'[m].state = "row"
      BY <1>8, <1>9
    <2>3. \A o \in Retriers : retrier'[o].at = "write" => retrier'[o].rows # {}
      BY <1>8, <1>9 DEF ListsInTurn
    <2> QED BY <1>10, <2>1, <2>2, <2>3 DEF ListsInTurn
  <1>12. \A o \in Retriers \ {r} : \A m : Writes(o, m)' <=> Writes(o, m)
    BY <1>9 DEF Writes, OldestRow
  <1>13. \A m : ~Writes(r, m)' /\ (Writes(r, m) <=> m = n)
    BY <1>1, <1>2, <1>3, <1>8, <1>9 DEF Writes
  <1>14. ASSUME NEW m \in Notices \ crossed', m # n PROVE NoticeTold(m)'
    <2>1. \A o \in Retriers : Writes(o, m)' <=> Writes(o, m)
      BY <1>12, <1>13, <1>14
    <2>2. \A o \in Retriers : Writes(o, m) => retrier'[o].next = retrier[o].next
      BY <1>9, <1>13, <1>14
    <2> QED BY <1>7, <1>9, <1>10, <1>14, <2>1, <2>2, NoticeUndisturbed
  <1>15. ASSUME n \notin crossed' PROVE NoticeTold(n)'
    <2>1. NoticeTold(n) /\ Has(r, n)
      BY <1>2, <1>3, <1>7, <1>15 DEF Has
    <2>2. \A o \in Retriers : Has(o, n) => o = r
      BY <2>1 DEF NoticeTold
    <2>3. \A o \in Retriers : ~Writes(o, n)'
      BY <1>12, <1>13, <2>2, WriterHas
    <2>4. \A x \in retrier[r].rows : x.of = n => x = old
      BY <1>2, <1>3 DEF ListsInTurn
    <2>5. \A o \in Retriers : \A x \in retrier'[o].rows : x.of # n
      BY <1>8, <1>9, <2>2, <2>4 DEF Has
    <2>6. \A o \in Retriers : ~Has(o, n)'
      BY <2>5 DEF Has
    <2>7. \A c \in Channels : told[n][c] = IF c \in next THEN 1 ELSE 0
      BY <1>4, <1>13, <2>1 DEF NoticeTold
    <2>8. k < MaxAttempts
      BY <1>2, <1>3, <1>5, <2>1 DEF NoticeTold
    <2>9. notice'[n].attempts <= MaxAttempts
      BY <1>8, <1>9, <2>8, OutboxAssumption
    <2>10. \A c \in Channels : told'[n][c] = IF c \in notice'[n].delivered THEN 1 ELSE 0
      BY <1>7, <1>8, <1>9, <2>7
    <2>11. notice'[n].state # "none"
      BY <1>8, <1>9
    <2> QED BY <2>3, <2>5, <2>6, <2>9, <2>10, <2>11 DEF NoticeTold
  <1> QED BY <1>9, <1>11, <1>14, <1>15

\* DeliveredOnce: what a channel delivered it does not deliver again, and the row says what
\* was delivered, but for rows two runs had at once or that a run left unwritten
\* (send and retryFailed of notification).
THEOREM NoticesDeliveredOnce == OutboxSpec => []DeliveredOnce
  <1>1. OutboxInit => OutboxInv
    <2> SUFFICES ASSUME OutboxInit PROVE OutboxInv
      OBVIOUS
    <2>1. OutboxTypeOK
      BY DEF OutboxInit, OutboxTypeOK, Waits
    <2>2. ListsInTurn
      BY DEF OutboxInit, ListsInTurn, Waits
    <2>3. ASSUME NEW n \in Notices PROVE NoticeTold(n)
      BY OutboxAssumption DEF OutboxInit, NoticeTold, Waits, Has, Writes
    <2> QED BY <2>1, <2>2, <2>3 DEF OutboxInv
  <1>2. OutboxInv /\ [OutboxNext]_outboxVars => OutboxInv'
    <2> SUFFICES ASSUME OutboxInv, [OutboxNext]_outboxVars PROVE OutboxInv'
      OBVIOUS
    <2>1. CASE UNCHANGED outboxVars \/ NextFiring
      BY <2>1 DEF NextFiring, outboxVars, OutboxInv, OutboxTypeOK, ListsInTurn, NoticeTold, Has, Writes,
                  OldestRow
    <2>2. ASSUME NEW n \in Notices, CreateNotice(n) \/ SenderDies(n) PROVE OutboxInv'
      BY <2>2, SenderKeepsTold
    <2>3. ASSUME NEW n \in Notices, NEW delivered \in SUBSET Channels, Send(n, delivered)
          PROVE  OutboxInv'
      BY <2>3, SenderKeepsTold
    <2>4. ASSUME NEW r \in Retriers, ListRetriable(r) PROVE OutboxInv'
      BY <2>4, ListKeepsTold
    <2>5. ASSUME NEW r \in Retriers, NEW delivered \in SUBSET Channels, DeliverAgain(r, delivered)
          PROVE  OutboxInv'
      BY <2>5, DeliverKeepsTold
    <2>6. ASSUME NEW r \in Retriers, WriteDelivery(r) PROVE OutboxInv'
      BY <2>6, WriteKeepsTold
    <2>7. ASSUME NEW r \in Retriers, SkipDelivered(r) \/ EndRetry(r) \/ RetrierDies(r) PROVE OutboxInv'
      <3>1. \A s \in Retriers : retrier[s].rows \in SUBSET ListedRows
        BY DEF OutboxInv, OutboxTypeOK
      <3>2. CASE SkipDelivered(r)
        <4> DEFINE to == [at |-> "deliver", rows |-> retrier[r].rows \ {OldestRow(r)}]
        <4>1. PICK had \in SUBSET ListedRows :
                 retrier[r] = [at |-> "deliver", rows |-> had] /\ retrier[r].rows = had
          BY <3>2 DEF SkipDelivered, OutboxInv, OutboxTypeOK
        <4>2. retrier' = [retrier EXCEPT ![r] = to]
          <5>1. retrier' = [retrier EXCEPT ![r].rows = @ \ {OldestRow(r)}]
            BY <3>2 DEF SkipDelivered
          <5>2. [retrier[r] EXCEPT !.rows = @ \ {OldestRow(r)}] = to
            BY <4>1
          <5> QED BY <5>1, <5>2
        <4>3. to \in [at : {"waits", "deliver"}, rows : SUBSET ListedRows] /\ to.rows \subseteq retrier[r].rows
          BY <3>1
        <4>4. UNCHANGED <<notice, told, crossed>> /\ \A n : ~Writes(r, n)
          BY <3>2 DEF SkipDelivered, Writes
        <4> HIDE DEF to
        <4> QED BY <4>2, <4>3, <4>4, RunDropsKeepTold
      <3>3. CASE EndRetry(r) \/ RetrierDies(r)
        <4>1. Waits \in [at : {"waits", "deliver"}, rows : SUBSET ListedRows]
              /\ Waits.rows \subseteq retrier[r].rows
          BY DEF Waits
        <4>2. retrier' = [retrier EXCEPT ![r] = Waits] /\ UNCHANGED <<notice, told>>
              /\ crossed \subseteq crossed' /\ \A n \in Notices : Writes(r, n) => n \in crossed'
          BY <3>3 DEF EndRetry, RetrierDies, Writes
        <4> QED BY <4>1, <4>2, RunDropsKeepTold
      <3> QED BY <2>7, <3>2, <3>3
    <2> QED BY <2>1, <2>2, <2>3, <2>4, <2>5, <2>6, <2>7 DEF OutboxNext, RetryStep
  <1>3. OutboxInv => DeliveredOnce
    <2> SUFFICES ASSUME OutboxInv, NEW n \in Notices \ crossed
                 PROVE  /\ \A c \in Channels : told[n][c] <= 1
                        /\ \A c \in notice[n].delivered : told[n][c] = 1
                        /\ notice[n].attempts <= MaxAttempts
      BY DEF DeliveredOnce
    <2>1. NoticeTold(n) /\ notice[n].delivered \subseteq Channels
      BY DEF OutboxInv, OutboxTypeOK
    <2>2. CASE \E r \in Retriers : Writes(r, n)
      BY <2>1, <2>2 DEF NoticeTold
    <2>3. CASE \A r \in Retriers : ~Writes(r, n)
      BY <2>1, <2>3 DEF NoticeTold
    <2> QED BY <2>2, <2>3
  <1> QED BY <1>1, <1>2, <1>3, PTL DEF OutboxSpec
=============================================================================
