--------------------------- MODULE ConsultRecording ---------------------------
(****************************************************************************)
(* consult_recording: the audio recording of one consultation.  Student and *)
(* teacher each consent or withdraw; an egress of the media server records  *)
(* the room; its end is reported by a webhook that finds the row by the     *)
(* egress id stored in it, and may come late or more than once.             *)
(****************************************************************************)
EXTENDS Integers, FiniteSets

CONSTANTS
    MediaCalls,   \* consent requests in flight
    Hooks,        \* webhook deliveries in flight
    Egresses,     \* egresses that can be started (bound)
    StopMayFail   \* whether the media server may refuse to stop

Sides == {"student", "teacher"}
NoEgress == "no egress"

ASSUME RecordingAssumption == NoEgress \notin Egresses /\ StopMayFail \in BOOLEAN

VARIABLES
    rec,        \* the row
    running,    \* egresses recording the room
    started,    \* egresses started so far: the media server never reuses an id
    files,      \* objects in the store, by egress
    ended,      \* egresses whose end is (still) reported
    mediaCall,  \* what each consent request is doing
    hook,       \* what each webhook delivery is doing
    says,       \* history: what each side said last
    begun       \* history: requests that went on to start an egress, with says then

recordingVars == <<rec, running, started, files, ended, mediaCall, hook, says, begun>>

Unasked == [at |-> "idle"]

RecordingInit ==
    /\ rec = [status |-> "none", consent |-> [s \in Sides |-> FALSE],
              egress |-> NoEgress, key |-> NoEgress]
    /\ running = {} /\ started = {} /\ files = {} /\ ended = {}
    /\ mediaCall = [c \in MediaCalls |-> Unasked]
    /\ hook = [h \in Hooks |-> Unasked]
    /\ says = [s \in Sides |-> FALSE]
    /\ begun = {}

(****************************************************************************)
(* consent(recording = true): the upsert returns the row with both consents.*)
(****************************************************************************)
Both(consent) == \A s \in Sides : consent[s]

Consent(c, side) ==
    LET status == IF rec.status = "none" THEN "pending" ELSE rec.status
        consent == [rec.consent EXCEPT ![side] = TRUE]
    IN /\ mediaCall[c] = Unasked
       /\ rec' = [rec EXCEPT !.status = status, !.consent = consent]
       /\ says' = [says EXCEPT ![side] = TRUE]
       /\ mediaCall' = [mediaCall EXCEPT ![c] =
              IF Both(consent) THEN [at |-> "start"]
              ELSE IF status \in {"pending", "aborted"} THEN [at |-> "pending"] ELSE Unasked]
       /\ begun' = IF Both(consent) THEN begun \cup {says'} ELSE begun
       /\ UNCHANGED <<running, started, files, ended, hook>>

\* The second write of a consent that is still alone.
SetPending(c) ==
    /\ mediaCall[c].at = "pending"
    /\ rec' = [rec EXCEPT !.status = "pending"]
    /\ mediaCall' = [mediaCall EXCEPT ![c] = Unasked]
    /\ UNCHANGED <<running, started, files, ended, hook, says, begun>>

\* Every call with both consents starts one, a recording under way included.
StartEgress(c, e) ==
    /\ mediaCall[c].at = "start"
    /\ e \notin started
    /\ started' = started \cup {e}
    /\ running' = running \cup {e}
    /\ mediaCall' = [mediaCall EXCEPT ![c] = [at |-> "mark", egress |-> e]]
    /\ UNCHANGED <<rec, files, ended, hook, says, begun>>

\* No egress, or one that runs while its row could not be written.
StartFails(c) ==
    /\ mediaCall[c].at \in {"start", "mark"}
    /\ rec' = [rec EXCEPT !.status = "consented"]
    /\ mediaCall' = [mediaCall EXCEPT ![c] = Unasked]
    /\ UNCHANGED <<running, started, files, ended, hook, says, begun>>

MarkRecording(c) ==
    /\ mediaCall[c].at = "mark"
    /\ rec' = [rec EXCEPT !.status = "recording", !.egress = mediaCall[c].egress]
    /\ mediaCall' = [mediaCall EXCEPT ![c] = Unasked]
    /\ UNCHANGED <<running, started, files, ended, hook, says, begun>>

(****************************************************************************)
(* consent(recording = false): stop what the row names, then mark it.       *)
(****************************************************************************)
ReadWithdraw(c, side) ==
    /\ mediaCall[c] = Unasked
    /\ mediaCall' = [mediaCall EXCEPT ![c] =
           IF rec.status = "recording" THEN [at |-> "stop", side |-> side, egress |-> rec.egress]
                                       ELSE [at |-> "abort", side |-> side]]
    /\ UNCHANGED <<rec, running, started, files, ended, hook, says, begun>>

EndOf(e) == running' = running \ {e} /\ files' = files \cup {e} /\ ended' = ended \cup {e}

StopEgress(c) ==
    /\ mediaCall[c].at = "stop"
    /\ IF mediaCall[c].egress \in running
       THEN \/ EndOf(mediaCall[c].egress)
            \/ StopMayFail /\ UNCHANGED <<running, files, ended>>
       ELSE UNCHANGED <<running, files, ended>>
    /\ mediaCall' = [mediaCall EXCEPT ![c] = [at |-> "abort", side |-> @.side]]
    /\ UNCHANGED <<rec, started, hook, says, begun>>

\* Mutant: the consent is left in the row.
Withdrawn_Kept(consent, side) == consent
Withdrawn(consent, side) == [consent EXCEPT ![side] = FALSE]

Abort(c) ==
    /\ mediaCall[c].at = "abort"
    /\ LET side == mediaCall[c].side
       IN /\ rec' = [rec EXCEPT !.status = "aborted", !.consent = Withdrawn(@, side)]
          /\ says' = [says EXCEPT ![side] = FALSE]
    /\ mediaCall' = [mediaCall EXCEPT ![c] = Unasked]
    /\ UNCHANGED <<running, started, files, ended, hook, begun>>

(****************************************************************************)
(* The room empties, and the media server reports the end of its egress.    *)
(****************************************************************************)
RoomEmpties(e) ==
    /\ e \in running
    /\ EndOf(e)
    /\ UNCHANGED <<rec, started, mediaCall, hook, says, begun>>

\* handleEgressEnded reads the row; an egress the row does not name is ignored.
ReadEnded(h, e) ==
    /\ hook[h] = Unasked
    /\ e \in ended
    /\ hook' = [hook EXCEPT ![h] =
           IF rec.egress # e THEN Unasked
           ELSE IF rec.status = "aborted" THEN [at |-> "purge", egress |-> e]
                                          ELSE [at |-> "store", egress |-> e]]
    /\ ended' = ended \ {e}
    /\ UNCHANGED <<rec, running, started, files, mediaCall, says, begun>>

\* A deletion that fails is only logged.
PurgeFile(h) ==
    /\ hook[h].at = "purge"
    /\ files' \in {files, files \ {hook[h].egress}}
    /\ rec' = [rec EXCEPT !.key = NoEgress]
    /\ hook' = [hook EXCEPT ![h] = Unasked]
    /\ UNCHANGED <<running, started, ended, mediaCall, says, begun>>

StoreFile(h) ==
    /\ hook[h].at = "store"
    /\ rec' = [rec EXCEPT !.status = "stored", !.key = hook[h].egress]
    /\ hook' = [hook EXCEPT ![h] = Unasked]
    /\ UNCHANGED <<running, started, files, ended, mediaCall, says, begun>>

\* The handler throws or dies, and the provider reports the end again.
HookFails(h) ==
    /\ hook[h] # Unasked
    /\ ended' = ended \cup {hook[h].egress}
    /\ hook' = [hook EXCEPT ![h] = Unasked]
    /\ UNCHANGED <<rec, running, started, files, mediaCall, says, begun>>

RecordingNext ==
    \/ \E c \in MediaCalls :
          \/ SetPending(c) \/ StartFails(c) \/ MarkRecording(c) \/ StopEgress(c) \/ Abort(c)
          \/ \E side \in Sides : Consent(c, side) \/ ReadWithdraw(c, side)
          \/ \E e \in Egresses : StartEgress(c, e)
    \/ \E e \in Egresses :
          \/ RoomEmpties(e)
          \/ \E h \in Hooks : ReadEnded(h, e)
    \/ \E h \in Hooks : PurgeFile(h) \/ StoreFile(h) \/ HookFails(h)

RecordingSpec == RecordingInit /\ [][RecordingNext]_recordingVars

(****************************************************************************)
(* Properties.                                                              *)
(****************************************************************************)
\* No request goes on to record unless the last word of both sides, at the moment
\* it wrote its own consent, was yes: a withdrawal in between counts, whoever made it.
RecordedOnlyWithBoth == \A said \in begun : \A s \in Sides : said[s]

\* A withdrawal stops the recording: once a side has withdrawn and every request
\* is answered, nothing records the room.
WithdrawnIsStopped ==
    (\E s \in Sides : ~says[s]) /\ (\A c \in MediaCalls : mediaCall[c] = Unasked)
        => running = {}
=============================================================================
