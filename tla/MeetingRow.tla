----------------------------- MODULE MeetingRow -----------------------------
(***************************************************************************)
(* One row of the meetings table, as every component of the backend writes *)
(* it.  Each operator below is one UPDATE ... WHERE ... SET of the code:   *)
(* it returns the row after the statement, which is the same row when the  *)
(* WHERE clause does not match.  Nothing outside these statements moves a  *)
(* row through its dispatch and recording life.                            *)
(*                                                                         *)
(* host is meetings.bot_host_id; url says whether recording_url is set.    *)
(***************************************************************************)
EXTENDS Naturals, FiniteSets

CONSTANTS
    Hosts,   \* the recorders of BOT_HOSTS, by id
    NoHost   \* NULL in bot_host_id

ASSUME NoHostAssumption == NoHost \notin Hosts

NonTerminal == {"queued", "joining", "waiting_for_admission", "recording",
                "uploading", "transcribing"}
Active == {"joining", "waiting_for_admission", "recording"}
Status == NonTerminal \cup {"completed", "failed"}

\* A row that was never inserted, or was deleted.
Absent == [status |-> "absent", host |-> NoHost, url |-> FALSE]
Exists(r) == r.status # "absent"

RowType == [status: Status \cup {"absent"}, host: Hosts \cup {NoHost}, url: BOOLEAN]

\* POST /meetings with BOT_DISPATCH_USE_QUEUE on.
Inserted == [status |-> "queued", host |-> NoHost, url |-> FALSE]

\* require_host: NULL is the sole recorder when there is exactly one.
RequireHost(h) ==
    IF h # NoHost THEN {h}
    ELSE IF Cardinality(Hosts) = 1 THEN Hosts ELSE {}

\* A write by primary key with no WHERE on the status.
ForceFailed(r) == IF Exists(r) THEN [r EXCEPT !.status = "failed"] ELSE r

-----------------------------------------------------------------------------
\* The definitions named ...Bug are not the code: each is a mistake the code
\* could have made, which the property named beside it must notice when it
\* takes the place of the definition after it.

\* JoiningHasRecorder, RecorderOnRecord: the host is written in a later UPDATE.
ClaimQueuedBug(r, h) ==
    IF r.status = "queued" THEN [r EXCEPT !.status = "joining"] ELSE r

\* The dispatcher's claim, its undo, and the two ways a queued row is failed.
ClaimQueued(r, h) ==
    IF r.status = "queued" THEN [r EXCEPT !.status = "joining", !.host = h] ELSE r

ReturnQueued(r) ==
    IF r.status = "joining" THEN [r EXCEPT !.status = "queued", !.host = NoHost] ELSE r

FailQueued(r) ==
    IF r.status = "queued" THEN [r EXCEPT !.status = "failed"] ELSE r

\* The watchdog's sweep of one status past its TTL.
Swept(r) ==
    IF r.status \in NonTerminal THEN [r EXCEPT !.status = "failed"] ELSE r

\* POST /meetings/{id}/retry and the re-upload it may turn into.
RetryClaimed(r) ==
    IF r.status = "failed" THEN [r EXCEPT !.status = "transcribing"] ELSE r

ReuploadRefused(r) ==
    IF r.status = "transcribing" THEN [r EXCEPT !.status = "failed"] ELSE r

MovedToUploading(r) ==
    IF r.status = "transcribing" THEN [r EXCEPT !.status = "uploading"] ELSE r

ReuploadFailed(r) ==
    IF r.status = "uploading" THEN [r EXCEPT !.status = "failed"] ELSE r

-----------------------------------------------------------------------------
\* POST /webhooks/recording-complete.

\* ForwardOnly: the ping that arrives second wins.
AdmissionPingBug(r) ==
    IF Exists(r) /\ r.status \notin {"transcribing", "completed", "failed"}
    THEN [r EXCEPT !.status = "waiting_for_admission"] ELSE r

AdmissionPing(r) ==
    IF Exists(r) /\ r.status \notin {"recording", "transcribing", "completed", "failed"}
    THEN [r EXCEPT !.status = "waiting_for_admission"] ELSE r

\* ImplementsLease: a live session's ping revives a failed meeting.
RecordingPingBug(r) ==
    IF Exists(r) /\ r.status \notin {"transcribing", "completed"}
    THEN [r EXCEPT !.status = "recording"] ELSE r

RecordingPing(r) ==
    IF Exists(r) /\ r.status \notin {"transcribing", "completed", "failed"}
    THEN [r EXCEPT !.status = "recording"] ELSE r

\* HandedOverOnce: a report sent again claims the failure that came after it.
AcceptsCompletedBug(r) ==
    /\ Exists(r)
    /\ r.status \notin {"transcribing", "completed"}

\* A completed report is accepted once: not over a meeting already handed to
\* transcription, and not over a failure that came after such a hand-over.
AcceptsCompleted(r) ==
    /\ Exists(r)
    /\ r.status \notin {"transcribing", "completed"}
    /\ ~(r.status = "failed" /\ r.url)

CompletedReport(r) ==
    IF AcceptsCompleted(r) THEN [r EXCEPT !.status = "transcribing", !.url = TRUE] ELSE r

UndoCompleted(r) ==
    IF r.status = "transcribing" THEN [r EXCEPT !.status = "failed", !.url = FALSE] ELSE r

FailedReport(r) ==
    IF Exists(r) /\ r.status \notin {"transcribing", "completed"}
    THEN [r EXCEPT !.status = "failed"] ELSE r
=============================================================================
