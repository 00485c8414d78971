--------------------------- MODULE Transcription ---------------------------
(***************************************************************************)
(* One meeting from the end of its recording to its transcript: the        *)
(* recorder's upload and report, the recording-complete webhook and its    *)
(* hand-over to the queue, the transcribe_job runs, POST /retry and the    *)
(* re-upload it may need, the watchdog and the delete.  Meetings share     *)
(* nothing here but worker slots, so one of them is enough.                *)
(*                                                                         *)
(* The row is MeetingRow's: BotDispatch has the statements that bring a    *)
(* meeting to this point.                                                  *)
(***************************************************************************)
EXTENDS MeetingRow

CONSTANTS
    Hooks,        \* webhook requests being served at once
    Jobs,         \* slots for transcribe jobs
    MaxNotify,    \* webhook attempts of notifyBackend
    MaxTries,     \* transcription_max_tries
    MaxRetries,   \* bound: POST /retry calls that claim the row
    MaxLost,      \* bound: enqueues that landed and still raised
    MaxTimeouts,  \* bound: runs that outlive arq's job_timeout
    MaxCrashes    \* bound: crashes of the API process and of the worker

ASSUME TranscriptionAssumption ==
    /\ MaxNotify \in Nat \ {0}
    /\ MaxTries \in Nat \ {0}
    /\ MaxRetries \in Nat
    /\ MaxLost \in Nat
    /\ MaxTimeouts \in Nat
    /\ MaxCrashes \in Nat

VARIABLES
    row,          \* the meeting's row
    transcript,   \* its transcript column, and whether it is indexed
    noted,        \* error_message says the index is missing
    dropped,      \* history: an outcome was lost since the meeting was claimed
    chunks,       \* the jobs whose chunks are in meeting_chunks
    local,        \* the recording is on the recorder's disk
    storage,      \* the recording is in the bucket
    reporter,     \* the session and the re-upload on the recorder
    ping,         \* progress pings of the session still on their way
    hook,         \* webhook requests of final reports being served
    job,          \* transcribe jobs
    retry,        \* a POST /retry being served
    deleting,     \* a DELETE being served
    handed,       \* jobs the webhook put in Redis
    retries, lost, timeouts, crashes

recorder == <<local, storage, reporter, ping>>
result == <<transcript, noted, chunks, dropped>>
bounds == <<retries, lost, timeouts, crashes>>
vars == <<row, result, recorder, hook, job, retry, deleting, handed, bounds>>

Reporters == {"session", "reupload"}
Outcome == {"completed", "failed"}

Silent == [pc |-> "idle", outcome |-> "failed", tries |-> 0]
Reporter == [pc: {"recording", "idle", "uploading", "reporting", "waiting"},
             outcome: Outcome, tries: 0..MaxNotify]

FreeHook == [pc |-> "free", from |-> "session", outcome |-> "failed", heard |-> FALSE]
Hook == [pc: {"free", "received", "submitting", "undoing"}, from: Reporters,
         outcome: Outcome, heard: BOOLEAN]

\* try: arq's job_try, 0 once arq has let go of a run that goes on; stored: an
\* attempt of this job saved the transcript; resumed: this attempt found one;
\* empty: there is no conversation in it; seen: the chunks its DELETE found.
FreeJob == [pc |-> "free", try |-> 0, stored |-> FALSE, resumed |-> FALSE,
            empty |-> FALSE, seen |-> {}]
Job == [pc: {"free", "queued", "transcribing", "saving", "indexing", "committing"},
        try: 0..MaxTries, stored: BOOLEAN, resumed: BOOLEAN, empty: BOOLEAN,
        seen: SUBSET Jobs]

TypeOK ==
    /\ row \in RowType
    /\ transcript \in {"none", "saved", "nothing_to_index", "indexed"}
    /\ noted \in BOOLEAN /\ dropped \in BOOLEAN
    /\ chunks \subseteq Jobs
    /\ local \in BOOLEAN /\ storage \in BOOLEAN
    /\ reporter \in [Reporters -> Reporter]
    /\ ping \subseteq {"waiting_for_admission", "recording"}
    /\ hook \in [Hooks -> Hook]
    /\ job \in [Jobs -> Job]
    /\ retry \in {"idle", "listing", "submitting", "moving", "posting", "failing"}
    /\ deleting \in {"no", "storage", "row"}
    /\ handed \in Nat
    /\ retries \in 0..MaxRetries /\ lost \in 0..MaxLost
    /\ timeouts \in 0..MaxTimeouts /\ crashes \in 0..MaxCrashes

\* A session that is recording; its pings may or may not have arrived, and
\* the watchdog may have given up on the row.
Init ==
    /\ row \in [status: Active \cup {"failed"}, host: Hosts \cup {NoHost}, url: {FALSE}]
    /\ ping \in SUBSET {"waiting_for_admission", "recording"}
    /\ transcript = "none" /\ noted = FALSE /\ chunks = {} /\ dropped = FALSE
    /\ local = FALSE /\ storage = FALSE
    /\ reporter = [w \in Reporters |->
          IF w = "session" THEN [Silent EXCEPT !.pc = "recording"] ELSE Silent]
    /\ hook = [k \in Hooks |-> FreeHook]
    /\ job = [j \in Jobs |-> FreeJob]
    /\ retry = "idle" /\ deleting = "no"
    /\ handed = 0 /\ retries = 0 /\ lost = 0 /\ timeouts = 0 /\ crashes = 0

-----------------------------------------------------------------------------
(* The recorder: MeetingLifecycle.js, server.js *)

Reports(w, outcome) ==
    reporter' = [reporter EXCEPT ![w] =
        [pc |-> "reporting", outcome |-> outcome, tries |-> MaxNotify]]

\* The meeting ends with a file to upload, or the session fails, with or
\* without a file, which it keeps.
SessionStops ==
    /\ reporter["session"].pc = "recording"
    /\ \/ local' = TRUE /\ reporter' = [reporter EXCEPT !["session"].pc = "uploading"]
       \/ local' \in BOOLEAN /\ Reports("session", "failed")
    /\ UNCHANGED <<row, result, storage, ping, hook, job, retry, deleting, handed, bounds>>

\* The file goes only after a confirmed upload, if it can be removed.
UploadSucceeds(w) ==
    /\ reporter[w].pc = "uploading"
    /\ local
    /\ storage' = TRUE
    /\ local' \in BOOLEAN
    /\ Reports(w, "completed")
    /\ UNCHANGED <<row, result, ping, hook, job, retry, deleting, handed, bounds>>

\* KeepsLastCopy: the file goes whether or not the upload was confirmed.
UploadFailsBug(w) ==
    /\ reporter[w].pc = "uploading"
    /\ storage' \in {storage, local}
    /\ storage => storage'
    /\ local' = FALSE
    /\ Reports(w, "failed")
    /\ UNCHANGED <<row, result, ping, hook, job, retry, deleting, handed, bounds>>

\* Every attempt failed, or was believed to have: the last one may have landed.
UploadFails(w) ==
    /\ reporter[w].pc = "uploading"
    /\ storage' \in {storage, local}
    /\ storage => storage'
    /\ Reports(w, "failed")
    /\ UNCHANGED <<row, result, local, ping, hook, job, retry, deleting, handed, bounds>>

\* One attempt of notifyBackend, which waits for its answer.
PostReport(w, k) ==
    /\ reporter[w].pc = "reporting"
    /\ hook[k] = FreeHook
    /\ hook' = [hook EXCEPT ![k] = [pc |-> "received", from |-> w,
                                    outcome |-> reporter[w].outcome, heard |-> TRUE]]
    /\ reporter' = [reporter EXCEPT ![w].pc = "waiting"]
    /\ UNCHANGED <<row, result, local, storage, ping, job, retry, deleting, handed, bounds>>

\* After its last attempt the session (or the re-upload) is over.
Unheard(r) == IF r.tries = 1 THEN Silent ELSE [r EXCEPT !.pc = "reporting", !.tries = @ - 1]

\* The request does not arrive.
ReportLost(w) ==
    /\ reporter[w].pc = "reporting"
    /\ reporter' = [reporter EXCEPT ![w] = Unheard(@)]
    /\ UNCHANGED <<row, result, local, storage, ping, hook, job, retry, deleting, handed, bounds>>

\* The connection breaks while the request is being served: the handler runs
\* on, and the next attempt may overtake it.
ConnectionBreaks(k) ==
    /\ hook[k].heard
    /\ hook' = [hook EXCEPT ![k].heard = FALSE]
    /\ reporter' = [reporter EXCEPT ![hook[k].from] = Unheard(@)]
    /\ UNCHANGED <<row, result, local, storage, ping, job, retry, deleting, handed, bounds>>

-----------------------------------------------------------------------------
(* POST /webhooks/recording-complete *)

\* A statement that also sets error_message, if its WHERE matches the row.
Rewords(matches) == noted' = (noted /\ ~matches)

\* A fresh claim, which is answered for again.
Claims(matches) ==
    /\ Rewords(matches)
    /\ dropped' = (dropped /\ ~matches)

\* An outcome that nobody takes down.
Drops(outcome) == dropped' = (dropped \/ outcome)

\* The handler is done, and the recorder, if it still listens, hears how.
Answers(k, ok) ==
    /\ hook' = [hook EXCEPT ![k] = FreeHook]
    /\ reporter' = IF hook[k].heard
                   THEN [reporter EXCEPT ![hook[k].from] = IF ok THEN Silent ELSE Unheard(@)]
                   ELSE reporter

ReceivePing(p) ==
    /\ ping' = ping \ {p}
    /\ \/ UNCHANGED row
       \/ row' = IF p = "recording" THEN RecordingPing(row) ELSE AdmissionPing(row)
    /\ UNCHANGED <<result, local, storage, reporter, hook, job, retry, deleting, handed, bounds>>

\* A row that is gone answers 404.
HookMissesRow(k) ==
    /\ hook[k].pc = "received"
    /\ ~Exists(row)
    /\ Answers(k, FALSE)
    /\ UNCHANGED <<row, result, local, storage, ping, job, retry, deleting, handed, bounds>>

\* A failed report, or a completed one whose file has no signed URL.
HookFails(k) ==
    /\ hook[k].pc = "received"
    /\ Exists(row)
    /\ row' = FailedReport(row)
    /\ Rewords(row.status \notin {"transcribing", "completed"})
    /\ Answers(k, TRUE)
    /\ UNCHANGED <<transcript, chunks, dropped, local, storage, ping, job, retry, deleting, handed, bounds>>

\* The claim of a completed report, or "already_processed".
HookClaims(k) ==
    /\ hook[k].pc = "received" /\ hook[k].outcome = "completed"
    /\ storage
    /\ Exists(row)
    /\ row' = CompletedReport(row)
    /\ Claims(AcceptsCompleted(row))
    /\ IF AcceptsCompleted(row)
       THEN hook' = [hook EXCEPT ![k].pc = "submitting"] /\ UNCHANGED reporter
       ELSE Answers(k, TRUE)
    /\ UNCHANGED <<transcript, chunks, local, storage, ping, job, retry, deleting, handed, bounds>>

HandingOver(k) == hook[k].pc \in {"submitting", "undoing"}

NewJob == [FreeJob EXCEPT !.pc = "queued", !.try = 1]

\* submit_transcription: the job lands and is heard to, or the enqueue raises,
\* with nothing in Redis or with its answer lost.
HookSubmits(k) ==
    /\ hook[k].pc = "submitting"
    /\ \E j \in Jobs :
          /\ job[j] = FreeJob
          /\ job' = [job EXCEPT ![j] = NewJob]
          /\ handed' = handed + 1
          /\ \/ Answers(k, TRUE) /\ UNCHANGED lost
             \/ /\ lost < MaxLost /\ lost' = lost + 1
                /\ hook' = [hook EXCEPT ![k].pc = "undoing"] /\ UNCHANGED reporter
    /\ UNCHANGED <<row, result, local, storage, ping, retry, deleting, retries, timeouts, crashes>>

HookSubmitRaises(k) ==
    /\ hook[k].pc = "submitting"
    /\ hook' = [hook EXCEPT ![k].pc = "undoing"]
    /\ UNCHANGED <<row, result, recorder, job, retry, deleting, handed, bounds>>

\* ClaimHasWork: the claim is left in place.
HookUndoesBug(k) ==
    /\ hook[k].pc = "undoing"
    /\ Answers(k, FALSE)
    /\ UNCHANGED <<row, result, local, storage, ping, job, retry, deleting, handed, bounds>>

HookUndoes(k) ==
    /\ hook[k].pc = "undoing"
    /\ row' = UndoCompleted(row)
    /\ Rewords(row.status = "transcribing")
    /\ Answers(k, FALSE)
    /\ UNCHANGED <<transcript, chunks, dropped, local, storage, ping, job, retry, deleting, handed, bounds>>

\* The API process dies.
HookDies(k) ==
    /\ hook[k].pc # "free"
    /\ crashes < MaxCrashes /\ crashes' = crashes + 1
    /\ Drops(HandingOver(k))
    /\ Answers(k, FALSE)
    /\ UNCHANGED <<row, transcript, noted, chunks, local, storage, ping, job, retry, deleting,
                   handed, retries, lost, timeouts>>

-----------------------------------------------------------------------------
(* transcribe_job and transcribe_recording *)

Running(j) == job[j].pc \notin {"free", "queued"}

\* _mark_failed writes by primary key.
MarkFailed == row' = ForceFailed(row) /\ Rewords(Exists(row))

\* ResumeNotRestart: the run does not look for a transcript.
JobStartsBug(j) ==
    /\ job[j].pc = "queued"
    /\ \/ /\ storage
          /\ job' = [job EXCEPT ![j].pc = "transcribing", ![j].resumed = FALSE]
          /\ UNCHANGED <<row, noted>>
       \/ /\ ~storage
          /\ job' = [job EXCEPT ![j] = FreeJob]
          /\ MarkFailed
    /\ UNCHANGED <<transcript, chunks, dropped, recorder, hook, retry, deleting, handed, bounds>>

\* Resume, don't restart: what the run finds decides where it begins.  Without
\* a transcript it downloads the file, or fails the meeting.
JobStarts(j) ==
    /\ job[j].pc = "queued"
    /\ \/ /\ transcript = "indexed" /\ row.status = "completed"
          /\ job' = [job EXCEPT ![j] = FreeJob]
          /\ UNCHANGED <<row, noted>>
       \/ /\ transcript # "none"
          /\ ~(transcript = "indexed" /\ row.status = "completed")
          /\ job' = [job EXCEPT ![j].pc = "indexing", ![j].resumed = TRUE,
                               ![j].empty = (transcript = "nothing_to_index")]
          /\ UNCHANGED <<row, noted>>
       \/ /\ transcript = "none" /\ storage
          /\ job' = [job EXCEPT ![j].pc = "transcribing", ![j].resumed = FALSE]
          /\ UNCHANGED <<row, noted>>
       \/ /\ transcript = "none" /\ ~storage
          /\ job' = [job EXCEPT ![j] = FreeJob]
          /\ MarkFailed
    /\ UNCHANGED <<transcript, chunks, dropped, recorder, hook, retry, deleting, handed, bounds>>

\* The call that is paid for: Gemini, or Sarvam in its place.
JobPays(j) ==
    /\ job[j].pc = "transcribing"
    /\ job' = [job EXCEPT ![j].pc = "saving"]
    /\ UNCHANGED <<row, result, recorder, hook, retry, deleting, handed, bounds>>

Completed(r) == IF Exists(r) THEN [r EXCEPT !.status = "completed"] ELSE r

\* The transcript replaces an earlier one; embedding_provider is not touched.
Stored(empty) ==
    IF ~Exists(row) \/ transcript = "indexed" THEN transcript
    ELSE IF empty THEN "nothing_to_index" ELSE "saved"

\* Only Sarvam's path sets error_message, to say that it was Sarvam.
JobSaves(j) ==
    /\ job[j].pc = "saving"
    /\ row' = Completed(row)
    /\ \E sarvam \in BOOLEAN : Rewords(sarvam /\ Exists(row))
    /\ \E empty \in BOOLEAN :
          /\ transcript' = Stored(empty)
          /\ job' = [job EXCEPT ![j].pc = "indexing", ![j].stored = Exists(row),
                               ![j].empty = empty]
    /\ UNCHANGED <<chunks, dropped, recorder, hook, retry, deleting, handed, bounds>>

\* A silent recording is completed with no call and nothing to index.
JobFindsSilence(j) ==
    /\ job[j].pc = "transcribing"
    /\ row' = Completed(row)
    /\ transcript' = Stored(TRUE)
    /\ job' = [job EXCEPT ![j] = FreeJob]
    /\ UNCHANGED <<noted, chunks, dropped, recorder, hook, retry, deleting, handed, bounds>>

\* Every failure transcribe_recording handles itself.
JobFails(j) ==
    /\ job[j].pc \in {"transcribing", "saving"}
    /\ MarkFailed
    /\ job' = [job EXCEPT ![j] = FreeJob]
    /\ UNCHANGED <<transcript, chunks, dropped, recorder, hook, retry, deleting, handed, bounds>>

\* A resumed run completes the row when it is done.
Done(j) ==
    /\ job' = [job EXCEPT ![j] = FreeJob]
    /\ row' = IF job[j].resumed THEN Completed(row) ELSE row

\* index_transcript returns at once when the conversation is empty.  A resumed run
\* judges by the transcript it read, whichever the row has by now.
JobHasNothingToIndex(j) ==
    /\ job[j].pc = "indexing" /\ job[j].empty
    /\ Done(j)
    /\ Drops(job[j].resumed /\ transcript = "saved")
    /\ UNCHANGED <<transcript, noted, chunks, recorder, hook, retry, deleting, handed, bounds>>

\* The chunks are embedded, and the DELETE of the transaction finds the old ones.
JobClearsChunks(j) ==
    /\ job[j].pc = "indexing" /\ ~job[j].empty
    /\ job' = [job EXCEPT ![j].pc = "committing", ![j].seen = chunks]
    /\ UNCHANGED <<row, result, recorder, hook, retry, deleting, handed, bounds>>

JobCommitsIndex(j) ==
    /\ job[j].pc = "committing"
    /\ Exists(row)
    /\ chunks' = (chunks \ job[j].seen) \cup {j}
    /\ transcript' = "indexed"
    /\ Done(j)
    /\ UNCHANGED <<noted, dropped, recorder, hook, retry, deleting, handed, bounds>>

Retries(j) == job[j].try \in 1..(MaxTries - 1)

NextTry(j) ==
    [job EXCEPT ![j] = [NewJob EXCEPT !.try = job[j].try + 1, !.stored = job[j].stored]]

\* CompletedIndexedOrNoted: the exception is not turned into arq's Retry, so the
\* job runs once and writes nothing terminal.
JobRaisesBug(j) ==
    /\ Running(j)
    /\ job' = [job EXCEPT ![j] = FreeJob]
    /\ UNCHANGED <<row, result, recorder, hook, retry, deleting, handed, bounds>>

\* IndexingFailed, and whatever else escapes: arq's Retry, and after the last
\* try record_terminal_failure.  Nobody hears a run that arq let go of.
JobRaises(j) ==
    /\ Running(j)
    /\ IF Retries(j)
       THEN job' = NextTry(j) /\ UNCHANGED <<row, noted, dropped>>
       ELSE /\ job' = [job EXCEPT ![j] = FreeJob]
            /\ Drops(job[j].try = 0)
            /\ IF job[j].try = 0 THEN UNCHANGED <<row, noted>>
               ELSE IF transcript # "none"
               THEN noted' = TRUE /\ UNCHANGED row
               ELSE MarkFailed
    /\ UNCHANGED <<transcript, chunks, recorder, hook, retry, deleting, handed, bounds>>

\* The worker dies: arq runs the job again, but not past max_tries.
JobDies(j) ==
    /\ Running(j)
    /\ crashes < MaxCrashes /\ crashes' = crashes + 1
    /\ job' = IF Retries(j) THEN NextTry(j) ELSE [job EXCEPT ![j] = FreeJob]
    /\ Drops(~Retries(j))
    /\ UNCHANGED <<row, transcript, noted, chunks, recorder, hook, retry, deleting, handed,
                   retries, lost, timeouts>>

\* job_timeout: arq gives the job up for good, and the thread it runs on goes on.
JobTimesOut(j) ==
    /\ Running(j) /\ job[j].try > 0
    /\ timeouts < MaxTimeouts /\ timeouts' = timeouts + 1
    /\ job' = [job EXCEPT ![j].try = 0]
    /\ UNCHANGED <<row, result, recorder, hook, retry, deleting, handed, retries, lost, crashes>>

-----------------------------------------------------------------------------
(* POST /meetings/{id}/retry and _reupload_from_bot *)

RetryClaims ==
    /\ retry = "idle"
    /\ row.status = "failed"
    /\ retries < MaxRetries /\ retries' = retries + 1
    /\ row' = RetryClaimed(row)
    /\ Claims(TRUE)
    /\ retry' = "listing"
    /\ UNCHANGED <<transcript, chunks, recorder, hook, job, deleting, handed, lost, timeouts, crashes>>

RetryLists ==
    /\ retry = "listing"
    /\ \/ row' = ForceFailed(row) /\ Rewords(Exists(row)) /\ retry' = "idle"
       \/ UNCHANGED <<row, noted>> /\ retry' = IF storage THEN "submitting" ELSE "moving"
    /\ UNCHANGED <<transcript, chunks, dropped, recorder, hook, job, deleting, handed, bounds>>

\* submit_transcription is not in a try here: an enqueue that raises leaves the
\* row as it is.
RetrySubmits ==
    /\ retry = "submitting"
    /\ \/ UNCHANGED job
       \/ \E j \in Jobs : job[j] = FreeJob /\ job' = [job EXCEPT ![j] = NewJob]
    /\ retry' = "idle"
    /\ UNCHANGED <<row, result, recorder, hook, deleting, handed, bounds>>

\* To "uploading" before the recorder is asked, if it is known who to ask.
RetryMoves ==
    /\ retry = "moving"
    /\ IF RequireHost(row.host) = {}
       THEN /\ row' = ReuploadRefused(row) /\ retry' = "idle"
            /\ Rewords(row.status = "transcribing")
       ELSE /\ row' = MovedToUploading(row) /\ UNCHANGED noted
            /\ retry' = IF row.status = "transcribing" THEN "posting" ELSE "idle"
    /\ UNCHANGED <<transcript, chunks, dropped, recorder, hook, job, deleting, handed, bounds>>

\* POST /reupload: 409 under a live session or another re-upload, 404 without
\* the file, and otherwise 202, which may get lost.
MayReupload == /\ reporter["session"].pc = "idle"
               /\ reporter["reupload"].pc = "idle"
               /\ local

RetryPosts ==
    /\ retry = "posting"
    /\ \/ /\ MayReupload
          /\ reporter' = [reporter EXCEPT !["reupload"].pc = "uploading"]
          /\ retry' \in {"idle", "failing"}
       \/ /\ UNCHANGED reporter
          /\ retry' = "failing"
    /\ UNCHANGED <<row, result, local, storage, ping, hook, job, deleting, handed, bounds>>

RetryFails ==
    /\ retry = "failing"
    /\ row' = ReuploadFailed(row)
    /\ Rewords(row.status = "uploading")
    /\ retry' = "idle"
    /\ UNCHANGED <<transcript, chunks, dropped, recorder, hook, job, deleting, handed, bounds>>

-----------------------------------------------------------------------------
(* The watchdog and the delete *)

\* A TTL may run out under work that goes on, a job that waited for a worker slot
\* or an upload that is slow, but not under a request: each touches the row when
\* it starts, and is over in seconds.
Overdue == retry = "idle" /\ \A k \in Hooks : ~HandingOver(k)

\* Settles (SweepBug): the statuses of the pipeline are not swept.
SweepBug ==
    /\ row.status \in NonTerminal \ {"uploading", "transcribing"}
    /\ Overdue
    /\ row' = Swept(row)
    /\ Rewords(TRUE)
    /\ UNCHANGED <<transcript, chunks, dropped, recorder, hook, job, retry, deleting, handed, bounds>>

Sweep ==
    /\ row.status \in NonTerminal
    /\ Overdue
    /\ row' = Swept(row)
    /\ Rewords(TRUE)
    /\ UNCHANGED <<transcript, chunks, dropped, recorder, hook, job, retry, deleting, handed, bounds>>

DeleteStarts ==
    /\ deleting = "no" /\ Exists(row)
    /\ deleting' = "storage"
    /\ UNCHANGED <<row, result, recorder, hook, job, retry, handed, bounds>>

\* Best effort: the row goes even if the file could not be removed.
DeleteFromStorage ==
    /\ deleting = "storage"
    /\ storage' \in {FALSE, storage}
    /\ deleting' = "row"
    /\ UNCHANGED <<row, result, local, reporter, ping, hook, job, retry, handed, bounds>>

DeleteRow ==
    /\ deleting = "row"
    /\ row' = Absent
    /\ transcript' = "none" /\ noted' = FALSE /\ chunks' = {} /\ dropped' = FALSE
    /\ deleting' = "no"
    /\ UNCHANGED <<recorder, hook, job, retry, handed, bounds>>

-----------------------------------------------------------------------------
ReporterStep(w) ==
    \/ UploadSucceeds(w) \/ UploadFails(w)
    \/ \E k \in Hooks : PostReport(w, k)
    \/ ReportLost(w)

HookStep(k) ==
    \/ HookMissesRow(k) \/ HookFails(k) \/ HookClaims(k)
    \/ HookSubmits(k) \/ HookSubmitRaises(k) \/ HookUndoes(k)

JobStep(j) ==
    \/ JobStarts(j) \/ JobPays(j) \/ JobSaves(j) \/ JobFindsSilence(j) \/ JobFails(j)
    \/ JobHasNothingToIndex(j) \/ JobClearsChunks(j) \/ JobCommitsIndex(j) \/ JobRaises(j)

RetryStep == RetryLists \/ RetrySubmits \/ RetryMoves \/ RetryPosts \/ RetryFails

DeleteStep == DeleteStarts \/ DeleteFromStorage \/ DeleteRow

Next ==
    \/ SessionStops
    \/ \E w \in Reporters : ReporterStep(w)
    \/ \E k \in Hooks : HookStep(k) \/ ConnectionBreaks(k) \/ HookDies(k)
    \/ \E p \in ping : ReceivePing(p)
    \/ \E j \in Jobs : JobStep(j) \/ JobDies(j) \/ JobTimesOut(j)
    \/ RetryClaims \/ RetryStep
    \/ Sweep
    \/ DeleteStep

Spec == Init /\ [][Next]_vars

\* The worker runs what Redis holds, requests are served to their end, and the
\* watchdog is called every five minutes.  The owner owes nothing.
Fairness ==
    /\ WF_vars(SessionStops)
    /\ \A w \in Reporters : WF_vars(ReporterStep(w))
    /\ \A k \in Hooks : WF_vars(HookStep(k))
    /\ \A j \in Jobs : WF_vars(JobStep(j))
    /\ WF_vars(RetryStep)
    /\ WF_vars(Sweep)

FairSpec == Spec /\ Fairness

-----------------------------------------------------------------------------
(* Properties *)

\* Through failed uploads, re-uploads and retries the last copy of a recording
\* is destroyed by nothing but a delete (MeetingLifecycle.js:136-139).
KeepsLastCopy ==
    [][(local \/ storage) => (local' \/ storage' \/ deleting = "storage")]_vars

\* An accepted report is never stranded: until its owner retries it, a meeting in
\* "transcribing" has a job for it or a request still handing it over, whatever was
\* swept, sent again, undone, timed out or run again meanwhile
\* (webhooks.py:136-143, 152-153).  Excepted is what only the watchdog mends: a
\* request that died handing over, a job whose process died in its last try, and a
\* run that raised after arq had timed it out.
ClaimHasWork ==
    row.status = "transcribing" /\ retries = 0 /\ ~dropped
        => \/ \E j \in Jobs : job[j].pc # "free"
           \/ \E k \in Hooks : HandingOver(k)

\* A recording is handed to transcription by its webhook once, however often
\* the report is sent, overtaken or undone, and whatever the watchdog and a retry
\* do to the row meanwhile, until the meeting is deleted (webhooks.py:108-118,
\* 143-145).  Holds while no enqueue lands and raises.
HandedOverOnce == Exists(row) /\ deleting = "no" => handed <= 1

\* A job that stored its transcript does not pay for it again in a later attempt,
\* unless the meeting was deleted meanwhile (transcription_service.py:491-501).
ResumeNotRestart ==
    \A j \in Jobs : job[j].stored /\ job[j].pc \in {"transcribing", "saving"} => ~Exists(row)

\* When every job is over, a completed meeting with a conversation is either
\* searchable or says that it is not, in the words of its own last claim: a note of
\* an earlier run is gone with the claim, the failure or the sweep that came after it
\* (worker.py:88-94, transcription_service.py:542-552).  Runs that die and are run
\* again, and timed-out runs that index after all, keep the promise.  Excepted are,
\* since that claim, a job whose process died in its last try; a run that raised after
\* arq had timed it out, which nobody hears; and a run that resumed from a transcript
\* with no conversation and completes the meeting over another run's transcript.
CompletedIndexedOrNoted ==
    row.status = "completed" /\ transcript = "saved" /\ ~dropped
        /\ (\A j \in Jobs : job[j].pc = "free")
        => noted

\* What embedding_service.py:269-270 says of index_transcript: safe to call again
\* for the same meeting, so that a meeting has the chunks of one run.
OneIndex == Cardinality(chunks) <= 1

\* Whatever was lost, timed out or died, the meeting stops waiting for good
\* (watchdog.py:29-37).
Settles == <>[](row.status \notin NonTerminal)
=============================================================================
