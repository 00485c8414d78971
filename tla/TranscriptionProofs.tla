------------------------ MODULE TranscriptionProofs ------------------------
(***************************************************************************)
(* The transcription pipeline for any number of handlers, job slots, tries *)
(* and retries: types, the last copy, resuming, indexing, and the hand-over*)
(* to the queue.                                                           *)
(*                                                                         *)
(* HandedOverOnce and ClaimHasWork are not inductive.  Once a request has  *)
(* claimed the row, the row is "marked": its url is set and its status is  *)
(* one a report is refused over.  Only two steps unmark it.  The undo ends *)
(* a hand-over that came to nothing, because requests hand over one at a   *)
(* time; and the re-upload of a retry comes before any hand-over, because  *)
(* what was handed over has its file in the bucket.                        *)
(***************************************************************************)
EXTENDS Transcription, TLAPS

\* A report has an attempt left, and the one that is being served is waited for.
Awaited ==
    /\ \A w \in Reporters : reporter[w].pc \in {"reporting", "waiting"} => reporter[w].tries # 0
    /\ \A k \in Hooks : hook[k].heard =>
         hook[k].pc # "free" /\ reporter[hook[k].from].pc = "waiting"
    /\ \A k, l \in Hooks : hook[k].heard /\ hook[l].heard /\ hook[k].from = hook[l].from => k = l

Typed == TypeOK /\ Awaited

-----------------------------------------------------------------------------
(* The statements that write the row, and the recorder's conversation with *)
(* the webhook.                                                            *)

\* No statement brings a deleted row back, or writes a value of another type.
RowStands(r, s) == s \in RowType /\ (Exists(s) <=> Exists(r))

LEMMA RowsTyped ==
    ASSUME NEW r \in RowType
    PROVE  /\ RowStands(r, r)
           /\ RowStands(r, ForceFailed(r)) /\ RowStands(r, Swept(r)) /\ RowStands(r, RetryClaimed(r))
           /\ RowStands(r, ReuploadRefused(r)) /\ RowStands(r, MovedToUploading(r))
           /\ RowStands(r, ReuploadFailed(r)) /\ RowStands(r, AdmissionPing(r))
           /\ RowStands(r, RecordingPing(r)) /\ RowStands(r, CompletedReport(r))
           /\ RowStands(r, UndoCompleted(r)) /\ RowStands(r, FailedReport(r))
           /\ RowStands(r, Completed(r))
BY DEF RowType, RowStands, ForceFailed, Swept, RetryClaimed, ReuploadRefused, MovedToUploading,
       ReuploadFailed, AdmissionPing, RecordingPing, CompletedReport, AcceptsCompleted, UndoCompleted,
       FailedReport, Completed, Exists, Status, NonTerminal

LEMMA AbsentTyped == Absent \in RowType /\ ~Exists(Absent)
BY DEF Absent, RowType, Exists

LEMMA Unanswered ==
    ASSUME NEW r \in Reporter, r.tries # 0
    PROVE  /\ Unheard(r) \in Reporter /\ Silent \in Reporter /\ Silent.pc = "idle"
           /\ \/ Unheard(r).pc = "idle"
              \/ Unheard(r).pc = "reporting" /\ Unheard(r).tries # 0
<1>1. r.tries \in 1..MaxNotify /\ MaxNotify \in Nat /\ Silent \in Reporter /\ Silent.pc = "idle"
  BY TranscriptionAssumption DEF Reporter, Silent, Outcome
<1>2. CASE r.tries = 1
  BY <1>1, <1>2 DEF Unheard
<1>3. CASE r.tries # 1
  <2>. DEFINE n == r.tries - 1
              s == [r EXCEPT !.pc = "reporting", !.tries = n]
  <2>1. Unheard(r) = s
    BY <1>3 DEF Unheard
  <2>2. n \in 0..MaxNotify /\ n # 0
    BY <1>1, <1>3
  <2>. HIDE DEF n
  <2>3. s \in Reporter /\ s.pc = "reporting" /\ s.tries = n
    BY <2>2 DEF Reporter
  <2>. QED BY <1>1, <2>1, <2>2, <2>3
<1>. QED BY <1>2, <1>3

\* The recorder goes on, while no request of its own is being served.
LEMMA ReporterGoes ==
    ASSUME Typed, NEW w \in Reporters, NEW v \in Reporter, UNCHANGED hook,
           reporter' = [reporter EXCEPT ![w] = v], reporter[w].pc # "waiting",
           v.pc # "waiting", v.pc = "reporting" => v.tries # 0
    PROVE  reporter' \in [Reporters -> Reporter] /\ Awaited'
<1>1. reporter' \in [Reporters -> Reporter] /\ \A x \in Reporters : reporter'[x] = IF x = w THEN v ELSE reporter[x]
  BY DEF Typed, TypeOK
<1>2. \A k \in Hooks : hook[k].from \in Reporters
  BY DEF Typed, TypeOK, Hook
<1>. QED BY <1>1, <1>2 DEF Typed, Awaited

\* The handler goes on.
LEMMA HandlerGoes ==
    ASSUME Typed, NEW k \in Hooks, NEW pc \in {"received", "submitting", "undoing"},
           hook' = [hook EXCEPT ![k].pc = pc], hook[k].pc # "free", UNCHANGED reporter
    PROVE  hook' \in [Hooks -> Hook] /\ Awaited'
<1>. DEFINE h == [hook[k] EXCEPT !.pc = pc]
<1>1. h \in Hook /\ h.pc = pc /\ h.heard = hook[k].heard /\ h.from = hook[k].from
  BY DEF Typed, TypeOK, Hook
<1>2. hook' = [hook EXCEPT ![k] = h]
  OBVIOUS
<1>. HIDE DEF h
<1>3. hook' \in [Hooks -> Hook] /\ \A l \in Hooks : hook'[l] = IF l = k THEN h ELSE hook[l]
  BY <1>1, <1>2 DEF Typed, TypeOK
<1>. QED BY <1>1, <1>3 DEF Typed, Awaited

\* The reporter that a handler answers, or that gives up on it, was waiting for it.
LEMMA LetsGoOf ==
    ASSUME Typed, NEW k \in Hooks, NEW h \in Hook, hook' = [hook EXCEPT ![k] = h], ~h.heard,
           NEW v \in {Silent, Unheard(reporter[hook[k].from])},
           reporter' = IF hook[k].heard THEN [reporter EXCEPT ![hook[k].from] = v] ELSE reporter
    PROVE  /\ hook' \in [Hooks -> Hook] /\ reporter' \in [Reporters -> Reporter] /\ Awaited'
           /\ \A w \in Reporters : \/ reporter'[w] = reporter[w]
                                   \/ reporter[w].pc = "waiting" /\ reporter'[w].pc \in {"idle", "reporting"}
<1>. DEFINE w == hook[k].from
<1>1. w \in Reporters
  BY DEF Typed, TypeOK, Hook
<1>2. hook' \in [Hooks -> Hook] /\ \A l \in Hooks : hook'[l] = IF l = k THEN h ELSE hook[l]
  BY DEF Typed, TypeOK
<1>3. CASE ~hook[k].heard
  BY <1>2, <1>3 DEF Typed, TypeOK, Awaited
<1>4. CASE hook[k].heard
  <2>1. reporter[w].pc = "waiting" /\ reporter[w].tries # 0 /\ reporter[w] \in Reporter
    BY <1>1, <1>4 DEF Typed, TypeOK, Awaited
  <2>2. v \in Reporter /\ (v.pc = "idle" \/ (v.pc = "reporting" /\ v.tries # 0))
    BY <2>1, Unanswered
  <2>. HIDE DEF w
  <2>3. reporter' \in [Reporters -> Reporter] /\ \A x \in Reporters : reporter'[x] = IF x = w THEN v ELSE reporter[x]
    BY <1>1, <1>4, <2>2 DEF Typed, TypeOK, w
  <2>4. \A l \in Hooks : hook'[l].heard => hook[l].heard /\ hook[l].from # w /\ hook'[l] = hook[l]
    BY <1>2, <1>4 DEF Typed, Awaited, w
  <2>5. \A l \in Hooks : hook[l].from \in Reporters
    BY DEF Typed, TypeOK, Hook
  <2>. QED BY <1>2, <2>1, <2>2, <2>3, <2>4, <2>5 DEF Typed, Awaited
<1>. QED BY <1>3, <1>4

LEMMA HandlerAnswers ==
    ASSUME Typed, NEW k \in Hooks, NEW ok \in BOOLEAN, Answers(k, ok)
    PROVE  /\ hook' \in [Hooks -> Hook] /\ reporter' \in [Reporters -> Reporter] /\ Awaited'
           /\ \A w \in Reporters : \/ reporter'[w] = reporter[w]
                                   \/ reporter[w].pc = "waiting" /\ reporter'[w].pc \in {"idle", "reporting"}
           /\ hook' = [hook EXCEPT ![k] = FreeHook]
<1>. DEFINE v == IF ok THEN Silent ELSE Unheard(reporter[hook[k].from])
<1>1. FreeHook \in Hook /\ ~FreeHook.heard
  BY DEF FreeHook, Hook, Reporters, Outcome
<1>2. /\ hook' = [hook EXCEPT ![k] = FreeHook]
      /\ reporter' = IF hook[k].heard THEN [reporter EXCEPT ![hook[k].from] = v] ELSE reporter
  BY DEF Answers
<1>3. v \in {Silent, Unheard(reporter[hook[k].from])}
  OBVIOUS
<1>. HIDE DEF v
<1>. QED BY <1>1, <1>2, <1>3, LetsGoOf

-----------------------------------------------------------------------------
(* Types.                                                                  *)

LEMMA RecorderTyped ==
    ASSUME Typed,
           \/ SessionStops
           \/ \E w \in Reporters : ReporterStep(w)
           \/ \E k \in Hooks : ConnectionBreaks(k)
    PROVE  Typed'
<1>1. \A w \in Reporters : reporter[w] \in Reporter
  BY DEF Typed, TypeOK
<1>2. CASE SessionStops
  <2>1. "session" \in Reporters
    BY DEF Reporters
  <2>2. PICK v \in Reporter : /\ reporter' = [reporter EXCEPT !["session"] = v]
                              /\ v.pc # "waiting" /\ (v.pc = "reporting" => v.tries # 0)
    <3>. DEFINE u == [reporter["session"] EXCEPT !.pc = "uploading"]
                x == [pc |-> "reporting", outcome |-> "failed", tries |-> MaxNotify]
    <3>1. u \in Reporter /\ u.pc = "uploading" /\ x \in Reporter /\ x.tries # 0
      BY <1>1, <2>1, TranscriptionAssumption DEF Reporter, Outcome
    <3>2. reporter' = [reporter EXCEPT !["session"] = u] \/ reporter' = [reporter EXCEPT !["session"] = x]
      BY <1>2 DEF SessionStops, Reports
    <3>. HIDE DEF u
    <3>. QED BY <3>1, <3>2
  <2>3. /\ reporter["session"].pc = "recording" /\ local' \in BOOLEAN
        /\ UNCHANGED <<row, result, storage, ping, hook, job, retry, deleting, handed, bounds>>
    BY <1>2 DEF SessionStops
  <2>4. reporter' \in [Reporters -> Reporter] /\ Awaited'
    BY <2>1, <2>2, <2>3, ReporterGoes
  <2>. QED BY <2>3, <2>4 DEF Typed, TypeOK, result, bounds
<1>3. ASSUME NEW w \in Reporters, UploadSucceeds(w) \/ UploadFails(w)
      PROVE  Typed'
  <2>1. PICK o \in Outcome : reporter' = [reporter EXCEPT ![w] =
             [pc |-> "reporting", outcome |-> o, tries |-> MaxNotify]]
    BY <1>3 DEF UploadSucceeds, UploadFails, Reports, Outcome
  <2>2. /\ reporter[w].pc = "uploading" /\ local' \in BOOLEAN /\ storage' \in BOOLEAN
        /\ UNCHANGED <<row, result, ping, hook, job, retry, deleting, handed, bounds>>
    BY <1>3 DEF UploadSucceeds, UploadFails, Typed, TypeOK
  <2>3. reporter' \in [Reporters -> Reporter] /\ Awaited'
    <3>1. [pc |-> "reporting", outcome |-> o, tries |-> MaxNotify] \in Reporter /\ MaxNotify # 0
      BY TranscriptionAssumption DEF Reporter
    <3>. QED BY <2>1, <2>2, <3>1, ReporterGoes
  <2>. QED BY <2>2, <2>3 DEF Typed, TypeOK, result, bounds
<1>4. ASSUME NEW w \in Reporters, NEW k \in Hooks, PostReport(w, k)
      PROVE  Typed'
  <2>. DEFINE v == [reporter[w] EXCEPT !.pc = "waiting"]
              h == [pc |-> "received", from |-> w, outcome |-> reporter[w].outcome, heard |-> TRUE]
  <2>1. /\ v \in Reporter /\ v.pc = "waiting" /\ v.tries = reporter[w].tries
        /\ h \in Hook /\ h.from = w /\ h.heard /\ h.pc = "received"
    BY <1>1 DEF Reporter, Hook
  <2>2. /\ reporter[w].pc = "reporting" /\ hook[k] = FreeHook
        /\ hook' = [hook EXCEPT ![k] = h] /\ reporter' = [reporter EXCEPT ![w] = v]
        /\ UNCHANGED <<row, result, local, storage, ping, job, retry, deleting, handed, bounds>>
    BY <1>4 DEF PostReport
  <2>. HIDE DEF v, h
  <2>3. /\ reporter' \in [Reporters -> Reporter] /\ hook' \in [Hooks -> Hook]
        /\ \A x \in Reporters : reporter'[x] = IF x = w THEN v ELSE reporter[x]
        /\ \A l \in Hooks : hook'[l] = IF l = k THEN h ELSE hook[l]
        /\ \A l \in Hooks : hook[l].from \in Reporters
    BY <2>1, <2>2 DEF Typed, TypeOK, Hook
  <2>4. Awaited'
    BY <2>1, <2>2, <2>3 DEF Typed, Awaited
  <2>. QED BY <2>2, <2>3, <2>4 DEF Typed, TypeOK, result, bounds
<1>5. ASSUME NEW w \in Reporters, ReportLost(w)
      PROVE  Typed'
  <2>1. /\ reporter[w].pc = "reporting" /\ reporter' = [reporter EXCEPT ![w] = Unheard(reporter[w])]
        /\ UNCHANGED <<row, result, local, storage, ping, hook, job, retry, deleting, handed, bounds>>
    BY <1>5 DEF ReportLost
  <2>2. reporter[w].tries # 0
    BY <2>1 DEF Typed, Awaited
  <2>3. reporter' \in [Reporters -> Reporter] /\ Awaited'
    BY <1>1, <2>1, <2>2, Unanswered, ReporterGoes
  <2>. QED BY <2>1, <2>3 DEF Typed, TypeOK, result, bounds
<1>6. ASSUME NEW k \in Hooks, ConnectionBreaks(k)
      PROVE  Typed'
  <2>. DEFINE h == [hook[k] EXCEPT !.heard = FALSE]
              v == Unheard(reporter[hook[k].from])
  <2>1. h \in Hook /\ ~h.heard
    BY DEF Typed, TypeOK, Hook
  <2>2. /\ hook[k].heard /\ hook' = [hook EXCEPT ![k] = h]
        /\ reporter' = [reporter EXCEPT ![hook[k].from] = v]
        /\ UNCHANGED <<row, result, local, storage, ping, job, retry, deleting, handed, bounds>>
    BY <1>6 DEF ConnectionBreaks
  <2>3. v \in {Silent, Unheard(reporter[hook[k].from])}
    OBVIOUS
  <2>. HIDE DEF h, v
  <2>4. reporter' \in [Reporters -> Reporter] /\ hook' \in [Hooks -> Hook] /\ Awaited'
    BY <2>1, <2>2, <2>3, LetsGoOf
  <2>. QED BY <2>2, <2>4 DEF Typed, TypeOK, result, bounds
<1>. QED BY <1>2, <1>3, <1>4, <1>5, <1>6 DEF ReporterStep

LEMMA BoundsTyped ==
    ASSUME Typed
    PROVE  /\ lost < MaxLost => lost + 1 \in 0..MaxLost
           /\ timeouts < MaxTimeouts => timeouts + 1 \in 0..MaxTimeouts
           /\ crashes < MaxCrashes => crashes + 1 \in 0..MaxCrashes
           /\ retries < MaxRetries => retries + 1 \in 0..MaxRetries
           /\ handed + 1 \in Nat
BY TranscriptionAssumption DEF Typed, TypeOK

\* The note and the outcome that a statement writes.
LEMMA Written ==
    ASSUME Typed, NEW m \in BOOLEAN
    PROVE  /\ Rewords(m) => noted' \in BOOLEAN /\ (noted /\ ~m => noted')
           /\ Claims(m) => /\ noted' \in BOOLEAN /\ (noted /\ ~m => noted')
                          /\ dropped' \in BOOLEAN /\ (dropped /\ ~m => dropped')
           /\ Drops(m) => dropped' \in BOOLEAN /\ (dropped \/ m => dropped')
           /\ UNCHANGED noted => noted' \in BOOLEAN /\ (noted => noted')
           /\ UNCHANGED dropped => dropped' \in BOOLEAN /\ (dropped => dropped')
<1>1. noted \in BOOLEAN /\ dropped \in BOOLEAN
  BY DEF Typed, TypeOK
<1>. QED BY <1>1, Zenon DEF Rewords, Claims, Drops

LEMMA NewJobTyped ==
    /\ FreeJob \in Job /\ NewJob \in Job /\ FreeJob.pc = "free" /\ NewJob.pc = "queued"
    /\ NewJob.try = 1 /\ ~NewJob.stored /\ ~FreeJob.stored
<1>1. FreeJob \in Job /\ FreeJob.pc = "free" /\ ~FreeJob.stored
  BY TranscriptionAssumption DEF FreeJob, Job
<1>2. 1 \in 0..MaxTries
  BY TranscriptionAssumption
<1>. QED BY <1>1, <1>2 DEF NewJob, Job

LEMMA HookTyped ==
    ASSUME Typed, NEW k \in Hooks, HookStep(k) \/ HookDies(k)
    PROVE  Typed'
<1>1. /\ hook' \in [Hooks -> Hook] /\ reporter' \in [Reporters -> Reporter] /\ Awaited'
  <2>1. CASE \E ok \in BOOLEAN : Answers(k, ok)
    BY <2>1, HandlerAnswers
  <2>2. CASE ~ \E ok \in BOOLEAN : Answers(k, ok)
    <3>1. \E pc \in {"submitting", "undoing"} :
             hook' = [hook EXCEPT ![k].pc = pc] /\ hook[k].pc # "free" /\ UNCHANGED reporter
      BY <2>2 DEF HookStep, HookMissesRow, HookFails, HookClaims, HookSubmits, HookSubmitRaises, HookUndoes,
                  HookDies, recorder
    <3>. QED BY <3>1, HandlerGoes DEF Typed, TypeOK
  <2>. QED BY <2>1, <2>2
<1>2. row' \in RowType
  BY RowsTyped DEF HookStep, HookMissesRow, HookFails, HookClaims, HookSubmits, HookSubmitRaises, HookUndoes,
                  HookDies, Typed, TypeOK, RowStands
<1>3. job' \in [Jobs -> Job]
  BY NewJobTyped DEF HookStep, HookMissesRow, HookFails, HookClaims, HookSubmits, HookSubmitRaises, HookUndoes,
                  HookDies, Typed, TypeOK
<1>4. /\ handed' \in Nat /\ lost' \in 0..MaxLost /\ crashes' \in 0..MaxCrashes
      /\ UNCHANGED <<retries, timeouts>>
  BY BoundsTyped DEF HookStep, HookMissesRow, HookFails, HookClaims, HookSubmits, HookSubmitRaises, HookUndoes,
                  HookDies, Typed, TypeOK, bounds
<1>5. UNCHANGED <<transcript, chunks, local, storage, ping, retry, deleting>>
  BY DEF HookStep, HookMissesRow, HookFails, HookClaims, HookSubmits, HookSubmitRaises, HookUndoes,
                  HookDies, recorder, result
<1>6. noted' \in BOOLEAN /\ dropped' \in BOOLEAN
  <2>. DEFINE fails == row.status \notin {"transcribing", "completed"}
              undoes == row.status = "transcribing"
              accepts == AcceptsCompleted(row)
              hands == HandingOver(k)
  <2>1. fails \in BOOLEAN /\ undoes \in BOOLEAN /\ accepts \in BOOLEAN /\ hands \in BOOLEAN
    BY DEF AcceptsCompleted, HandingOver
  <2>2. /\ UNCHANGED noted \/ Rewords(fails) \/ Rewords(undoes) \/ Claims(accepts)
        /\ UNCHANGED dropped \/ Claims(accepts) \/ Drops(hands)
    BY DEF HookStep, HookMissesRow, HookFails, HookClaims, HookSubmits, HookSubmitRaises, HookUndoes,
           HookDies, result
  <2>. HIDE DEF fails, undoes, accepts, hands
  <2>. QED BY <2>1, <2>2, Written
<1>. QED BY <1>1, <1>2, <1>3, <1>4, <1>5, <1>6 DEF Typed, TypeOK

LEMMA RequestsTyped ==
    ASSUME Typed,
           \/ \E p \in ping : ReceivePing(p)
           \/ RetryClaims \/ RetryLists \/ RetrySubmits \/ RetryMoves \/ RetryFails
           \/ Sweep \/ DeleteStep
    PROVE  Typed'
<1>1. row' \in RowType
  <2>1. row \in RowType
    BY DEF Typed, TypeOK
  <2>2. \/ UNCHANGED row \/ row' = Absent
        \/ row' \in {ForceFailed(row), Swept(row), RetryClaimed(row), ReuploadRefused(row),
                      MovedToUploading(row), ReuploadFailed(row), AdmissionPing(row), RecordingPing(row)}
    BY DEF ReceivePing, RetryClaims, RetryLists, RetrySubmits, RetryMoves, RetryFails,
       Sweep, DeleteStep, DeleteStarts, DeleteFromStorage, DeleteRow
  <2>. QED BY <2>1, <2>2, RowsTyped, AbsentTyped DEF RowStands
<1>2. job' \in [Jobs -> Job]
  BY NewJobTyped DEF ReceivePing, RetryClaims, RetryLists, RetrySubmits, RetryMoves, RetryFails,
     Sweep, DeleteStep, DeleteStarts, DeleteFromStorage, DeleteRow, Typed, TypeOK
<1>3. retry' \in {"idle", "listing", "submitting", "moving", "posting", "failing"}
  BY DEF ReceivePing, RetryClaims, RetryLists, RetrySubmits, RetryMoves, RetryFails,
     Sweep, DeleteStep, DeleteStarts, DeleteFromStorage, DeleteRow, Typed, TypeOK
<1>4. /\ retries' \in 0..MaxRetries /\ UNCHANGED <<local, reporter, hook, handed, lost, timeouts, crashes>>
      /\ ping' \subseteq ping
  BY BoundsTyped DEF ReceivePing, RetryClaims, RetryLists, RetrySubmits, RetryMoves, RetryFails,
     Sweep, DeleteStep, DeleteStarts, DeleteFromStorage, DeleteRow, recorder, bounds, Typed, TypeOK
<1>5. /\ storage' \in BOOLEAN /\ deleting' \in {"no", "storage", "row"}
      /\ transcript' \in {"none", "saved", "nothing_to_index", "indexed"} /\ chunks' \subseteq Jobs
  BY DEF ReceivePing, RetryClaims, RetryLists, RetrySubmits, RetryMoves, RetryFails,
     Sweep, DeleteStep, DeleteStarts, DeleteFromStorage, DeleteRow, recorder, result, Typed, TypeOK
<1>6. noted' \in BOOLEAN /\ dropped' \in BOOLEAN
  <2>1. \/ UNCHANGED <<noted, dropped>>
        \/ \E m \in BOOLEAN : (Rewords(m) /\ UNCHANGED dropped) \/ Claims(m)
        \/ noted' = FALSE /\ dropped' = FALSE
    BY DEF ReceivePing, RetryClaims, RetryLists, RetrySubmits, RetryMoves, RetryFails,
       Sweep, DeleteStep, DeleteStarts, DeleteFromStorage, DeleteRow, result, Exists
  <2>. QED BY <2>1, Written, Zenon
<1>7. Awaited'
  BY <1>4 DEF Typed, Awaited
<1>. QED BY <1>1, <1>2, <1>3, <1>4, <1>5, <1>6, <1>7 DEF Typed, TypeOK

LEMMA PostTyped ==
    ASSUME Typed, RetryPosts
    PROVE  Typed'
<1>1. /\ UNCHANGED <<row, result, local, storage, ping, hook, job, deleting, handed, bounds>>
      /\ retry' \in {"idle", "failing"}
  BY DEF RetryPosts
<1>2. reporter' \in [Reporters -> Reporter] /\ Awaited'
  <2>1. CASE UNCHANGED reporter
    BY <1>1, <2>1 DEF Typed, TypeOK, Awaited
  <2>2. CASE MayReupload /\ reporter' = [reporter EXCEPT !["reupload"].pc = "uploading"]
    <3>. DEFINE v == [reporter["reupload"] EXCEPT !.pc = "uploading"]
    <3>1. "reupload" \in Reporters /\ v \in Reporter /\ v.pc = "uploading"
      BY DEF Typed, TypeOK, Reporters, Reporter
    <3>2. reporter' = [reporter EXCEPT !["reupload"] = v] /\ reporter["reupload"].pc = "idle"
      BY <2>2 DEF MayReupload
    <3>. HIDE DEF v
    <3>. QED BY <1>1, <3>1, <3>2, ReporterGoes
  <2>. QED BY <2>1, <2>2 DEF RetryPosts
<1>. QED BY <1>1, <1>2 DEF Typed, TypeOK, result, bounds

\* What one step of a job's run, or the end of it, makes of the job.
WORKING == {"transcribing", "saving"}
INDEXING == {"indexing", "committing"}

Becomes(j, v) ==
    /\ v \in Job /\ job[j].pc # "free"
    /\ job' = [job EXCEPT ![j] = v]
    /\ v.stored => job[j].stored \/ (JobSaves(j) /\ Exists(row))
    /\ v.pc \in WORKING =>
         v.stored = job[j].stored /\ (job[j].pc \in WORKING \/ transcript = "none")
    /\ v.pc \in INDEXING => job[j].pc \in INDEXING \/ transcript # "none" \/ JobSaves(j)

LEMMA JobBecomes ==
    ASSUME Typed, NEW j \in Jobs, JobStep(j) \/ JobDies(j) \/ JobTimesOut(j)
    PROVE  \E v : Becomes(j, v)
<1>. DEFINE Changed(v) == job' = [job EXCEPT ![j] = v]
<1>0. job[j] \in Job /\ job \in [Jobs -> Job]
  BY DEF Typed, TypeOK
<1>1. ASSUME Changed(FreeJob), job[j].pc # "free"
      PROVE  \E v : Becomes(j, v)
  BY <1>1, NewJobTyped DEF Becomes, WORKING, INDEXING
<1>2. ASSUME job' = NextTry(j), job[j].try \in 1..(MaxTries - 1), job[j].pc # "free"
      PROVE  \E v : Becomes(j, v)
  <2>. DEFINE n == job[j].try + 1
              v == [NewJob EXCEPT !.try = n, !.stored = job[j].stored]
  <2>1. n \in 0..MaxTries /\ n # 0
    BY <1>2, TranscriptionAssumption
  <2>2. Changed(v)
    BY <1>2 DEF NextTry
  <2>. HIDE DEF n
  <2>3. v \in Job /\ v.pc = "queued" /\ v.try = n /\ v.stored = job[j].stored
    BY <1>0, <2>1, NewJobTyped DEF Job
  <2>. HIDE DEF v
  <2>. QED BY <1>2, <2>1, <2>2, <2>3 DEF Becomes, WORKING, INDEXING
<1>3. CASE JobStarts(j)
  <2>. DEFINE e == (transcript = "nothing_to_index")
              i == [job[j] EXCEPT !.pc = "indexing", !.resumed = TRUE, !.empty = e]
              t == [job[j] EXCEPT !.pc = "transcribing", !.resumed = FALSE]
  <2>1. /\ i \in Job /\ i.pc = "indexing" /\ i.stored = job[j].stored /\ i.try = job[j].try
        /\ t \in Job /\ t.pc = "transcribing" /\ t.stored = job[j].stored /\ t.try = job[j].try
    BY <1>0 DEF Job
  <2>2. /\ job[j].pc = "queued"
        /\ \/ Changed(FreeJob)
           \/ transcript # "none" /\ Changed(i)
           \/ transcript = "none" /\ Changed(t)
    <3>1. job[j].pc = "queued"
      BY <1>3 DEF JobStarts
    <3>. HIDE DEF e
    <3>2. [job EXCEPT ![j].pc = "indexing", ![j].resumed = TRUE, ![j].empty = e] = [job EXCEPT ![j] = i]
      BY <1>0
    <3>3. [job EXCEPT ![j].pc = "transcribing", ![j].resumed = FALSE] = [job EXCEPT ![j] = t]
      BY <1>0
    <3>. HIDE DEF i, t
    <3>. QED BY <1>3, <3>1, <3>2, <3>3, Zenon DEF JobStarts, e
  <2>. HIDE DEF i, t
  <2>3. CASE transcript # "none" /\ Changed(i)
    BY <2>1, <2>2, <2>3 DEF Becomes, WORKING, INDEXING
  <2>4. CASE transcript = "none" /\ Changed(t)
    BY <2>1, <2>2, <2>4 DEF Becomes, WORKING, INDEXING
  <2>. QED BY <1>1, <2>2, <2>3, <2>4
<1>4. CASE JobPays(j)
  <2>. DEFINE v == [job[j] EXCEPT !.pc = "saving"]
  <2>1. v \in Job /\ v.pc = "saving" /\ v.stored = job[j].stored /\ v.try = job[j].try
    BY <1>0 DEF Job
  <2>2. Changed(v) /\ job[j].pc = "transcribing"
    BY <1>4 DEF JobPays
  <2>. HIDE DEF v
  <2>. QED BY <2>1, <2>2 DEF Becomes, WORKING, INDEXING
<1>5. CASE JobSaves(j)
  <2>1. PICK b \in BOOLEAN : job' = [job EXCEPT ![j].pc = "indexing", ![j].stored = Exists(row), ![j].empty = b]
    BY <1>5 DEF JobSaves
  <2>. DEFINE x == Exists(row)
              v == [job[j] EXCEPT !.pc = "indexing", !.stored = x, !.empty = b]
  <2>2. x \in BOOLEAN /\ job[j].pc = "saving"
    BY <1>5 DEF Exists, JobSaves
  <2>3. Changed(v)
    <3>. HIDE DEF x
    <3>1. job' = [job EXCEPT ![j].pc = "indexing", ![j].stored = x, ![j].empty = b]
      BY <2>1 DEF x
    <3>. QED BY <1>0, <3>1
  <2>. HIDE DEF x
  <2>4. v \in Job /\ v.pc = "indexing" /\ v.stored = x /\ v.try = job[j].try
    BY <1>0, <2>2 DEF Job
  <2>. HIDE DEF v
  <2>5. v.stored => Exists(row)
    BY <2>4 DEF x
  <2>. QED BY <1>5, <2>2, <2>3, <2>4, <2>5 DEF Becomes, WORKING, INDEXING
<1>6. CASE JobClearsChunks(j)
  <2>. DEFINE v == [job[j] EXCEPT !.pc = "committing", !.seen = chunks]
  <2>1. v \in Job /\ v.pc = "committing" /\ v.stored = job[j].stored /\ v.try = job[j].try
    BY <1>0 DEF Job, Typed, TypeOK
  <2>2. Changed(v) /\ job[j].pc = "indexing"
    BY <1>6, <1>0 DEF JobClearsChunks
  <2>. HIDE DEF v
  <2>. QED BY <2>1, <2>2 DEF Becomes, WORKING, INDEXING
<1>7. CASE JobTimesOut(j)
  <2>. DEFINE v == [job[j] EXCEPT !.try = 0]
  <2>1. v \in Job /\ v.pc = job[j].pc /\ v.stored = job[j].stored
    BY <1>0, TranscriptionAssumption DEF Job
  <2>2. Changed(v) /\ job[j].pc # "free"
    BY <1>7, <1>0 DEF JobTimesOut, Running
  <2>. HIDE DEF v
  <2>. QED BY <1>7, <2>1, <2>2 DEF Becomes, WORKING, INDEXING
<1>8. CASE JobFindsSilence(j) \/ JobFails(j) \/ JobHasNothingToIndex(j) \/ JobCommitsIndex(j)
  BY <1>1, <1>8 DEF JobFindsSilence, JobFails, JobHasNothingToIndex, JobCommitsIndex, Done
<1>9. CASE JobRaises(j) \/ JobDies(j)
  BY <1>1, <1>2, <1>9 DEF JobRaises, JobDies, Running, Retries
<1>. QED BY <1>3, <1>4, <1>5, <1>6, <1>7, <1>8, <1>9 DEF JobStep

LEMMA JobsTyped ==
    ASSUME Typed, NEW j \in Jobs, JobStep(j) \/ JobDies(j) \/ JobTimesOut(j)
    PROVE  Typed'
<1>1. job' \in [Jobs -> Job]
  BY JobBecomes DEF Becomes, Typed, TypeOK
<1>2. row' \in RowType
  <2>1. row \in RowType
    BY DEF Typed, TypeOK
  <2>2. row' \in {row, ForceFailed(row), Completed(row)}
    BY DEF JobStep, JobStarts, JobPays, JobSaves, JobFindsSilence, JobFails, JobHasNothingToIndex,
       JobClearsChunks, JobCommitsIndex, JobRaises, JobDies, JobTimesOut, Done, MarkFailed
  <2>. QED BY <2>1, <2>2, RowsTyped DEF RowStands
<1>3. transcript' \in {"none", "saved", "nothing_to_index", "indexed"} /\ chunks' \subseteq Jobs
  BY DEF JobStep, JobStarts, JobPays, JobSaves, JobFindsSilence, JobFails, JobHasNothingToIndex,
     JobClearsChunks, JobCommitsIndex, JobRaises, JobDies, JobTimesOut, Stored, result, Typed, TypeOK
<1>4. crashes' \in 0..MaxCrashes /\ timeouts' \in 0..MaxTimeouts
  BY BoundsTyped DEF JobStep, JobStarts, JobPays, JobSaves, JobFindsSilence, JobFails, JobHasNothingToIndex,
     JobClearsChunks, JobCommitsIndex, JobRaises, JobDies, JobTimesOut, bounds, Typed, TypeOK
<1>5. UNCHANGED <<local, storage, ping, reporter, hook, retry, deleting, handed, retries, lost>>
  BY DEF JobStep, JobStarts, JobPays, JobSaves, JobFindsSilence, JobFails, JobHasNothingToIndex,
     JobClearsChunks, JobCommitsIndex, JobRaises, JobDies, JobTimesOut, recorder, bounds
<1>6. noted' \in BOOLEAN /\ dropped' \in BOOLEAN
  <2>1. /\ UNCHANGED noted \/ noted' = TRUE \/ \E m \in BOOLEAN : Rewords(m)
        /\ UNCHANGED dropped \/ \E m \in BOOLEAN : Drops(m)
    BY DEF JobStep, JobStarts, JobPays, JobSaves, JobFindsSilence, JobFails, JobHasNothingToIndex,
       JobClearsChunks, JobCommitsIndex, JobRaises, JobDies, JobTimesOut, MarkFailed, result, Exists,
       Retries, Typed, TypeOK, Job
  <2>. QED BY <2>1, Written, Zenon
<1>. QED BY <1>1, <1>2, <1>3, <1>4, <1>5, <1>6 DEF Typed, TypeOK, Awaited

LEMMA NextTyped == Typed /\ [Next]_vars => Typed'
<1>. SUFFICES ASSUME Typed, [Next]_vars PROVE Typed'
  OBVIOUS
<1>1. CASE UNCHANGED vars
  BY <1>1 DEF vars, result, recorder, bounds, Typed, TypeOK, Awaited
<1>. QED BY <1>1, RecorderTyped, HookTyped, RequestsTyped, PostTyped, JobsTyped DEF Next, RetryStep

-----------------------------------------------------------------------------
(* The last copy.                                                          *)

RecordingFirst ==
    reporter["session"].pc = "recording" => ~local /\ ~storage /\ reporter["reupload"].pc = "idle"

LEMMA RecordingKept == Typed /\ RecordingFirst /\ [Next]_vars => RecordingFirst'
<1>. SUFFICES ASSUME Typed, RecordingFirst, [Next]_vars, reporter'["session"].pc = "recording"
              PROVE  ~local' /\ ~storage' /\ reporter'["reupload"].pc = "idle"
  BY DEF RecordingFirst
<1>0. /\ reporter \in [Reporters -> Reporter] /\ Reporters = {"session", "reupload"}
      /\ reporter["session"].pc = "recording" => ~local /\ ~storage /\ reporter["reupload"].pc = "idle"
      /\ storage \in BOOLEAN
  BY DEF Typed, TypeOK, Reporters, RecordingFirst
<1>1. CASE SessionStops
  <2>. DEFINE u == [reporter["session"] EXCEPT !.pc = "uploading"]
              x == [pc |-> "reporting", outcome |-> "failed", tries |-> MaxNotify]
  <2>1. u.pc = "uploading" /\ x.pc = "reporting"
    BY <1>0 DEF Reporter
  <2>2. reporter' = [reporter EXCEPT !["session"] = u] \/ reporter' = [reporter EXCEPT !["session"] = x]
    BY <1>1 DEF SessionStops, Reports
  <2>. HIDE DEF u, x
  <2>. QED BY <1>0, <2>1, <2>2
<1>2. ASSUME NEW w \in Reporters, NEW v, reporter' = [reporter EXCEPT ![w] = v], v.pc # "recording"
      PROVE  w = "reupload" /\ reporter["session"].pc = "recording" /\ reporter["reupload"].pc = "idle"
  BY <1>0, <1>2
<1>3. ASSUME NEW w \in Reporters, UploadSucceeds(w) \/ UploadFails(w)
      PROVE  FALSE
  <2>1. PICK o : reporter' = [reporter EXCEPT ![w] =
             [pc |-> "reporting", outcome |-> o, tries |-> MaxNotify]]
    BY <1>3 DEF UploadSucceeds, UploadFails, Reports
  <2>2. reporter[w].pc = "uploading"
    BY <1>3 DEF UploadSucceeds, UploadFails
  <2>3. [pc |-> "reporting", outcome |-> o, tries |-> MaxNotify].pc # "recording"
    OBVIOUS
  <2>. QED BY <1>2, <2>1, <2>2, <2>3
<1>4. ASSUME NEW w \in Reporters, (\E k \in Hooks : PostReport(w, k)) \/ ReportLost(w)
      PROVE  FALSE
  <2>1. reporter[w].pc = "reporting" /\ reporter[w] \in Reporter /\ reporter[w].tries # 0
    BY <1>0, <1>4 DEF PostReport, ReportLost, Typed, Awaited
  <2>2. \E v : reporter' = [reporter EXCEPT ![w] = v] /\ v.pc # "recording"
    <3>1. CASE ReportLost(w)
      BY <2>1, <3>1, Unanswered DEF ReportLost
    <3>2. CASE \E k \in Hooks : PostReport(w, k)
      <4>. DEFINE v == [reporter[w] EXCEPT !.pc = "waiting"]
      <4>1. reporter' = [reporter EXCEPT ![w] = v] /\ v.pc = "waiting"
        BY <2>1, <3>2 DEF PostReport, Reporter
      <4>. HIDE DEF v
      <4>. QED BY <4>1
    <3>. QED BY <1>4, <3>1, <3>2
  <2>. QED BY <1>2, <2>1, <2>2
<1>5. ASSUME \A w \in Reporters : \/ reporter'[w] = reporter[w]
                                  \/ reporter[w].pc = "waiting" /\ reporter'[w].pc \in {"idle", "reporting"},
             local' => local, storage' => storage
      PROVE  ~local' /\ ~storage' /\ reporter'["reupload"].pc = "idle"
  BY <1>0, <1>5
<1>6. ASSUME NEW k \in Hooks, ConnectionBreaks(k)
      PROVE  ~local' /\ ~storage' /\ reporter'["reupload"].pc = "idle"
  <2>. DEFINE h == [hook[k] EXCEPT !.heard = FALSE]
              v == Unheard(reporter[hook[k].from])
  <2>1. h \in Hook /\ ~h.heard
    BY DEF Typed, TypeOK, Hook
  <2>2. /\ hook[k].heard /\ hook' = [hook EXCEPT ![k] = h]
        /\ reporter' = [reporter EXCEPT ![hook[k].from] = v] /\ UNCHANGED <<local, storage>>
    BY <1>6 DEF ConnectionBreaks
  <2>3. v \in {Silent, Unheard(reporter[hook[k].from])}
    OBVIOUS
  <2>. HIDE DEF h, v
  <2>. QED BY <1>5, <2>1, <2>2, <2>3, LetsGoOf
<1>7. ASSUME NEW k \in Hooks, HookStep(k) \/ HookDies(k)
      PROVE  ~local' /\ ~storage' /\ reporter'["reupload"].pc = "idle"
  <2>1. /\ UNCHANGED <<local, storage>>
        /\ UNCHANGED reporter \/ \E ok \in BOOLEAN : Answers(k, ok)
    BY <1>7 DEF HookStep, HookMissesRow, HookFails, HookClaims, HookSubmits, HookSubmitRaises, HookUndoes,
                HookDies, recorder
  <2>. QED BY <1>5, <2>1, HandlerAnswers
<1>8. CASE RetryPosts
  <2>1. CASE UNCHANGED reporter
    BY <1>5, <1>8, <2>1 DEF RetryPosts
  <2>2. CASE reporter["session"].pc = "idle" /\ reporter' = [reporter EXCEPT !["reupload"].pc = "uploading"]
    BY <1>0, <2>2
  <2>. QED BY <1>8, <2>1, <2>2 DEF RetryPosts, MayReupload
<1>9. CASE UNCHANGED <<local, reporter>> /\ storage' \in {FALSE, storage}
  <2>1. local' = local /\ storage' \in {FALSE, storage} /\ UNCHANGED reporter
    BY <1>9
  <2>2. local' => local
    BY <2>1, Zenon
  <2>3. storage' => storage
    BY <2>1, Zenon
  <2>. QED BY <1>5, <2>1, <2>2, <2>3
<1>10. CASE (\E p \in ping : ReceivePing(p)) \/ RetryClaims \/ RetryLists \/ RetrySubmits \/ RetryMoves
            \/ RetryFails \/ Sweep \/ DeleteStep \/ UNCHANGED vars
  BY <1>9, <1>10 DEF ReceivePing, RetryClaims, RetryLists, RetrySubmits, RetryMoves, RetryFails, Sweep,
     DeleteStep, DeleteStarts, DeleteFromStorage, DeleteRow, vars, recorder
<1>11. ASSUME NEW j \in Jobs, JobStep(j) \/ JobDies(j) \/ JobTimesOut(j)
       PROVE  ~local' /\ ~storage' /\ reporter'["reupload"].pc = "idle"
  BY <1>9, <1>11 DEF JobStep, JobStarts, JobPays, JobSaves, JobFindsSilence, JobFails, JobHasNothingToIndex,
     JobClearsChunks, JobCommitsIndex, JobRaises, JobDies, JobTimesOut, recorder
<1>. QED BY <1>1, <1>3, <1>4, <1>6, <1>7, <1>8, <1>10, <1>11 DEF Next, ReporterStep, RetryStep

\* No step but the delete's takes the last copy.
LEMMA CopyKept ==
    ASSUME Typed, RecordingFirst, [Next]_vars, local \/ storage
    PROVE  local' \/ storage' \/ deleting = "storage"
<1>1. CASE SessionStops
  BY <1>1 DEF SessionStops, RecordingFirst
<1>2. CASE \E w \in Reporters : ReporterStep(w)
  BY <1>2 DEF ReporterStep, UploadSucceeds, UploadFails, PostReport, ReportLost, Typed, TypeOK
<1>3. ASSUME UNCHANGED <<local, storage>>
      PROVE  local' \/ storage'
  BY <1>3, Zenon
<1>4. ASSUME NEW k \in Hooks, HookStep(k) \/ ConnectionBreaks(k) \/ HookDies(k)
      PROVE  UNCHANGED <<local, storage>>
  BY <1>4 DEF HookStep, HookMissesRow, HookFails, HookClaims, HookSubmits, HookSubmitRaises, HookUndoes,
              HookDies, ConnectionBreaks, recorder
<1>5. ASSUME NEW p \in ping, ReceivePing(p)
      PROVE  UNCHANGED <<local, storage>>
  BY <1>5 DEF ReceivePing
<1>6. CASE RetryClaims \/ RetryStep \/ Sweep \/ DeleteStarts \/ DeleteRow \/ UNCHANGED vars
  <2>1. UNCHANGED <<local, storage>>
    BY <1>6 DEF RetryClaims, RetryStep, RetryLists, RetrySubmits, RetryMoves, RetryPosts, RetryFails,
       Sweep, DeleteStarts, DeleteRow, vars, recorder
  <2>. QED BY <1>3, <2>1
<1>7. CASE DeleteFromStorage
  BY <1>7 DEF DeleteFromStorage
<1>8. ASSUME NEW j \in Jobs, JobStep(j) \/ JobDies(j) \/ JobTimesOut(j)
      PROVE  UNCHANGED <<local, storage>>
  BY <1>8 DEF JobStep, JobStarts, JobPays, JobSaves, JobFindsSilence, JobFails, JobHasNothingToIndex,
     JobClearsChunks, JobCommitsIndex, JobRaises, JobDies, JobTimesOut, recorder
<1>. QED BY <1>1, <1>2, <1>3, <1>4, <1>5, <1>6, <1>7, <1>8 DEF Next, DeleteStep

-----------------------------------------------------------------------------
(* Jobs.                                                                   *)

JobActs(j) == JobStep(j) \/ JobDies(j) \/ JobTimesOut(j)

\* The steps of anything but a job: they add one, or none, and leave what jobs have
\* done, unless the meeting is deleted.  They do not complete the meeting, and while it
\* is completed they take no note back and forget no lost outcome.
LEMMA OtherSteps ==
    ASSUME Typed, [Next]_vars, \A j \in Jobs : ~JobActs(j)
    PROVE  /\ \/ UNCHANGED job
              \/ \E j \in Jobs : job[j] = FreeJob /\ job' = [job EXCEPT ![j] = NewJob]
           /\ UNCHANGED transcript \/ (transcript' = "none" /\ ~Exists(row'))
           /\ Exists(row') => Exists(row)
           /\ row'.status = "completed" =>
                row.status = "completed" /\ (noted => noted') /\ (dropped => dropped')
<1>0. row \in RowType /\ Absent.status # "completed"
  BY DEF Typed, TypeOK, Absent
<1>1. ASSUME UNCHANGED <<row, result>>
      PROVE  /\ UNCHANGED <<transcript, row>>
             /\ (noted => noted') /\ (dropped => dropped')
  <2>1. UNCHANGED noted /\ UNCHANGED dropped /\ UNCHANGED <<transcript, row>>
    BY <1>1 DEF result
  <2>. QED BY <2>1, Written
<1>2. CASE SessionStops \/ (\E w \in Reporters : ReporterStep(w)) \/ (\E k \in Hooks : ConnectionBreaks(k))
           \/ UNCHANGED vars
  <2>1. UNCHANGED <<row, result, job>>
    BY <1>2 DEF SessionStops, ReporterStep, UploadSucceeds, UploadFails, PostReport, ReportLost, ConnectionBreaks,
       vars
  <2>. QED BY <1>1, <2>1
<1>3. CASE (\E p \in ping : ReceivePing(p)) \/ RetrySubmits \/ RetryPosts
  <2>1. /\ \/ UNCHANGED job
           \/ \E j \in Jobs : job[j] = FreeJob /\ job' = [job EXCEPT ![j] = NewJob]
        /\ UNCHANGED result /\ row' \in {row, AdmissionPing(row), RecordingPing(row)}
    BY <1>3 DEF ReceivePing, RetrySubmits, RetryPosts
  <2>2. UNCHANGED noted /\ UNCHANGED dropped /\ UNCHANGED transcript
    BY <2>1 DEF result
  <2>3. row'.status = "completed" => row.status = "completed"
    BY <1>0, <2>1 DEF AdmissionPing, RecordingPing, RowType
  <2>. QED BY <1>0, <2>1, <2>2, <2>3, Written, RowsTyped DEF RowStands
<1>4. ASSUME NEW k \in Hooks, HookStep(k) \/ HookDies(k)
      PROVE  /\ \/ UNCHANGED job
                \/ \E j \in Jobs : job[j] = FreeJob /\ job' = [job EXCEPT ![j] = NewJob]
             /\ UNCHANGED transcript
             /\ row' \in {row, FailedReport(row), CompletedReport(row), UndoCompleted(row)}
             /\ row'.status = "completed" =>
                  row.status = "completed" /\ (noted => noted') /\ (dropped => dropped')
  <2>1. /\ \/ UNCHANGED job
           \/ \E j \in Jobs : job[j] = FreeJob /\ job' = [job EXCEPT ![j] = NewJob]
        /\ UNCHANGED transcript
        /\ row' \in {row, FailedReport(row), CompletedReport(row), UndoCompleted(row)}
    BY <1>4 DEF HookStep, HookMissesRow, HookFails, HookClaims, HookSubmits, HookSubmitRaises, HookUndoes,
                HookDies, result
  <2>2. row'.status = "completed" => row.status = "completed"
    BY <1>0, <2>1 DEF FailedReport, CompletedReport, UndoCompleted, RowType
  <2>. DEFINE fails == row.status \notin {"transcribing", "completed"}
              undoes == row.status = "transcribing"
              accepts == AcceptsCompleted(row)
              hands == HandingOver(k)
  <2>3. /\ fails \in BOOLEAN /\ undoes \in BOOLEAN /\ accepts \in BOOLEAN /\ hands \in BOOLEAN
        /\ row.status = "completed" => ~fails /\ ~undoes /\ ~accepts
    BY DEF AcceptsCompleted, HandingOver
  <2>4. /\ UNCHANGED noted \/ Rewords(fails) \/ Rewords(undoes) \/ Claims(accepts)
        /\ UNCHANGED dropped \/ Claims(accepts) \/ Drops(hands)
    BY <1>4 DEF HookStep, HookMissesRow, HookFails, HookClaims, HookSubmits, HookSubmitRaises, HookUndoes,
                HookDies, result
  <2>. HIDE DEF fails, undoes, accepts, hands
  <2>. QED BY <2>1, <2>2, <2>3, <2>4, Written
<1>5. CASE RetryClaims \/ RetryLists \/ RetryMoves \/ RetryFails \/ Sweep
  <2>1. /\ UNCHANGED <<job, transcript>>
        /\ row' \in {row, ForceFailed(row), Swept(row), RetryClaimed(row), ReuploadRefused(row),
                     MovedToUploading(row), ReuploadFailed(row)}
    BY <1>5 DEF RetryClaims, RetryLists, RetryMoves, RetryFails, Sweep, result
  <2>2. row'.status = "completed" => row.status = "completed"
    BY <1>0, <2>1 DEF ForceFailed, Swept, RetryClaimed, ReuploadRefused, MovedToUploading, ReuploadFailed,
       RowType
  <2>. DEFINE refuses == row.status = "transcribing"
              fails == row.status = "uploading"
  <2>3. ASSUME row'.status = "completed"
        PROVE  UNCHANGED dropped /\ (UNCHANGED noted \/ Rewords(refuses) \/ Rewords(fails))
    BY <1>0, <1>5, <2>3 DEF RetryClaims, RetryLists, RetryMoves, RetryFails, Sweep, result, RetryClaimed,
       ForceFailed, Swept, NonTerminal, Exists, RowType
  <2>4. refuses \in BOOLEAN /\ fails \in BOOLEAN /\ (row.status = "completed" => ~refuses /\ ~fails)
    OBVIOUS
  <2>. HIDE DEF refuses, fails
  <2>5. row'.status = "completed" => (noted => noted') /\ (dropped => dropped')
    BY <2>2, <2>3, <2>4, Written
  <2>. QED BY <1>0, <2>1, <2>2, <2>5, RowsTyped DEF RowStands
<1>6. CASE DeleteStarts \/ DeleteFromStorage
  <2>1. UNCHANGED <<row, result, job>>
    BY <1>6 DEF DeleteStarts, DeleteFromStorage
  <2>. QED BY <1>1, <2>1
<1>7. CASE DeleteRow
  BY <1>0, <1>7, AbsentTyped DEF DeleteRow
<1>. QED BY <1>0, <1>2, <1>3, <1>4, <1>5, <1>6, <1>7, RowsTyped DEF Next, JobActs, RowStands, RetryStep, DeleteStep

\* What a job has done is not undone by another.
LEMMA JobSteps ==
    ASSUME Typed, NEW j \in Jobs, JobActs(j)
    PROVE  /\ Exists(row') <=> Exists(row)
           /\ transcript # "none" => transcript' # "none"
           /\ JobSaves(j) /\ Exists(row) => transcript' # "none"
<1>0. row \in RowType
  BY DEF Typed, TypeOK
<1>1. row' \in {row, ForceFailed(row), Completed(row)}
  BY DEF JobActs, JobStep, JobStarts, JobPays, JobSaves, JobFindsSilence, JobFails, JobHasNothingToIndex,
     JobClearsChunks, JobCommitsIndex, JobRaises, JobDies, JobTimesOut, Done, MarkFailed
<1>2. transcript' = transcript \/ transcript' = "indexed" \/ \E b \in BOOLEAN : transcript' = Stored(b)
  BY DEF JobActs, JobStep, JobStarts, JobPays, JobSaves, JobFindsSilence, JobFails, JobHasNothingToIndex,
     JobClearsChunks, JobCommitsIndex, JobRaises, JobDies, JobTimesOut, result
<1>3. JobSaves(j) /\ Exists(row) => transcript' # "none"
  BY DEF JobSaves, Stored
<1>. QED BY <1>0, <1>1, <1>2, <1>3, RowsTyped DEF RowStands, Stored

\* A job that stored a transcript finds one, as long as there is a row.
StoredOrGone == \A j \in Jobs : job[j].stored => transcript # "none" \/ ~Exists(row)

LEMMA ResumeKept ==
    Typed /\ StoredOrGone /\ ResumeNotRestart /\ [Next]_vars => StoredOrGone' /\ ResumeNotRestart'
<1>. SUFFICES ASSUME Typed, StoredOrGone, ResumeNotRestart, [Next]_vars
              PROVE  StoredOrGone' /\ ResumeNotRestart'
  OBVIOUS
<1>0. job \in [Jobs -> Job]
  BY DEF Typed, TypeOK
<1>1. CASE \A j \in Jobs : ~JobActs(j)
  BY <1>0, <1>1, OtherSteps, NewJobTyped DEF StoredOrGone, ResumeNotRestart
<1>2. ASSUME NEW j \in Jobs, JobActs(j)
      PROVE  StoredOrGone' /\ ResumeNotRestart'
  <2>1. PICK v : Becomes(j, v)
    BY <1>2, JobBecomes DEF JobActs
  <2>2. \A i \in Jobs : job'[i] = IF i = j THEN v ELSE job[i]
    BY <1>0, <2>1 DEF Becomes
  <2>3. StoredOrGone'
    BY <1>2, <2>1, <2>2, JobSteps DEF StoredOrGone, Becomes
  <2>4. ResumeNotRestart'
    BY <1>2, <2>1, <2>2, JobSteps DEF StoredOrGone, ResumeNotRestart, Becomes, WORKING
  <2>. QED BY <2>3, <2>4
<1>. QED BY <1>1, <1>2

\* Somebody will index the transcript, or leave the note.
Answering(j) == job[j].pc # "free" /\ ~(job[j].pc = "indexing" /\ job[j].empty)

SavedIsAnswered ==
    row.status = "completed" /\ transcript = "saved" /\ ~dropped /\ ~noted =>
        \E j \in Jobs : Answering(j)

\* A job that answers goes on, indexes, fails the meeting, leaves the note, or drops its
\* outcome; one with nothing to index answers for nothing, and changes nothing unless it
\* drops the outcome of another.
LEMMA AnswerPasses ==
    ASSUME Typed, NEW j \in Jobs, JobActs(j),
           row'.status = "completed", transcript' = "saved", ~dropped', ~noted'
    PROVE  \/ Answering(j)'
           \/ ~Answering(j) /\ row.status = "completed" /\ transcript = "saved" /\ ~dropped /\ ~noted
<1>0. job \in [Jobs -> Job] /\ job[j] \in Job /\ row \in RowType
  BY DEF Typed, TypeOK
<1>1. ForceFailed(row).status # "completed"
  BY <1>0 DEF ForceFailed, Exists, RowType
<1>2. ASSUME job' = NextTry(j)
      PROVE  Answering(j)'
  <2>. DEFINE v == [NewJob EXCEPT !.try = job[j].try + 1, !.stored = job[j].stored]
  <2>1. job' = [job EXCEPT ![j] = v]
    BY <1>2 DEF NextTry
  <2>2. v.pc = "queued"
    BY DEF NewJob, FreeJob
  <2>. HIDE DEF v
  <2>. QED BY <1>0, <2>1, <2>2 DEF Answering
<1>3. CASE JobStarts(j)
  <2>1. transcript = "saved" /\ row' = row
    BY <1>1, <1>3 DEF JobStarts, MarkFailed
  <2>2. job' = [job EXCEPT ![j].pc = "indexing", ![j].resumed = TRUE, ![j].empty = (transcript = "nothing_to_index")]
    BY <1>3, <2>1 DEF JobStarts
  <2>. QED BY <1>0, <2>1, <2>2 DEF Answering, Job
<1>4. CASE JobPays(j)
  BY <1>0, <1>4 DEF JobPays, Answering, Job
<1>5. CASE JobSaves(j)
  <2>1. PICK b \in BOOLEAN :
          /\ transcript' = Stored(b)
          /\ job' = [job EXCEPT ![j].pc = "indexing", ![j].stored = Exists(row), ![j].empty = b]
    BY <1>5 DEF JobSaves
  <2>2. Exists(row)
    BY <1>0, <1>5 DEF JobSaves, Completed, Exists
  <2>3. ~b
    BY <2>1, <2>2 DEF Stored
  <2>. DEFINE x == Exists(row)
  <2>4. job' = [job EXCEPT ![j].pc = "indexing", ![j].stored = x, ![j].empty = b]
    BY <2>1
  <2>. HIDE DEF x
  <2>5. job'[j].pc = "indexing" /\ job'[j].empty = b
    BY <1>0, <2>4 DEF Job
  <2>. QED BY <2>3, <2>5 DEF Answering
<1>6. CASE JobFindsSilence(j)
  BY <1>0, <1>6 DEF JobFindsSilence, Stored, Completed, Exists
<1>7. CASE JobFails(j)
  BY <1>1, <1>7 DEF JobFails, MarkFailed
<1>8. CASE JobHasNothingToIndex(j)
  <2>. DEFINE overtakes == job[j].resumed /\ transcript = "saved"
  <2>1. /\ ~Answering(j) /\ UNCHANGED noted /\ UNCHANGED transcript /\ Drops(overtakes)
        /\ row' = IF job[j].resumed THEN Completed(row) ELSE row
    BY <1>8 DEF JobHasNothingToIndex, Done, Answering
  <2>2. overtakes \in BOOLEAN
    OBVIOUS
  <2>3. ~dropped /\ ~overtakes /\ ~noted
    <3>. HIDE DEF overtakes
    <3>. QED BY <2>1, <2>2, Written
  <2>. QED BY <2>1, <2>3
<1>9. CASE JobClearsChunks(j)
  <2>1. job' = [job EXCEPT ![j].pc = "committing", ![j].seen = chunks]
    BY <1>9 DEF JobClearsChunks
  <2>. QED BY <1>0, <2>1 DEF Answering, Job
<1>10. CASE JobCommitsIndex(j)
  BY <1>10 DEF JobCommitsIndex
<1>11. CASE JobRaises(j)
  <2>1. CASE Retries(j)
    BY <1>2, <1>11, <2>1 DEF JobRaises
  <2>2. CASE ~Retries(j)
    <3>. DEFINE unheard == job[j].try = 0
    <3>1. Drops(unheard) /\ unheard \in BOOLEAN /\ UNCHANGED transcript
      BY <1>11, <2>2 DEF JobRaises
    <3>2. ~unheard
      <4>. HIDE DEF unheard
      <4>. QED BY <3>1, Written
    <3>. QED BY <1>1, <1>11, <2>2, <3>1, <3>2 DEF JobRaises, MarkFailed
  <2>. QED BY <2>1, <2>2
<1>12. CASE JobDies(j)
  <2>1. CASE Retries(j)
    BY <1>2, <1>12, <2>1 DEF JobDies
  <2>2. CASE ~Retries(j)
    <3>. DEFINE ends == ~Retries(j)
    <3>1. Drops(ends) /\ ends \in BOOLEAN
      BY <1>12 DEF JobDies, Retries
    <3>. HIDE DEF ends
    <3>2. ~ends
      BY <3>1, Written
    <3>. QED BY <2>2, <3>2 DEF ends
  <2>. QED BY <2>1, <2>2
<1>13. CASE JobTimesOut(j)
  <2>1. job' = [job EXCEPT ![j].try = 0] /\ UNCHANGED <<row, transcript>> /\ UNCHANGED noted /\ UNCHANGED dropped
    BY <1>13 DEF JobTimesOut, result
  <2>2. job'[j].pc = job[j].pc /\ job'[j].empty = job[j].empty
    BY <1>0, <2>1 DEF Job
  <2>3. ~noted /\ ~dropped
    BY <2>1, Written
  <2>. QED BY <2>1, <2>2, <2>3 DEF Answering
<1>. QED BY <1>3, <1>4, <1>5, <1>6, <1>7, <1>8, <1>9, <1>10, <1>11, <1>12, <1>13 DEF JobActs, JobStep

LEMMA SavedKept == Typed /\ SavedIsAnswered /\ [Next]_vars => SavedIsAnswered'
<1>. SUFFICES ASSUME Typed, SavedIsAnswered, [Next]_vars,
                     row'.status = "completed", transcript' = "saved", ~dropped', ~noted'
              PROVE  \E j \in Jobs : Answering(j)'
  BY DEF SavedIsAnswered
<1>0. job \in [Jobs -> Job]
  BY DEF Typed, TypeOK
<1>1. CASE \A j \in Jobs : ~JobActs(j)
  <2>1. row.status = "completed" /\ transcript = "saved" /\ ~dropped /\ ~noted
    BY <1>1, OtherSteps
  <2>2. PICK i \in Jobs : Answering(i)
    BY <2>1 DEF SavedIsAnswered
  <2>3. job'[i] = job[i]
    BY <1>0, <1>1, <2>2, OtherSteps, NewJobTyped DEF Answering
  <2>. QED BY <2>2, <2>3 DEF Answering
<1>2. ASSUME NEW j \in Jobs, JobActs(j)
      PROVE  \E i \in Jobs : Answering(i)'
  <2>1. CASE Answering(j)'
    BY <2>1
  <2>2. CASE ~Answering(j) /\ row.status = "completed" /\ transcript = "saved" /\ ~dropped /\ ~noted
    <3>1. PICK i \in Jobs : Answering(i)
      BY <2>2 DEF SavedIsAnswered
    <3>2. job'[i] = job[i]
      BY <1>0, <1>2, <2>2, <3>1, JobBecomes DEF Becomes, JobActs
    <3>. QED BY <3>1, <3>2 DEF Answering
  <2>. QED BY <1>2, <2>1, <2>2, AnswerPasses
<1>. QED BY <1>1, <1>2

LEMMA SavedMeans == SavedIsAnswered => CompletedIndexedOrNoted
BY DEF SavedIsAnswered, CompletedIndexedOrNoted, Answering

-----------------------------------------------------------------------------
(* The hand-over.                                                          *)

HookActs(k) == HookStep(k) \/ HookDies(k)

Handing == {k \in Hooks : HandingOver(k)}
Busy == {j \in Jobs : job[j].pc # "free"}

\* What no step brings back.
LEMMA Watching ==
    ASSUME Typed, [Next]_vars
    PROVE  /\ Exists(row') => Exists(row)
           /\ lost' = 0 => lost = 0
           /\ retries' = 0 => retries = 0 /\ ~RetryClaims
           /\ deleting' = "no" /\ Exists(row') => deleting = "no"
           /\ deleting' = "no" /\ Exists(row') /\ storage => storage'
<1>0. lost \in Nat /\ retries \in Nat
  BY TranscriptionAssumption DEF Typed, TypeOK
<1>1. Exists(row') => Exists(row)
  BY OtherSteps, JobSteps
<1>2. ASSUME UNCHANGED <<lost, retries, deleting>>, storage => storage'
      PROVE  /\ lost' = 0 => lost = 0
             /\ retries' = 0 => retries = 0 /\ ~RetryClaims
             /\ deleting' = "no" /\ Exists(row') => deleting = "no"
             /\ deleting' = "no" /\ Exists(row') /\ storage => storage'
  <2>1. RetryClaims => retries' = retries + 1
    BY Zenon DEF RetryClaims
  <2>. QED BY <1>0, <1>2, <2>1
<1>3. CASE SessionStops \/ (\E w \in Reporters : ReporterStep(w)) \/ (\E k \in Hooks : ConnectionBreaks(k))
  <2>1. UNCHANGED <<lost, retries, deleting>>
    BY <1>3 DEF SessionStops, ReporterStep, UploadSucceeds, UploadFails, PostReport, ReportLost, ConnectionBreaks,
       bounds
  <2>2. storage => storage'
    <3>1. CASE SessionStops \/ \E k \in Hooks : ConnectionBreaks(k)
      <4>1. storage' = storage
        BY <3>1 DEF SessionStops, ConnectionBreaks
      <4>. QED BY <4>1, Zenon
    <3>2. ASSUME NEW w \in Reporters, ReportLost(w)
          PROVE  storage => storage'
      <4>1. storage' = storage
        BY <3>2 DEF ReportLost
      <4>. QED BY <4>1, Zenon
    <3>3. ASSUME NEW w \in Reporters, NEW k \in Hooks, PostReport(w, k)
          PROVE  storage => storage'
      <4>1. storage' = storage
        BY <3>3 DEF PostReport
      <4>. QED BY <4>1, Zenon
    <3>4. ASSUME NEW w \in Reporters, UploadSucceeds(w) \/ UploadFails(w)
          PROVE  storage => storage'
      BY <3>4 DEF UploadSucceeds, UploadFails
    <3>. QED BY <1>3, <3>1, <3>2, <3>3, <3>4 DEF ReporterStep
  <2>. QED BY <1>1, <1>2, <2>1, <2>2
<1>4. ASSUME UNCHANGED <<deleting, storage>>, lost' \in {lost, lost + 1},
             \/ retries' = retries /\ ~RetryClaims
             \/ retries' = retries + 1
      PROVE  /\ lost' = 0 => lost = 0
             /\ retries' = 0 => retries = 0 /\ ~RetryClaims
             /\ deleting' = "no" /\ Exists(row') => deleting = "no"
             /\ deleting' = "no" /\ Exists(row') /\ storage => storage'
  <2>1. storage => storage'
    BY <1>4, Zenon
  <2>2. (lost' = 0 => lost = 0) /\ (retries' = 0 => retries = 0 /\ ~RetryClaims)
    BY <1>0, <1>4
  <2>. QED BY <1>4, <2>1, <2>2
<1>5. ASSUME NEW k \in Hooks, HookActs(k)
      PROVE  UNCHANGED <<deleting, storage, retries>> /\ lost' \in {lost, lost + 1}
  BY <1>5 DEF HookActs, HookStep, HookMissesRow, HookFails, HookClaims, HookSubmits, HookSubmitRaises, HookUndoes,
              HookDies, recorder, bounds
<1>6. CASE RetryClaims
  <2>1. UNCHANGED <<deleting, storage, lost>> /\ retries' = retries + 1
    BY <1>6 DEF RetryClaims, recorder
  <2>. QED BY <1>1, <1>4, <2>1
<1>7. CASE (\E p \in ping : ReceivePing(p)) \/ RetryStep \/ Sweep
  <2>1. UNCHANGED <<deleting, storage, lost, retries>>
    BY <1>7 DEF ReceivePing, RetryStep, RetryLists, RetrySubmits, RetryMoves, RetryPosts, RetryFails,
       Sweep, recorder, bounds
  <2>2. storage => storage'
    BY <2>1, Zenon
  <2>. QED BY <1>1, <1>2, <2>1, <2>2
<1>8. CASE DeleteStep
  <2>1. UNCHANGED <<lost, retries, handed>> /\ ~RetryClaims
    BY <1>0, <1>8 DEF DeleteStep, DeleteStarts, DeleteFromStorage, DeleteRow, RetryClaims, bounds
  <2>2. ~(deleting' = "no" /\ Exists(row'))
    BY <1>8, AbsentTyped DEF DeleteStep, DeleteStarts, DeleteFromStorage, DeleteRow
  <2>. QED BY <1>1, <2>1, <2>2
<1>9. ASSUME NEW j \in Jobs, JobActs(j)
      PROVE  UNCHANGED <<deleting, storage, lost, retries>>
  BY <1>9 DEF JobActs, JobStep, JobStarts, JobPays, JobSaves, JobFindsSilence, JobFails, JobHasNothingToIndex,
     JobClearsChunks, JobCommitsIndex, JobRaises, JobDies, JobTimesOut, recorder, bounds
<1>10. CASE UNCHANGED vars
  <2>1. UNCHANGED <<deleting, storage, lost, retries>>
    BY <1>10 DEF vars, recorder, bounds
  <2>2. storage => storage'
    BY <2>1, Zenon
  <2>. QED BY <1>1, <1>2, <2>1, <2>2
<1>11. ASSUME UNCHANGED <<deleting, storage, lost, retries>>
       PROVE  storage => storage'
  BY <1>11, Zenon
<1>12. ASSUME NEW k \in Hooks, HookActs(k)
       PROVE  ~RetryClaims
  <2>1. RetryClaims => retries' = retries + 1
    BY Zenon DEF RetryClaims
  <2>. QED BY <1>0, <1>5, <1>12, <2>1
<1>. QED BY <1>1, <1>2, <1>3, <1>4, <1>5, <1>6, <1>7, <1>8, <1>9, <1>10, <1>11, <1>12 DEF Next, HookActs, JobActs

\* Only the webhook hands over.
LEMMA Quietly ==
    ASSUME Typed, [Next]_vars, \A k \in Hooks : ~HookActs(k)
    PROVE  /\ UNCHANGED <<handed, lost>>
           /\ \A k \in Hooks : HandingOver(k)' <=> HandingOver(k)
<1>0. hook \in [Hooks -> Hook]
  BY DEF Typed, TypeOK
<1>1. CASE SessionStops \/ \E w \in Reporters : UploadSucceeds(w) \/ UploadFails(w) \/ ReportLost(w)
  BY <1>1 DEF SessionStops, UploadSucceeds, UploadFails, ReportLost, bounds, HandingOver
<1>2. ASSUME NEW w \in Reporters, NEW k \in Hooks, PostReport(w, k)
      PROVE  /\ UNCHANGED <<handed, lost>>
             /\ \A l \in Hooks : HandingOver(l)' <=> HandingOver(l)
  BY <1>0, <1>2 DEF PostReport, bounds, HandingOver, FreeHook
<1>3. ASSUME NEW k \in Hooks, ConnectionBreaks(k)
      PROVE  /\ UNCHANGED <<handed, lost>>
             /\ \A l \in Hooks : HandingOver(l)' <=> HandingOver(l)
  BY <1>0, <1>3 DEF ConnectionBreaks, bounds, HandingOver, Hook
<1>4. CASE (\E p \in ping : ReceivePing(p)) \/ RetryClaims \/ RetryStep \/ Sweep \/ DeleteStep \/ UNCHANGED vars
  BY <1>4 DEF ReceivePing, RetryClaims, RetryStep, RetryLists, RetrySubmits, RetryMoves, RetryPosts, RetryFails,
     Sweep, DeleteStep, DeleteStarts, DeleteFromStorage, DeleteRow, vars, bounds, HandingOver
<1>5. ASSUME NEW j \in Jobs, JobActs(j)
      PROVE  UNCHANGED <<handed, lost, hook>>
  BY <1>5 DEF JobActs, JobStep, JobStarts, JobPays, JobSaves, JobFindsSilence, JobFails, JobHasNothingToIndex,
     JobClearsChunks, JobCommitsIndex, JobRaises, JobDies, JobTimesOut, bounds
<1>. QED BY <1>1, <1>2, <1>3, <1>4, <1>5 DEF Next, HookActs, JobActs, ReporterStep, HandingOver

\* What a handler does to the hand-over.
LEMMA HookMoves ==
    ASSUME Typed, NEW k \in Hooks, HookActs(k)
    PROVE  /\ \A l \in Hooks \ {k} : HandingOver(l)' <=> HandingOver(l)
           /\ dropped => dropped' \/ (~HandingOver(k) /\ HandingOver(k)')
           /\ \/ /\ ~HandingOver(k)' /\ (HandingOver(k) => dropped')
                 /\ UNCHANGED <<handed, lost, job>> /\ row' \in {row, FailedReport(row)}
              \/ /\ HandingOver(k) /\ ~HandingOver(k)' /\ HookUndoes(k)
                 /\ UNCHANGED <<handed, lost, job>> /\ row' = UndoCompleted(row)
              \/ /\ ~HandingOver(k) /\ HandingOver(k)' /\ AcceptsCompleted(row) /\ storage
                 /\ UNCHANGED <<handed, lost, job>> /\ row' = CompletedReport(row)
              \/ HandingOver(k) /\ HandingOver(k)' /\ UNCHANGED <<handed, lost, job, row>>
              \/ /\ HandingOver(k) /\ UNCHANGED row /\ handed' = handed + 1
                 /\ lost' = lost + 1 \/ (lost' = lost /\ ~HandingOver(k)')
                 /\ \E j \in Jobs : job[j] = FreeJob /\ job' = [job EXCEPT ![j] = NewJob]
<1>0. hook \in [Hooks -> Hook] /\ FreeHook.pc = "free"
  BY DEF Typed, TypeOK, FreeHook
<1>1. ASSUME NEW ok \in BOOLEAN, Answers(k, ok)
      PROVE  ~HandingOver(k)' /\ \A l \in Hooks \ {k} : HandingOver(l)' <=> HandingOver(l)
  BY <1>0, <1>1 DEF Answers, HandingOver
<1>2. ASSUME NEW pc \in {"submitting", "undoing"}, hook' = [hook EXCEPT ![k].pc = pc]
      PROVE  HandingOver(k)' /\ \A l \in Hooks \ {k} : HandingOver(l)' <=> HandingOver(l)
  BY <1>0, <1>2 DEF HandingOver, Hook
<1>3. CASE HookMissesRow(k) \/ HookFails(k)
  <2>1. UNCHANGED dropped
    BY <1>3 DEF HookMissesRow, HookFails, result
  <2>2. dropped => dropped'
    BY <2>1, Written
  <2>. QED BY <1>1, <1>3, <2>2 DEF HookMissesRow, HookFails, HandingOver, bounds
<1>8. CASE HookDies(k)
  <2>. DEFINE hands == HandingOver(k)
  <2>1. Drops(hands) /\ hands \in BOOLEAN
    BY <1>8 DEF HookDies, HandingOver
  <2>2. (dropped => dropped') /\ (HandingOver(k) => dropped')
    <3>1. dropped \/ hands => dropped'
      <4>. HIDE DEF hands
      <4>. QED BY <2>1, Written
    <3>. QED BY <3>1
  <2>. QED BY <1>1, <1>8, <2>2 DEF HookDies, bounds
<1>4. CASE HookClaims(k)
  <2>1. CASE AcceptsCompleted(row)
    BY <1>2, <1>4, <2>1 DEF HookClaims, HandingOver, bounds
  <2>2. CASE ~AcceptsCompleted(row)
    <3>. DEFINE accepts == AcceptsCompleted(row)
    <3>1. Claims(accepts) /\ accepts \in BOOLEAN
      BY <1>4 DEF HookClaims, AcceptsCompleted
    <3>2. dropped => dropped'
      <4>1. ~accepts
        BY <2>2
      <4>. HIDE DEF accepts
      <4>. QED BY <3>1, <4>1, Written
    <3>. QED BY <1>1, <1>4, <2>2, <3>2 DEF HookClaims, CompletedReport, HandingOver, bounds
  <2>. QED BY <2>1, <2>2
<1>9. UNCHANGED dropped => (dropped => dropped')
  BY Written
<1>5. CASE HookSubmits(k)
  BY <1>1, <1>2, <1>5, <1>9 DEF HookSubmits, HandingOver, result
<1>6. CASE HookSubmitRaises(k)
  BY <1>2, <1>6, <1>9 DEF HookSubmitRaises, HandingOver, bounds, result
<1>7. CASE HookUndoes(k)
  BY <1>1, <1>7, <1>9 DEF HookUndoes, HandingOver, bounds
<1>. QED BY <1>3, <1>4, <1>5, <1>6, <1>7, <1>8 DEF HookActs, HookStep

\* The row of a recording that was handed over, or is being handed over.
Marked(r) == r.url /\ r.status \in {"transcribing", "completed", "failed"}

\* It is accepted no more, and only an undo, or the re-upload of a retry, unmarks it.
LEMMA MarkedStands ==
    ASSUME NEW r \in RowType, Marked(r)
    PROVE  /\ ~AcceptsCompleted(r)
           /\ Marked(ForceFailed(r)) /\ Marked(Swept(r)) /\ Marked(RetryClaimed(r))
           /\ Marked(ReuploadRefused(r)) /\ Marked(ReuploadFailed(r)) /\ Marked(AdmissionPing(r))
           /\ Marked(RecordingPing(r)) /\ Marked(CompletedReport(r)) /\ Marked(FailedReport(r))
           /\ Marked(Completed(r))
BY DEF RowType, Marked, ForceFailed, Swept, RetryClaimed, ReuploadRefused,
       ReuploadFailed, AdmissionPing, RecordingPing, CompletedReport, AcceptsCompleted,
       FailedReport, Completed, Exists, Status, NonTerminal

LEMMA MarkedKept ==
    ASSUME Typed, [Next]_vars, Marked(row), Exists(row'), ~RetryMoves, \A k \in Hooks : ~HookUndoes(k)
    PROVE  Marked(row')
<1>0. row \in RowType
  BY DEF Typed, TypeOK
<1>1. CASE UNCHANGED row
  BY <1>1
<1>2. CASE SessionStops \/ (\E w \in Reporters : ReporterStep(w)) \/ (\E k \in Hooks : ConnectionBreaks(k))
  BY <1>1, <1>2 DEF SessionStops, ReporterStep, UploadSucceeds, UploadFails, PostReport, ReportLost, ConnectionBreaks
<1>3. ASSUME NEW k \in Hooks, HookActs(k)
      PROVE  Marked(row')
  BY <1>0, <1>3, HookMoves, MarkedStands
<1>4. CASE (\E p \in ping : ReceivePing(p)) \/ RetryClaims \/ RetryStep \/ Sweep
  <2>1. row' \in {row, ForceFailed(row), Swept(row), RetryClaimed(row), ReuploadFailed(row),
                  AdmissionPing(row), RecordingPing(row)}
    BY <1>4 DEF ReceivePing, RetryClaims, RetryStep, RetryLists, RetrySubmits, RetryPosts, RetryFails, Sweep
  <2>. QED BY <1>0, <2>1, MarkedStands
<1>5. CASE DeleteStep
  BY <1>1, <1>5, AbsentTyped DEF DeleteStep, DeleteStarts, DeleteFromStorage, DeleteRow
<1>6. ASSUME NEW j \in Jobs, JobActs(j)
      PROVE  Marked(row')
  <2>1. row' \in {row, ForceFailed(row), Completed(row)}
    BY <1>6 DEF JobActs, JobStep, JobStarts, JobPays, JobSaves, JobFindsSilence, JobFails, JobHasNothingToIndex,
       JobClearsChunks, JobCommitsIndex, JobRaises, JobDies, JobTimesOut, Done, MarkFailed
  <2>. QED BY <1>0, <2>1, MarkedStands
<1>. QED BY <1>1, <1>2, <1>3, <1>4, <1>5, <1>6 DEF Next, HookActs, JobActs, vars

Unretried == retries = 0 => retry = "idle"

LEMMA UnretriedKept == Typed /\ Unretried /\ [Next]_vars => Unretried'
<1>. SUFFICES ASSUME Typed, Unretried, [Next]_vars, retries' = 0 PROVE retry' = "idle"
  BY DEF Unretried
<1>1. retries = 0 /\ ~RetryClaims /\ retry = "idle"
  BY Watching DEF Unretried
<1>2. CASE SessionStops \/ (\E w \in Reporters : ReporterStep(w)) \/ (\E k \in Hooks : ConnectionBreaks(k))
  BY <1>1, <1>2 DEF SessionStops, ReporterStep, UploadSucceeds, UploadFails, PostReport, ReportLost, ConnectionBreaks
<1>3. ASSUME NEW k \in Hooks, HookStep(k) \/ HookDies(k)
      PROVE  retry' = retry
  BY <1>3 DEF HookStep, HookMissesRow, HookFails, HookClaims, HookSubmits, HookSubmitRaises, HookUndoes, HookDies
<1>4. CASE (\E p \in ping : ReceivePing(p)) \/ RetryStep \/ Sweep \/ DeleteStep \/ UNCHANGED vars
  BY <1>1, <1>4 DEF ReceivePing, RetryStep, RetryLists, RetrySubmits, RetryMoves, RetryPosts, RetryFails,
     Sweep, DeleteStep, DeleteStarts, DeleteFromStorage, DeleteRow, vars
<1>5. ASSUME NEW j \in Jobs, JobStep(j) \/ JobDies(j) \/ JobTimesOut(j)
      PROVE  retry' = retry
  BY <1>5 DEF JobStep, JobStarts, JobPays, JobSaves, JobFindsSilence, JobFails, JobHasNothingToIndex,
     JobClearsChunks, JobCommitsIndex, JobRaises, JobDies, JobTimesOut
<1>. QED BY <1>1, <1>2, <1>3, <1>4, <1>5 DEF Next

\* The file is there as long as the meeting is, once somebody works on it.
AtWork == handed # 0 \/ Handing # {} \/ Busy # {} \/ retry = "submitting"
FileKept == deleting = "no" /\ Exists(row) /\ AtWork => storage

\* Who is at work now was at work before, or found the file.
LEMMA WorkStarts ==
    ASSUME Typed, [Next]_vars, AtWork'
    PROVE  AtWork \/ (storage /\ UNCHANGED storage)
<1>. SUFFICES ASSUME handed = 0, Handing = {}, Busy = {}, retry # "submitting"
              PROVE  storage /\ UNCHANGED storage
  BY DEF AtWork
<1>0. hook \in [Hooks -> Hook] /\ job \in [Jobs -> Job] /\ \A j \in Jobs : job[j].pc = "free"
  BY DEF Typed, TypeOK, Busy
<1>1. ASSUME NEW k \in Hooks, HookActs(k)
      PROVE  storage /\ UNCHANGED storage
  <2>1. retry' = retry /\ UNCHANGED storage
    BY <1>1 DEF HookActs, HookStep, HookMissesRow, HookFails, HookClaims, HookSubmits, HookSubmitRaises,
       HookUndoes, HookDies, recorder
  <2>2. ~HandingOver(k) /\ \A l \in Hooks : ~HandingOver(l)
    BY DEF Handing
  <2>3. UNCHANGED <<handed, job>>
    BY <1>1, <2>2, HookMoves DEF HookUndoes
  <2>4. \E l \in Hooks : HandingOver(l)'
    BY <2>1, <2>3 DEF AtWork, Handing, Busy
  <2>5. HandingOver(k)'
    BY <1>1, <2>2, <2>4, HookMoves
  <2>. QED BY <1>1, <2>1, <2>2, <2>5, HookMoves
<1>2. ASSUME \A k \in Hooks : ~HookActs(k), UNCHANGED job, UNCHANGED retry
      PROVE  FALSE
  BY <1>2, Quietly DEF AtWork, Handing, Busy
<1>3. CASE SessionStops \/ (\E w \in Reporters : ReporterStep(w)) \/ (\E k \in Hooks : ConnectionBreaks(k))
  BY <1>1, <1>2, <1>3 DEF SessionStops, ReporterStep, UploadSucceeds, UploadFails, PostReport, ReportLost,
     ConnectionBreaks
<1>4. CASE (\E p \in ping : ReceivePing(p)) \/ Sweep \/ DeleteStep \/ UNCHANGED vars
  BY <1>1, <1>2, <1>4 DEF ReceivePing, Sweep, DeleteStep, DeleteStarts, DeleteFromStorage, DeleteRow, vars
<1>5. ASSUME NEW j \in Jobs, JobActs(j)
      PROVE  FALSE
  BY <1>0, <1>5, JobBecomes DEF JobActs, Becomes
<1>6. CASE RetryClaims \/ RetryStep
  <2>1. CASE \E k \in Hooks : HookActs(k)
    BY <1>1, <2>1
  <2>2. CASE \A k \in Hooks : ~HookActs(k)
    <3>1. retry' = "submitting" \/ ~UNCHANGED job
      BY <2>2, Quietly DEF AtWork, Handing, Busy
    <3>2. RetryLists /\ storage
      BY <1>6, <3>1 DEF RetryClaims, RetryStep, RetryLists, RetrySubmits, RetryMoves, RetryPosts, RetryFails
    <3>. QED BY <3>2 DEF RetryLists, recorder
  <2>. QED BY <2>1, <2>2
<1>. QED BY <1>1, <1>3, <1>4, <1>5, <1>6 DEF Next, HookActs, JobActs

LEMMA FileStays == Typed /\ FileKept /\ [Next]_vars => FileKept'
<1>. SUFFICES ASSUME Typed, FileKept, [Next]_vars, deleting' = "no", Exists(row'), AtWork'
              PROVE  storage'
  BY DEF FileKept
<1>1. CASE AtWork
  <2>1. deleting = "no" /\ Exists(row) /\ (storage => storage')
    BY Watching
  <2>2. storage
    BY <1>1, <2>1 DEF FileKept
  <2>. QED BY <2>1, <2>2
<1>2. CASE storage /\ UNCHANGED storage
  BY <1>2, Zenon
<1>. QED BY <1>1, <1>2, WorkStarts

-----------------------------------------------------------------------------
\* Up to here nobody loses track of the hand-over: no enqueue landed and raised,
\* and no delete takes the file while a retry goes on.
Watched == Exists(row) /\ lost = 0 /\ (deleting = "no" \/ retries = 0)

\* A retry that finds no file is ahead of any hand-over, and the row waits for it.
FirstUpload ==
    Watched /\ deleting = "no" /\ (retry = "moving" \/ (retry = "listing" /\ ~storage)) =>
        row.status = "transcribing" /\ handed = 0 /\ Handing = {} /\ Busy = {}

\* A recording that is being handed over, or was, is marked as such on its row.
AcceptedIsMarked == Watched /\ (handed # 0 \/ Handing # {}) => Marked(row)

\* One request hands over at a time, and none after the first did.
OneHandOver ==
    Watched => /\ \A k, l \in Handing : k = l
               /\ Handing # {} => handed = 0
               /\ handed <= 1

LEMMA WatchedBefore ==
    ASSUME Typed, [Next]_vars, Watched'
    PROVE  Watched /\ (deleting' = "no" => deleting = "no" /\ (storage => storage'))
BY Watching DEF Watched

LEMMA FirstUploadKept ==
    ASSUME Typed, FileKept, FirstUpload, [Next]_vars
    PROVE  FirstUpload'
<1>. SUFFICES ASSUME Watched', deleting' = "no", retry' = "moving" \/ (retry' = "listing" /\ ~storage')
              PROVE  row'.status = "transcribing" /\ handed' = 0 /\ Handing' = {} /\ Busy' = {}
  BY DEF FirstUpload
<1>. DEFINE Waits == row.status = "transcribing" /\ handed = 0 /\ Handing = {} /\ Busy = {}
<1>0. Watched /\ Exists(row) /\ deleting = "no" /\ (storage => storage')
  BY WatchedBefore DEF Watched
<1>1. CASE RetryClaims
  <2>1. retry' = "listing" /\ row.status = "failed" /\ row' = RetryClaimed(row)
        /\ UNCHANGED <<storage, hook, job, handed>>
    BY <1>1 DEF RetryClaims, recorder
  <2>2. ~storage
    <3>1. ~storage'
      BY <2>1
    <3>2. storage' = storage
      BY <2>1
    <3>. QED BY <3>1, <3>2, Zenon
  <2>3. ~AtWork
    BY <1>0, <2>2 DEF FileKept
  <2>4. row'.status = "transcribing"
    BY <2>1 DEF RetryClaimed, Typed, TypeOK, RowType
  <2>. QED BY <2>1, <2>3, <2>4 DEF AtWork, Handing, Busy, HandingOver
<1>2. ASSUME UNCHANGED retry
      PROVE  Waits
  BY <1>0, <1>2 DEF FirstUpload
<1>3. ASSUME NEW k \in Hooks, HookActs(k)
      PROVE  row'.status = "transcribing" /\ handed' = 0 /\ Handing' = {} /\ Busy' = {}
  <2>1. UNCHANGED retry
    BY <1>3 DEF HookActs, HookStep, HookMissesRow, HookFails, HookClaims, HookSubmits, HookSubmitRaises,
       HookUndoes, HookDies
  <2>2. Waits /\ \A l \in Hooks : ~HandingOver(l)
    BY <1>2, <2>1 DEF Handing
  <2>3. row' \in {row, FailedReport(row)} /\ UNCHANGED <<handed, job>> /\ \A l \in Hooks : ~HandingOver(l)'
    BY <1>3, <2>2, HookMoves DEF AcceptsCompleted
  <2>. QED BY <2>2, <2>3 DEF FailedReport, Handing, Busy
<1>4. CASE SessionStops \/ (\E w \in Reporters : ReporterStep(w)) \/ (\E k \in Hooks : ConnectionBreaks(k))
  <2>1. UNCHANGED <<row, job, retry>>
    BY <1>4 DEF SessionStops, ReporterStep, UploadSucceeds, UploadFails, PostReport, ReportLost, ConnectionBreaks
  <2>2. CASE \A k \in Hooks : ~HookActs(k)
    BY <1>2, <2>1, <2>2, Quietly DEF Handing, Busy
  <2>. QED BY <1>3, <2>2
<1>5. CASE RetryLists
  <2>1. retry = "listing" /\ UNCHANGED <<row, storage, hook, job, handed>> /\ retry' = "moving"
        /\ (retry' = IF storage THEN "submitting" ELSE "moving")
    BY <1>5 DEF RetryLists, recorder, bounds
  <2>2. Waits
    BY <1>0, <2>1 DEF FirstUpload
  <2>. QED BY <2>1, <2>2 DEF Handing, Busy, HandingOver
<1>6. CASE RetrySubmits \/ RetryMoves \/ RetryPosts \/ RetryFails
  BY <1>6 DEF RetrySubmits, RetryMoves, RetryPosts, RetryFails
<1>7. CASE (\E p \in ping : ReceivePing(p)) \/ Sweep \/ DeleteStep \/ UNCHANGED vars
  <2>1. UNCHANGED <<retry, hook, job, handed>>
    BY <1>7 DEF ReceivePing, Sweep, DeleteStep, DeleteStarts, DeleteFromStorage, DeleteRow, vars
  <2>2. row' \in {row, AdmissionPing(row), RecordingPing(row)}
    <3>1. ~Sweep
      BY <1>0, <2>1 DEF Sweep, Overdue
    <3>2. ~DeleteRow
      BY <1>0 DEF DeleteRow
    <3>. QED BY <1>7, <3>1, <3>2 DEF ReceivePing, DeleteStep, DeleteStarts, DeleteFromStorage, vars
  <2>3. Waits
    BY <1>2, <2>1
  <2>. QED BY <2>1, <2>2, <2>3 DEF AdmissionPing, RecordingPing, Handing, Busy, HandingOver
<1>8. ASSUME NEW j \in Jobs, JobActs(j)
      PROVE  FALSE
  <2>1. UNCHANGED retry
    BY <1>8 DEF JobActs, JobStep, JobStarts, JobPays, JobSaves, JobFindsSilence, JobFails, JobHasNothingToIndex,
       JobClearsChunks, JobCommitsIndex, JobRaises, JobDies, JobTimesOut
  <2>. QED BY <1>2, <1>8, <2>1, JobBecomes DEF JobActs, Becomes, Busy
<1>. QED BY <1>1, <1>3, <1>4, <1>5, <1>6, <1>7, <1>8 DEF Next, HookActs, JobActs, RetryStep

\* While the hand-over is watched, the retry's re-upload comes before it.
LEMMA MovesBefore ==
    ASSUME Unretried, FirstUpload, Watched, RetryMoves
    PROVE  handed = 0 /\ Handing = {} /\ Busy = {}
BY DEF Unretried, FirstUpload, Watched, RetryMoves

LEMMA MarkIsKept ==
    ASSUME Typed, Unretried, FirstUpload, AcceptedIsMarked, OneHandOver, [Next]_vars
    PROVE  AcceptedIsMarked'
<1>. SUFFICES ASSUME Watched', handed' # 0 \/ Handing' # {}
              PROVE  Marked(row)'
  BY DEF AcceptedIsMarked
<1>0. Watched /\ row \in RowType
  BY WatchedBefore DEF Typed, TypeOK
<1>1. ASSUME NEW k \in Hooks, HookActs(k)
      PROVE  Marked(row)'
  <2>1. CASE HandingOver(k) /\ ~HandingOver(k)' /\ HookUndoes(k)
             /\ UNCHANGED <<handed, lost, job>>
    BY <1>0, <1>1, <2>1, HookMoves DEF OneHandOver, Handing
  <2>2. CASE AcceptsCompleted(row) /\ row' = CompletedReport(row)
    BY <1>0, <2>2 DEF CompletedReport, Marked, RowType
  <2>3. CASE ~HandingOver(k)' /\ UNCHANGED handed /\ row' \in {row, FailedReport(row)}
    <3>1. handed # 0 \/ Handing # {}
      BY <1>1, <2>3, HookMoves DEF Handing
    <3>2. Marked(row)
      BY <1>0, <3>1 DEF AcceptedIsMarked
    <3>. QED BY <1>0, <2>3, <3>2, MarkedStands
  <2>4. CASE HandingOver(k) /\ UNCHANGED row
    BY <1>0, <2>4 DEF AcceptedIsMarked, Handing
  <2>. QED BY <1>1, <2>1, <2>2, <2>3, <2>4, HookMoves
<1>2. CASE \A k \in Hooks : ~HookActs(k)
  <2>1. handed # 0 \/ Handing # {}
    BY <1>2, Quietly DEF Handing
  <2>2. Marked(row) /\ ~RetryMoves
    BY <1>0, <2>1, MovesBefore DEF AcceptedIsMarked
  <2>3. Marked(row')
    BY <1>2, <2>2, MarkedKept DEF Watched, HookActs, HookStep
  <2>. QED BY <2>3 DEF Marked
<1>. QED BY <1>1, <1>2

LEMMA HandOverKept ==
    ASSUME Typed, AcceptedIsMarked, OneHandOver, [Next]_vars
    PROVE  OneHandOver'
<1>. SUFFICES ASSUME Watched'
              PROVE  /\ \A k, l \in Handing' : k = l
                     /\ Handing' # {} => handed' = 0
                     /\ handed' <= 1
  BY DEF OneHandOver
<1>0. /\ Watched /\ handed \in Nat /\ lost \in Nat /\ lost = 0 /\ lost' = 0 /\ row \in RowType
      /\ \A k, l \in Hooks : HandingOver(k) /\ HandingOver(l) => k = l
      /\ \A k \in Hooks : HandingOver(k) => handed = 0
      /\ handed <= 1
  BY WatchedBefore, TranscriptionAssumption DEF Typed, TypeOK, Watched, OneHandOver, Handing
<1>1. SUFFICES /\ \A k, l \in Hooks : HandingOver(k)' /\ HandingOver(l)' => k = l
               /\ \A k \in Hooks : HandingOver(k)' => handed' = 0
               /\ handed' <= 1
  BY DEF Handing
<1>2. ASSUME NEW k \in Hooks, HookActs(k)
      PROVE  /\ \A i, l \in Hooks : HandingOver(i)' /\ HandingOver(l)' => i = l
             /\ \A i \in Hooks : HandingOver(i)' => handed' = 0
             /\ handed' <= 1
  <2>1. \A l \in Hooks \ {k} : HandingOver(l)' <=> HandingOver(l)
    BY <1>2, HookMoves
  <2>2. CASE UNCHANGED handed /\ (HandingOver(k)' => HandingOver(k))
    BY <1>0, <2>1, <2>2
  <2>3. CASE AcceptsCompleted(row) /\ UNCHANGED handed
    <3>1. handed = 0 /\ \A l \in Hooks : ~HandingOver(l)
      BY <1>0, <2>3, MarkedStands DEF AcceptedIsMarked, Handing
    <3>. QED BY <2>1, <2>3, <3>1
  <2>4. CASE HandingOver(k) /\ handed' = handed + 1 /\ (lost' = lost + 1 \/ ~HandingOver(k)')
    BY <1>0, <2>1, <2>4
  <2>. QED BY <1>2, <2>2, <2>3, <2>4, HookMoves
<1>3. CASE \A k \in Hooks : ~HookActs(k)
  BY <1>0, <1>3, Quietly
<1>. QED BY <1>2, <1>3

LEMMA HandedMeans == OneHandOver => (lost = 0 => HandedOverOnce)
BY DEF OneHandOver, Watched, HandedOverOnce

-----------------------------------------------------------------------------
(* The claim has work.                                                     *)

\* Before the first retry there is one job, the one that was handed over; only it
\* writes a transcript, and the row is then past "transcribing" for good.
OneJob ==
    Exists(row) /\ lost = 0 /\ retries = 0 =>
        /\ \A i, j \in Busy : i = j
        /\ Busy # {} => handed # 0
        /\ transcript # "none" => handed # 0 /\ row.status \in {"completed", "failed"}
        /\ \A j \in Jobs : job[j].pc \in INDEXING => transcript # "none"

\* The steps of neither a job nor a handler, before the first retry.
LEMMA Elsewhere ==
    ASSUME Typed, Unretried, [Next]_vars, Exists(row'), retries' = 0,
           \A j \in Jobs : ~JobActs(j), \A k \in Hooks : ~HookActs(k)
    PROVE  /\ UNCHANGED <<job, dropped>>
           /\ row' \in {row, Swept(row), AdmissionPing(row), RecordingPing(row)}
<1>1. ~RetryClaims /\ retry = "idle"
  BY Watching DEF Unretried
<1>2. CASE SessionStops \/ (\E w \in Reporters : ReporterStep(w)) \/ (\E k \in Hooks : ConnectionBreaks(k))
  BY <1>2 DEF SessionStops, ReporterStep, UploadSucceeds, UploadFails, PostReport, ReportLost, ConnectionBreaks,
     result
<1>3. CASE (\E p \in ping : ReceivePing(p)) \/ RetryStep \/ Sweep \/ UNCHANGED vars
  BY <1>1, <1>3 DEF ReceivePing, RetryStep, RetryLists, RetrySubmits, RetryMoves, RetryPosts, RetryFails,
     Sweep, vars, result
<1>4. CASE DeleteStep
  BY <1>4, AbsentTyped DEF DeleteStep, DeleteStarts, DeleteFromStorage, DeleteRow, result
<1>. QED BY <1>1, <1>2, <1>3, <1>4 DEF Next, HookActs, JobActs

\* The transcript is first written by a job, which completes the row.
LEMMA FirstSaved ==
    ASSUME Typed, NEW j \in Jobs, JobActs(j), transcript = "none", transcript' # "none", Exists(row)
    PROVE  job[j].pc \in INDEXING \/ row'.status = "completed"
BY DEF JobActs, JobStep, JobStarts, JobPays, JobSaves, JobFindsSilence, JobFails, JobHasNothingToIndex,
       JobClearsChunks, JobCommitsIndex, JobRaises, JobDies, JobTimesOut, result, Completed, INDEXING,
       Typed, TypeOK, RowType

LEMMA OneJobKept ==
    ASSUME Typed, Unretried, AcceptedIsMarked, OneHandOver, OneJob, [Next]_vars
    PROVE  OneJob'
<1>. SUFFICES ASSUME Exists(row'), lost' = 0, retries' = 0
              PROVE  /\ \A i, j \in Busy' : i = j
                     /\ Busy' # {} => handed' # 0
                     /\ transcript' # "none" => handed' # 0 /\ row'.status \in {"completed", "failed"}
                     /\ \A j \in Jobs : job'[j].pc \in INDEXING => transcript' # "none"
  BY DEF OneJob, Exists
<1>0. /\ Exists(row) /\ lost = 0 /\ retries = 0 /\ retry = "idle" /\ Watched
      /\ row \in RowType /\ handed \in Nat /\ job \in [Jobs -> Job]
  BY Watching DEF Unretried, Watched, Typed, TypeOK
<1>1. /\ \A i, j \in Jobs : job[i].pc # "free" /\ job[j].pc # "free" => i = j
      /\ \A j \in Jobs : job[j].pc # "free" => handed # 0
      /\ transcript # "none" => handed # 0 /\ row.status \in {"completed", "failed"}
      /\ \A j \in Jobs : job[j].pc \in INDEXING => transcript # "none"
  BY <1>0 DEF OneJob, Busy
<1>2. SUFFICES /\ \A i, j \in Jobs : job'[i].pc # "free" /\ job'[j].pc # "free" => i = j
               /\ \A j \in Jobs : job'[j].pc # "free" => handed' # 0
               /\ transcript' # "none" => handed' # 0 /\ row'.status \in {"completed", "failed"}
               /\ \A j \in Jobs : job'[j].pc \in INDEXING => transcript' # "none"
  BY DEF Busy
<1>3. ASSUME \A j \in Jobs : ~JobActs(j)
      PROVE  UNCHANGED transcript
  BY <1>3, OtherSteps
<1>4. ASSUME NEW k \in Hooks, HookActs(k)
      PROVE  UNCHANGED transcript
  BY <1>4 DEF HookActs, HookStep, HookMissesRow, HookFails, HookClaims, HookSubmits, HookSubmitRaises,
     HookUndoes, HookDies, result
<1>5. ASSUME NEW k \in Hooks, HookActs(k)
      PROVE  /\ \A i, j \in Jobs : job'[i].pc # "free" /\ job'[j].pc # "free" => i = j
             /\ \A j \in Jobs : job'[j].pc # "free" => handed' # 0
             /\ transcript' # "none" => handed' # 0 /\ row'.status \in {"completed", "failed"}
             /\ \A j \in Jobs : job'[j].pc \in INDEXING => transcript' # "none"
  <2>1. CASE UNCHANGED <<handed, lost, job>> /\ row' \in {row, FailedReport(row)}
    <3>1. row.status \in {"completed", "failed"} => row'.status \in {"completed", "failed"}
      BY <1>0, <2>1 DEF FailedReport, RowType
    <3>2. UNCHANGED <<transcript, handed, job>>
      BY <1>4, <1>5, <2>1
    <3>. QED BY <1>1, <3>1, <3>2
  <2>2. CASE HandingOver(k) /\ UNCHANGED <<handed, lost, job>>
    <3>1. handed = 0
      BY <1>0, <2>2 DEF OneHandOver, Handing
    <3>. QED BY <1>1, <1>4, <1>5, <2>2, <3>1
  <2>3. CASE AcceptsCompleted(row) /\ UNCHANGED <<handed, lost, job>>
    <3>1. handed = 0
      BY <1>0, <2>3, MarkedStands DEF AcceptedIsMarked
    <3>. QED BY <1>1, <1>4, <1>5, <2>3, <3>1
  <2>4. CASE /\ HandingOver(k) /\ UNCHANGED row /\ handed' = handed + 1
             /\ \E j \in Jobs : job[j] = FreeJob /\ job' = [job EXCEPT ![j] = NewJob]
    <3>1. handed = 0 /\ transcript' = "none"
      BY <1>0, <1>1, <1>4, <1>5, <2>4 DEF OneHandOver, Handing
    <3>2. PICK j \in Jobs : job' = [job EXCEPT ![j] = NewJob]
      BY <2>4
    <3>3. \A i \in Jobs : job'[i] = IF i = j THEN NewJob ELSE job[i]
      BY <1>0, <3>2
    <3>. QED BY <1>0, <1>1, <2>4, <3>1, <3>3, NewJobTyped DEF INDEXING
  <2>. QED BY <1>5, <2>1, <2>2, <2>3, <2>4, HookMoves
<1>6. CASE (\A j \in Jobs : ~JobActs(j)) /\ (\A k \in Hooks : ~HookActs(k))
  <2>1. UNCHANGED <<handed, transcript, job>> /\ row' \in {row, Swept(row), AdmissionPing(row), RecordingPing(row)}
    BY <1>3, <1>6, Quietly, Elsewhere
  <2>. QED BY <1>1, <2>1 DEF Swept, NonTerminal, AdmissionPing, RecordingPing
<1>7. ASSUME NEW j \in Jobs, JobActs(j), \A k \in Hooks : ~HookActs(k)
      PROVE  /\ \A i, l \in Jobs : job'[i].pc # "free" /\ job'[l].pc # "free" => i = l
             /\ \A l \in Jobs : job'[l].pc # "free" => handed' # 0
             /\ transcript' # "none" => handed' # 0 /\ row'.status \in {"completed", "failed"}
             /\ \A l \in Jobs : job'[l].pc \in INDEXING => transcript' # "none"
  <2>1. PICK v : Becomes(j, v)
    BY <1>7, JobBecomes DEF JobActs
  <2>2. \A i \in Jobs : job'[i] = IF i = j THEN v ELSE job[i]
    BY <1>0, <2>1 DEF Becomes
  <2>3. job[j].pc # "free" /\ handed # 0 /\ UNCHANGED handed
    BY <1>1, <1>7, <2>1, Quietly DEF Becomes
  <2>4. row' \in {row, ForceFailed(row), Completed(row)}
    BY <1>7 DEF JobActs, JobStep, JobStarts, JobPays, JobSaves, JobFindsSilence, JobFails, JobHasNothingToIndex,
       JobClearsChunks, JobCommitsIndex, JobRaises, JobDies, JobTimesOut, Done, MarkFailed
  <2>5. transcript' # "none" => row'.status \in {"completed", "failed"}
    <3>1. CASE transcript # "none"
      BY <1>0, <1>1, <2>4, <3>1 DEF ForceFailed, Completed, RowType
    <3>2. CASE transcript = "none"
      BY <1>0, <1>1, <1>7, <3>2, FirstSaved
    <3>. QED BY <3>1, <3>2
  <2>6. \A l \in Jobs : job'[l].pc \in INDEXING => transcript' # "none"
    BY <1>0, <1>1, <1>7, <2>1, <2>2, JobSteps DEF Becomes
  <2>. QED BY <1>1, <2>2, <2>3, <2>5, <2>6
<1>. QED BY <1>5, <1>6, <1>7

\* A job that ends has moved the row on, or dropped its outcome.
LEMMA JobEnds ==
    ASSUME Typed, OneJob, NEW j \in Jobs, JobActs(j), job'[j].pc = "free",
           Exists(row), lost = 0, retries = 0, ~dropped'
    PROVE  row'.status # "transcribing"
<1>0. job \in [Jobs -> Job] /\ job[j] \in Job /\ row \in RowType
  BY DEF Typed, TypeOK
<1>1. /\ transcript # "none" => row.status \in {"completed", "failed"}
      /\ job[j].pc \in INDEXING => transcript # "none"
  BY DEF OneJob
<1>2. ForceFailed(row).status # "transcribing" /\ Completed(row).status # "transcribing"
  BY <1>0 DEF ForceFailed, Completed, RowType
<1>3. CASE JobStarts(j)
  <2>1. CASE row' = row /\ row.status = "completed"
    BY <2>1
  <2>2. CASE row' = ForceFailed(row)
    BY <1>2, <2>2
  <2>3. CASE transcript # "none" /\ row' = row
    BY <1>1, <2>3
  <2>4. CASE job' = [job EXCEPT ![j].pc = "transcribing", ![j].resumed = FALSE]
    BY <1>0, <2>4 DEF Job
  <2>. QED BY <1>3, <2>1, <2>2, <2>3, <2>4 DEF JobStarts, MarkFailed
<1>4. CASE JobPays(j)
  BY <1>0, <1>4 DEF JobPays, Job
<1>5. CASE JobSaves(j) \/ JobFindsSilence(j) \/ JobFails(j)
  BY <1>2, <1>5 DEF JobSaves, JobFindsSilence, JobFails, MarkFailed
<1>6. CASE JobHasNothingToIndex(j) \/ JobClearsChunks(j) \/ JobCommitsIndex(j)
  <2>1. row' \in {row, Completed(row)} /\ job[j].pc \in INDEXING
    BY <1>6 DEF JobHasNothingToIndex, JobClearsChunks, JobCommitsIndex, Done, INDEXING
  <2>. QED BY <1>1, <1>2, <2>1
<1>7. ~(job' = NextTry(j))
  <2>. DEFINE v == [NewJob EXCEPT !.try = job[j].try + 1, !.stored = job[j].stored]
  <2>1. v.pc = "queued"
    BY DEF NewJob, FreeJob
  <2>2. NextTry(j) = [job EXCEPT ![j] = v]
    BY DEF NextTry
  <2>. HIDE DEF v
  <2>. QED BY <1>0, <2>1, <2>2
<1>8. CASE JobRaises(j)
  <2>. DEFINE unheard == job[j].try = 0
  <2>1. ~Retries(j) /\ Drops(unheard) /\ unheard \in BOOLEAN
    BY <1>7, <1>8 DEF JobRaises
  <2>2. job[j].try # 0
    <3>1. ~unheard
      <4>. HIDE DEF unheard
      <4>. QED BY <2>1, Written
    <3>. QED BY <3>1
  <2>. QED BY <1>1, <1>2, <1>8, <2>1, <2>2 DEF JobRaises, MarkFailed
<1>9. ~JobDies(j)
  <2>. DEFINE ends == ~Retries(j)
  <2>1. ASSUME JobDies(j)
        PROVE  ends /\ Drops(ends) /\ ends \in BOOLEAN
    BY <1>7, <2>1 DEF JobDies
  <2>. HIDE DEF ends
  <2>. QED BY <2>1, Written
<1>10. ~JobTimesOut(j)
  BY <1>0 DEF JobTimesOut, Running, Job
<1>. QED BY <1>3, <1>4, <1>5, <1>6, <1>8, <1>9, <1>10 DEF JobActs, JobStep

ClaimIsBusy == lost = 0 => ClaimHasWork

LEMMA ClaimKept ==
    ASSUME Typed, Unretried, OneJob, ClaimIsBusy, [Next]_vars
    PROVE  ClaimIsBusy'
<1>. SUFFICES ASSUME row'.status = "transcribing", lost' = 0, retries' = 0, ~dropped'
              PROVE  \/ \E j \in Jobs : job'[j].pc # "free"
                     \/ \E k \in Hooks : HandingOver(k)'
  BY DEF ClaimIsBusy, ClaimHasWork
<1>0. /\ Exists(row') /\ Exists(row) /\ lost = 0 /\ retries = 0
      /\ row \in RowType /\ job \in [Jobs -> Job]
  BY Watching DEF Exists, Typed, TypeOK
<1>1. ASSUME row.status = "transcribing", ~dropped
      PROVE  (\E j \in Jobs : job[j].pc # "free") \/ (\E k \in Hooks : HandingOver(k))
  BY <1>0, <1>1 DEF ClaimIsBusy, ClaimHasWork
<1>2. ASSUME NEW k \in Hooks, HookActs(k)
      PROVE  (\E j \in Jobs : job'[j].pc # "free") \/ (\E l \in Hooks : HandingOver(l)')
  <2>1. CASE HandingOver(k)'
    BY <2>1
  <2>2. CASE ~HandingOver(k) /\ ~HandingOver(k)' /\ UNCHANGED job /\ row' \in {row, FailedReport(row)}
    <3>1. row.status = "transcribing" /\ ~dropped
      BY <1>0, <1>2, <2>2, HookMoves DEF FailedReport, RowType
    <3>. QED BY <1>1, <1>2, <2>2, <3>1, HookMoves
  <2>3. CASE row' = UndoCompleted(row)
    BY <1>0, <2>3 DEF UndoCompleted, RowType
  <2>4. CASE \E j \in Jobs : job' = [job EXCEPT ![j] = NewJob]
    BY <1>0, <2>4, NewJobTyped
  <2>. QED BY <1>2, <2>1, <2>2, <2>3, <2>4, HookMoves
<1>3. CASE (\A j \in Jobs : ~JobActs(j)) /\ (\A k \in Hooks : ~HookActs(k))
  <2>1. /\ UNCHANGED job /\ UNCHANGED dropped
        /\ row' \in {row, Swept(row), AdmissionPing(row), RecordingPing(row)}
    BY <1>0, <1>3, Elsewhere
  <2>2. row.status = "transcribing" /\ ~dropped
    <3>1. row.status = "transcribing"
      BY <1>0, <2>1 DEF Swept, AdmissionPing, RecordingPing, RowType
    <3>2. ~dropped
      BY <2>1, Written
    <3>. QED BY <3>1, <3>2
  <2>. QED BY <1>1, <1>3, <2>1, <2>2, Quietly
<1>4. ASSUME NEW j \in Jobs, JobActs(j)
      PROVE  \E i \in Jobs : job'[i].pc # "free"
  BY <1>0, <1>4, JobEnds
<1>. QED BY <1>2, <1>3, <1>4

-----------------------------------------------------------------------------
(* Theorems.                                                               *)

IInv ==
    /\ Typed
    /\ RecordingFirst
    /\ StoredOrGone
    /\ ResumeNotRestart
    /\ SavedIsAnswered
    /\ Unretried
    /\ FileKept
    /\ FirstUpload
    /\ AcceptedIsMarked
    /\ OneHandOver
    /\ OneJob
    /\ ClaimIsBusy

LEMMA InitTyped == Init => Typed
<1>. SUFFICES ASSUME Init PROVE Typed
  OBVIOUS
<1>1. Silent \in Reporter /\ Silent.pc = "idle" /\ FreeHook \in Hook /\ ~FreeHook.heard
  BY TranscriptionAssumption DEF Silent, Reporter, Outcome, FreeHook, Hook, Reporters
<1>2. [Silent EXCEPT !.pc = "recording"] \in Reporter /\ [Silent EXCEPT !.pc = "recording"].pc = "recording"
  BY <1>1 DEF Reporter
<1>3. TypeOK
  <2>1. row \in RowType
    BY DEF Init, Active, RowType, Status, NonTerminal
  <2>2. reporter \in [Reporters -> Reporter] /\ hook \in [Hooks -> Hook] /\ job \in [Jobs -> Job]
    BY <1>1, <1>2, NewJobTyped DEF Init
  <2>3. /\ handed \in Nat /\ retries \in 0..MaxRetries /\ lost \in 0..MaxLost
        /\ timeouts \in 0..MaxTimeouts /\ crashes \in 0..MaxCrashes
    BY TranscriptionAssumption DEF Init
  <2>4. local \in BOOLEAN /\ storage \in BOOLEAN /\ noted \in BOOLEAN /\ dropped \in BOOLEAN
    BY Zenon DEF Init
  <2>. QED BY <2>1, <2>2, <2>3, <2>4 DEF Init, TypeOK
<1>4. Awaited
  BY <1>1, <1>2 DEF Init, Awaited
<1>. QED BY <1>3, <1>4 DEF Typed

LEMMA InitHolds == Init => IInv
<1>. SUFFICES ASSUME Init PROVE IInv
  OBVIOUS
<1>1. /\ handed = 0 /\ retry = "idle" /\ transcript = "none" /\ ~local /\ ~storage
      /\ reporter["reupload"].pc = "idle" /\ row.status # "transcribing"
      /\ \A j \in Jobs : job[j].pc = "free" /\ ~job[j].stored
      /\ \A k \in Hooks : ~HandingOver(k)
  BY DEF Init, Reporters, Silent, FreeJob, FreeHook, HandingOver, Active
<1>2. Handing = {} /\ Busy = {}
  BY <1>1 DEF Handing, Busy
<1>3. ~AtWork
  BY <1>1, <1>2 DEF AtWork
<1>. QED BY <1>1, <1>2, <1>3, InitTyped DEF IInv, RecordingFirst, StoredOrGone, ResumeNotRestart,
     SavedIsAnswered, Unretried, FileKept, FirstUpload, AcceptedIsMarked, OneHandOver, OneJob, INDEXING,
     ClaimIsBusy, ClaimHasWork

LEMMA Invariance == Spec => []IInv
<1>1. IInv /\ [Next]_vars => IInv'
  <2>. SUFFICES ASSUME IInv, [Next]_vars PROVE IInv'
    OBVIOUS
  <2>1. Typed' /\ RecordingFirst' /\ StoredOrGone' /\ ResumeNotRestart' /\ SavedIsAnswered'
    BY NextTyped, RecordingKept, ResumeKept, SavedKept DEF IInv
  <2>2. Unretried' /\ FileKept' /\ FirstUpload' /\ AcceptedIsMarked' /\ OneHandOver'
    BY UnretriedKept, FileStays, FirstUploadKept, MarkIsKept, HandOverKept DEF IInv
  <2>3. OneJob' /\ ClaimIsBusy'
    BY OneJobKept, ClaimKept DEF IInv
  <2>. QED BY <2>1, <2>2, <2>3 DEF IInv
<1>. QED BY <1>1, InitHolds, PTL DEF Spec

\* Every column, request and job has a value of its type; arq's tries stay within
\* transcription_max_tries (worker.py:66-112).
THEOREM TypeCorrect == Spec => []TypeOK
<1>1. IInv => TypeOK
  BY DEF IInv, Typed
<1>. QED BY <1>1, Invariance, PTL

\* However uploads fail and are repeated, nothing but a delete takes the last copy of
\* a recording (MeetingLifecycle.js:136-139).
THEOREM LastCopyKept == Spec => KeepsLastCopy
<1>1. IInv /\ [Next]_vars => [(local \/ storage) => (local' \/ storage' \/ deleting = "storage")]_vars
  BY CopyKept DEF IInv
<1>. QED BY <1>1, Invariance, PTL DEF Spec, KeepsLastCopy

\* A recording's webhook hands it to transcription once, whatever is sent again,
\* overtaken, undone, swept or retried, while no enqueue lands and raises: lost
\* counts those (webhooks.py:108-118, 143-145).
THEOREM HandedOnce == Spec => [](lost = 0 => HandedOverOnce)
<1>1. IInv => (lost = 0 => HandedOverOnce)
  BY HandedMeans DEF IInv
<1>. QED BY <1>1, Invariance, PTL

\* A meeting in "transcribing" has a job or a request handing it over, until its
\* owner retries it or an enqueue lands and raises (webhooks.py:136-143, 152-153).
\* dropped excepts a request that died handing over, a job whose process died in its
\* last try, and a run that raised after arq had timed it out; other crashes and
\* time-outs do not matter.
THEOREM ClaimsHaveWork == Spec => [](lost = 0 => ClaimHasWork)
<1>1. IInv => (lost = 0 => ClaimHasWork)
  BY DEF IInv, ClaimIsBusy
<1>. QED BY <1>1, Invariance, PTL

\* A job that stored its transcript does not transcribe again while its meeting is
\* there, in whatever attempt and after whatever crash
\* (transcription_service.py:491-501).
THEOREM ResumesNotRestarts == Spec => []ResumeNotRestart
<1>1. IInv => ResumeNotRestart
  BY DEF IInv
<1>. QED BY <1>1, Invariance, PTL

\* When its jobs are over, a completed meeting with a conversation is indexed or says
\* that it is not, in a note written since its last claim, failure or sweep
\* (worker.py:88-94, transcription_service.py:542-552).  dropped excepts, since that
\* claim, a job whose process died in its last try, a run that raised after arq had
\* timed it out, and a run resumed from a transcript with no conversation that completes
\* the meeting over another's; other crashes and time-outs do not matter.
THEOREM SavedIsSearchableOrNoted == Spec => []CompletedIndexedOrNoted
<1>1. IInv => CompletedIndexedOrNoted
  BY SavedMeans DEF IInv
<1>. QED BY <1>1, Invariance, PTL
=============================================================================
