---------------------------- MODULE BotDispatch ----------------------------
(***************************************************************************)
(* The bot-join queue (services/bot_dispatch.py, worker.py) with all that  *)
(* races it: POST /meetings, stop, delete, the watchdog, the recorders'    *)
(* join handler and session lifecycle, and the webhook they report to.     *)
(*                                                                         *)
(* A meeting is created "queued" with a dispatch job behind it.  The job   *)
(* picks a recorder, claims the row (queued -> joining), posts the join    *)
(* and, when that does not take, gives the row back and waits.  From the   *)
(* accepted join on, the recorder's session drives the row by webhook.     *)
(*                                                                         *)
(* Which recorder bot_registry.claim_host returns is left open: any one,   *)
(* or none.  Heartbeats and reservations are a hint to it and the          *)
(* recorder's own 409 is the authority, so nothing here depends on them.   *)
(***************************************************************************)
EXTENDS MeetingRow

CONSTANTS
    Meetings,
    Jobs,            \* slots for dispatch jobs in Redis; a slot is free or holds one job
    NoMeeting,       \* what a free slot is for
    MaxConcurrent,   \* MAX_CONCURRENT_MEETINGS of every recorder
    MaxAttempts,     \* bot_dispatch_max_attempts
    MaxNotify,       \* webhook attempts of notifyBackend
    MaxLost,         \* bound: replies lost (a join's 202, an enqueue's answer)
    MaxCrashes       \* bound: crashed processes and lost jobs

ASSUME DispatchAssumption ==
    /\ NoMeeting \notin Meetings
    /\ MaxConcurrent \in Nat \ {0}
    /\ MaxAttempts \in Nat \ {0}
    /\ MaxNotify \in Nat \ {0}
    /\ MaxLost \in Nat
    /\ MaxCrashes \in Nat

VARIABLES
    row,       \* the meetings table
    api,       \* POST /meetings of each meeting: how far the request is
    job,       \* the dispatch jobs
    request,   \* POST /<platform>/join requests on their way to a recorder
    session,   \* activeMeetings of each recorder
    ping,      \* progress pings on their way to the backend
    user,      \* a stop or delete request of the meeting's owner
    lost,      \* replies lost so far
    crashes    \* crashes so far

vars == <<row, api, job, request, session, ping, user, lost, crashes>>

FreeJob == [pc |-> "free", m |-> NoMeeting, attempt |-> 0, host |-> NoHost]
Job == [pc: {"free", "pending", "choosing", "chosen", "posting", "posted",
             "refused", "waiting"},
        m: Meetings \cup {NoMeeting}, attempt: 0..MaxAttempts,
        host: Hosts \cup {NoHost}]

Request == [m: Meetings, h: Hosts, j: Jobs, attempt: 1..MaxAttempts]

NoSession == [stage |-> "none", cancel |-> FALSE, tries |-> 0]
Session == [stage: {"none", "joining", "waiting_for_admission", "recording",
                    "uploading", "completed", "failed"},
            cancel: BOOLEAN, tries: 0..MaxNotify]

Ping == [m: Meetings, status: {"waiting_for_admission", "recording"}]

Idle == [pc |-> "idle", host |-> NoHost, told |-> FALSE]
User == [pc: {"idle", "cancelling", "refreshing", "stopping", "deleting"},
         host: Hosts \cup {NoHost}, told: BOOLEAN]

TypeOK ==
    /\ row \in [Meetings -> RowType]
    /\ api \in [Meetings -> {"none", "inserted", "enqueued", "done"}]
    /\ job \in [Jobs -> Job]
    /\ request \subseteq Request
    /\ session \in [Hosts -> [Meetings -> Session]]
    /\ ping \subseteq Ping
    /\ user \in [Meetings -> User]
    /\ lost \in 0..MaxLost
    /\ crashes \in 0..MaxCrashes

Init ==
    /\ row = [m \in Meetings |-> Absent]
    /\ api = [m \in Meetings |-> "none"]
    /\ job = [j \in Jobs |-> FreeJob]
    /\ request = {}
    /\ session = [h \in Hosts |-> [m \in Meetings |-> NoSession]]
    /\ ping = {}
    /\ user = [m \in Meetings |-> Idle]
    /\ lost = 0
    /\ crashes = 0

-----------------------------------------------------------------------------
(* POST /meetings *)

CreateMeeting(m) ==
    /\ api[m] = "none"
    /\ api' = [api EXCEPT ![m] = "inserted"]
    /\ row' = [row EXCEPT ![m] = Inserted]
    /\ UNCHANGED <<job, request, session, ping, user, lost, crashes>>

\* No _job_id: an enqueue always adds a job.
NewJob(m, attempt) == [pc |-> "pending", m |-> m, attempt |-> attempt, host |-> NoHost]

EnqueueDispatch(m, j) ==
    /\ api[m] = "inserted"
    /\ job[j] = FreeJob
    /\ job' = [job EXCEPT ![j] = NewJob(m, 1)]
    /\ api' = [api EXCEPT ![m] = "enqueued"]
    /\ UNCHANGED <<row, request, session, ping, user, lost, crashes>>

CreateReturns(m) ==
    /\ api[m] = "enqueued"
    /\ api' = [api EXCEPT ![m] = "done"]
    /\ UNCHANGED <<row, job, request, session, ping, user, lost, crashes>>

\* trigger_bot_join raised: Redis never took the job, or took it and its
\* answer was lost.  The except branch writes "failed" by primary key.
CreateFails(m) ==
    /\ \/ api[m] = "inserted" /\ UNCHANGED lost
       \/ api[m] = "enqueued" /\ lost < MaxLost /\ lost' = lost + 1
    /\ api' = [api EXCEPT ![m] = "done"]
    /\ row' = [row EXCEPT ![m] = ForceFailed(@)]
    /\ UNCHANGED <<job, request, session, ping, user, crashes>>

-----------------------------------------------------------------------------
(* dispatch_bot_join_job, one step per database or network call.  Every    *)
(* step below leaves api, ping, user and the fault counters alone unless   *)
(* it says otherwise.                                                      *)

\* The status re-check that drops a job whose meeting is gone or moved on.
ReadMeeting(j) ==
    /\ job[j].pc = "pending"
    /\ job' = IF row[job[j].m].status = "queued"
              THEN [job EXCEPT ![j].pc = "choosing"]
              ELSE [job EXCEPT ![j] = FreeJob]
    /\ UNCHANGED <<row, api, request, session, ping, user, lost, crashes>>

ChooseHost(j) ==
    /\ job[j].pc = "choosing"
    /\ \/ \E h \in Hosts : job' = [job EXCEPT ![j].pc = "chosen", ![j].host = h]
       \/ job' = [job EXCEPT ![j].pc = "waiting"]
    /\ UNCHANGED <<row, api, request, session, ping, user, lost, crashes>>

\* ClaimExclusive, OneRecorder: the UPDATE's row count is not looked at.
ClaimMeetingBug(j) ==
    LET m == job[j].m
    IN  /\ job[j].pc = "chosen"
        /\ row' = [row EXCEPT ![m] = ClaimQueued(@, job[j].host)]
        /\ job' = [job EXCEPT ![j].pc = "posting"]
        /\ UNCHANGED <<api, request, session, ping, user, lost, crashes>>

ClaimMeeting(j) ==
    LET m == job[j].m
    IN  /\ job[j].pc = "chosen"
        /\ row' = [row EXCEPT ![m] = ClaimQueued(@, job[j].host)]
        /\ job' = IF row[m].status = "queued"
                  THEN [job EXCEPT ![j].pc = "posting"]
                  ELSE [job EXCEPT ![j] = FreeJob]
        /\ UNCHANGED <<api, request, session, ping, user, lost, crashes>>

JoinRequest(j) == [m |-> job[j].m, h |-> job[j].host, j |-> j, attempt |-> job[j].attempt]

PostJoin(j) ==
    /\ job[j].pc = "posting"
    /\ request' = request \cup {JoinRequest(j)}
    /\ job' = [job EXCEPT ![j].pc = "posted"]
    /\ UNCHANGED <<row, api, session, ping, user, lost, crashes>>

\* The recorder cannot be reached: the request never arrives.
ConnectFails(j) ==
    /\ job[j].pc = "posted"
    /\ JoinRequest(j) \in request
    /\ request' = request \ {JoinRequest(j)}
    /\ job' = [job EXCEPT ![j].pc = "refused"]
    /\ UNCHANGED <<row, api, session, ping, user, lost, crashes>>

\* post_join's 10 seconds are over.  Either the answer was lost, or the
\* request is still on its way and arrives with nobody waiting for it.
JoinTimesOut(j) ==
    /\ job[j].pc = "posted"
    /\ IF JoinRequest(j) \in request
       THEN lost < MaxLost /\ lost' = lost + 1
       ELSE UNCHANGED lost
    /\ job' = [job EXCEPT ![j].pc = "refused"]
    /\ UNCHANGED <<row, api, request, session, ping, user, crashes>>

ReturnToQueue(j) ==
    LET m == job[j].m
    IN  /\ job[j].pc = "refused"
        /\ row' = [row EXCEPT ![m] = ReturnQueued(@)]
        /\ job' = [job EXCEPT ![j].pc = "waiting", ![j].host = NoHost]
        /\ UNCHANGED <<api, request, session, ping, user, lost, crashes>>

\* TypeOK: the attempts are counted but not capped.
RequeueUncapped(j) ==
    /\ job[j].pc = "waiting"
    /\ job' = [job EXCEPT ![j] = NewJob(@.m, @.attempt + 1)]
    /\ UNCHANGED <<row, api, request, session, ping, user, lost, crashes>>

\* LeavesQueue: the attempt is not counted.
RequeueUncounted(j) ==
    /\ job[j].pc = "waiting"
    /\ job' = [job EXCEPT ![j] = NewJob(@.m, @.attempt)]
    /\ UNCHANGED <<row, api, request, session, ping, user, lost, crashes>>

Requeue(j) ==
    /\ job[j].pc = "waiting"
    /\ job[j].attempt < MaxAttempts
    /\ job' = [job EXCEPT ![j] = NewJob(@.m, @.attempt + 1)]
    /\ UNCHANGED <<row, api, request, session, ping, user, lost, crashes>>

RecordDispatchExhausted(j) ==
    LET m == job[j].m
    IN  /\ job[j].pc = "waiting"
        /\ job[j].attempt >= MaxAttempts
        /\ row' = [row EXCEPT ![m] = FailQueued(@)]
        /\ job' = [job EXCEPT ![j] = FreeJob]
        /\ UNCHANGED <<api, request, session, ping, user, lost, crashes>>

-----------------------------------------------------------------------------
(* Faults of the worker and of Redis *)

\* The worker dies: Redis still holds the job and arq runs it again from the
\* top.  A request already posted stays on its way.
CrashJob(j) ==
    /\ job[j].pc \notin {"free", "pending"}
    /\ crashes < MaxCrashes
    /\ crashes' = crashes + 1
    /\ job' = [job EXCEPT ![j] = NewJob(@.m, @.attempt)]
    /\ UNCHANGED <<row, api, request, session, ping, user, lost>>

\* The worker dies after _requeue and before the job counted as finished:
\* both the next attempt and this one are in Redis.
CrashAfterRequeue(j, k) ==
    /\ job[j].pc = "waiting"
    /\ job[j].attempt < MaxAttempts
    /\ job[k] = FreeJob
    /\ crashes < MaxCrashes
    /\ crashes' = crashes + 1
    /\ job' = [job EXCEPT ![j] = NewJob(@.m, @.attempt),
                          ![k] = NewJob(job[j].m, job[j].attempt + 1)]
    /\ UNCHANGED <<row, api, request, session, ping, user, lost>>

\* A Redis flush, or an exception arq does not retry.
LoseJob(j) ==
    /\ job[j].pc # "free"
    /\ crashes < MaxCrashes
    /\ crashes' = crashes + 1
    /\ job' = [job EXCEPT ![j] = FreeJob]
    /\ UNCHANGED <<row, api, request, session, ping, user, lost>>

-----------------------------------------------------------------------------
(* The recorder: api/server.js and core/MeetingLifecycle.js *)

Held(h) == {m \in Meetings : session[h][m].stage # "none"}

Admits(h, m) == m \notin Held(h) /\ Cardinality(Held(h)) < MaxConcurrent

NewSession == [stage |-> "joining", cancel |-> FALSE, tries |-> MaxNotify]

\* The join handler answers 202 or 409; a job still waiting hears it unless
\* the answer is lost.
Answered(q, pc, heard) ==
    IF heard /\ job[q.j].pc = "posted" /\ JoinRequest(q.j) = q
    THEN job' = IF pc = "free" THEN [job EXCEPT ![q.j] = FreeJob]
                               ELSE [job EXCEPT ![q.j].pc = pc]
    ELSE UNCHANGED job

ReceiveJoin(q) ==
    /\ request' = request \ {q}
    /\ \E heard \in BOOLEAN :
          /\ IF heard THEN UNCHANGED lost ELSE lost < MaxLost /\ lost' = lost + 1
          /\ IF Admits(q.h, q.m)
             THEN /\ session' = [session EXCEPT ![q.h][q.m] = NewSession]
                  /\ Answered(q, "free", heard)
             ELSE /\ UNCHANGED session
                  /\ Answered(q, "refused", heard)
    /\ UNCHANGED <<row, api, ping, user, crashes>>

JoinSucceeds(h, m) ==
    /\ session[h][m].stage = "joining"
    /\ session' = [session EXCEPT ![h][m].stage = "waiting_for_admission"]
    /\ ping' = ping \cup {[m |-> m, status |-> "waiting_for_admission"]}
    /\ UNCHANGED <<row, api, job, request, user, lost, crashes>>

Admitted(h, m) ==
    /\ session[h][m].stage = "waiting_for_admission"
    /\ session' = [session EXCEPT ![h][m].stage = "recording"]
    /\ ping' = ping \cup {[m |-> m, status |-> "recording"]}
    /\ UNCHANGED <<row, api, job, request, user, lost, crashes>>

\* Any throw of join(), waitForAdmission() (its timeout and a cancel among
\* them) or the recording loop, and the loop's own cancel branch.
SessionFails(h, m) ==
    /\ session[h][m].stage \in Active
    /\ session' = [session EXCEPT ![h][m].stage = "failed"]
    /\ UNCHANGED <<row, api, job, request, ping, user, lost, crashes>>

\* The meeting ended, by itself or at the hard cap.  From here on a stop is
\* answered and ignored.
MeetingEnds(h, m) ==
    /\ session[h][m].stage = "recording"
    /\ ~session[h][m].cancel
    /\ session' = [session EXCEPT ![h][m].stage = "uploading"]
    /\ UNCHANGED <<row, api, job, request, ping, user, lost, crashes>>

\* A failed upload, or no file, is reported as a failure.
UploadEnds(h, m) ==
    /\ session[h][m].stage = "uploading"
    /\ \E outcome \in {"completed", "failed"} :
          session' = [session EXCEPT ![h][m].stage = outcome]
    /\ UNCHANGED <<row, api, job, request, ping, user, lost, crashes>>

\* What the final report does to the row: a completed one is accepted and
\* handed to transcription, or accepted and undone because the hand-over
\* failed, or turned into a failure because storage has no such file.
FinalReport(r, outcome) ==
    IF outcome = "failed" THEN {FailedReport(r)}
    ELSE {CompletedReport(r), FailedReport(r)} \cup
         (IF AcceptsCompleted(r) THEN {UndoCompleted(CompletedReport(r))} ELSE {})

\* One attempt of notifyBackend: it reaches the backend or not, and is
\* heard to have succeeded or not; after the last one the session is gone
\* from activeMeetings either way.
NotifyBackend(h, m) ==
    /\ session[h][m].stage \in {"completed", "failed"}
    /\ \E reached, heard \in BOOLEAN :
          /\ heard => reached /\ Exists(row[m])
          /\ IF reached
             THEN \E r \in FinalReport(row[m], session[h][m].stage) :
                     row' = [row EXCEPT ![m] = r]
             ELSE UNCHANGED row
          /\ session' = IF heard \/ session[h][m].tries = 1
                        THEN [session EXCEPT ![h][m] = NoSession]
                        ELSE [session EXCEPT ![h][m].tries = @ - 1]
    /\ UNCHANGED <<api, job, request, ping, user, lost, crashes>>

\* The recorder's process dies: its sessions end unreported.
CrashHost(h) ==
    /\ Held(h) # {}
    /\ crashes < MaxCrashes
    /\ crashes' = crashes + 1
    /\ session' = [session EXCEPT ![h] = [m \in Meetings |-> NoSession]]
    /\ UNCHANGED <<row, api, job, request, ping, user, lost>>

-----------------------------------------------------------------------------
(* The webhook's progress pings: one attempt each, in any order *)

ReceivePing(p) ==
    /\ ping' = ping \ {p}
    /\ \/ UNCHANGED row
       \/ row' = [row EXCEPT ![p.m] = IF p.status = "recording"
                                      THEN RecordingPing(@) ELSE AdmissionPing(@)]
    /\ UNCHANGED <<api, job, request, session, user, lost, crashes>>

-----------------------------------------------------------------------------
(* Stop and delete.  Both read the row, then act on what they read.        *)

StopRead(m) ==
    /\ user[m].pc = "idle"
    /\ \/ /\ row[m].status = "queued"
          /\ user' = [user EXCEPT ![m].pc = "cancelling"]
       \/ /\ row[m].status \in Active
          /\ \E h \in RequireHost(row[m].host) :
                user' = [user EXCEPT ![m].pc = "stopping", ![m].host = h]
    /\ UNCHANGED <<row, api, job, request, session, ping, lost, crashes>>

\* StoppedStaysStopped: the owner is told "stopped" whether or not the UPDATE
\* matched the row.
CancelQueuedBug(m) ==
    /\ user[m].pc = "cancelling"
    /\ row' = [row EXCEPT ![m] = FailQueued(@)]
    /\ user' = [user EXCEPT ![m].pc = "idle", ![m].told = TRUE]
    /\ UNCHANGED <<api, job, request, session, ping, lost, crashes>>

\* cancel_queued_meeting.  When it wins, the owner is told "stopped".
CancelQueued(m) ==
    /\ user[m].pc = "cancelling"
    /\ row' = [row EXCEPT ![m] = FailQueued(@)]
    /\ \/ /\ row[m].status = "queued"
          /\ user' = [user EXCEPT ![m].pc = "idle", ![m].told = TRUE]
       \/ /\ row[m].status # "queued"
          /\ user' = [user EXCEPT ![m].pc = "refreshing"]
    /\ UNCHANGED <<api, job, request, session, ping, lost, crashes>>

\* The dispatcher won: db.refresh reads the row again, by when it may be
\* queued once more, and the request goes on with what it reads.
RefreshRow(m) ==
    /\ user[m].pc = "refreshing"
    /\ \/ /\ row[m].status \in Active
          /\ \E h \in RequireHost(row[m].host) :
                user' = [user EXCEPT ![m].pc = "stopping", ![m].host = h]
       \/ /\ row[m].status \in Active => RequireHost(row[m].host) = {}
          /\ user' = [user EXCEPT ![m].pc = "idle"]
    /\ UNCHANGED <<row, api, job, request, session, ping, lost, crashes>>

\* POST /stop: requestCancel on the session, 404 without one.
Cancelled(h, m) ==
    IF session[h][m].stage # "none"
    THEN [session EXCEPT ![h][m].cancel = TRUE] ELSE session

StopBot(m) ==
    /\ user[m].pc = "stopping"
    /\ session' = Cancelled(user[m].host, m)
    /\ user' = [user EXCEPT ![m].pc = "idle", ![m].host = NoHost]
    /\ UNCHANGED <<row, api, job, request, ping, lost, crashes>>

DeleteRead(m) ==
    /\ user[m].pc = "idle"
    /\ Exists(row[m])
    /\ \/ /\ row[m].status \in Active
          /\ \E h \in RequireHost(row[m].host) :
                user' = [user EXCEPT ![m].pc = "deleting", ![m].host = h]
       \/ /\ row[m].status \in Active => RequireHost(row[m].host) = {}
          /\ user' = [user EXCEPT ![m].pc = "deleting"]
    /\ UNCHANGED <<row, api, job, request, session, ping, lost, crashes>>

\* The recorder is told first, best effort; then the row goes, whatever its
\* status is by then.
DeleteStopsBot(m) ==
    /\ user[m].pc = "deleting"
    /\ user[m].host # NoHost
    /\ \/ session' = Cancelled(user[m].host, m)
       \/ UNCHANGED session
    /\ user' = [user EXCEPT ![m].host = NoHost]
    /\ UNCHANGED <<row, api, job, request, ping, lost, crashes>>

DeleteRow(m) ==
    /\ user[m].pc = "deleting"
    /\ user[m].host = NoHost
    /\ row' = [row EXCEPT ![m] = Absent]
    /\ user' = [user EXCEPT ![m].pc = "idle"]
    /\ UNCHANGED <<api, job, request, session, ping, lost, crashes>>

-----------------------------------------------------------------------------
(* The watchdog and the transcription pipeline *)

Claiming(j) == job[j].pc \in {"posting", "posted", "refused"}

\* What the TTLs mean for a sweep: a claim lasts seconds and a join a minute
\* or two against the ten minutes of "joining", an admission wait five minutes
\* against ten, and a recording ends by its hard cap before the TTL of
\* "recording".
Overdue(m) ==
    CASE row[m].status = "joining" ->
            /\ \A j \in Jobs : Claiming(j) => job[j].m # m
            /\ \A q \in request : q.m # m
            /\ \A h \in Hosts : session[h][m].stage # "joining"
      [] row[m].status = "waiting_for_admission" ->
            \A h \in Hosts : session[h][m].stage # "waiting_for_admission"
      [] row[m].status = "recording" ->
            \A h \in Hosts : session[h][m].stage # "recording"
      [] OTHER -> TRUE

\* Settles: a status missing from the watchdog's tuple.
SweepBug(m) ==
    /\ row[m].status \in NonTerminal \ {"joining"}
    /\ Overdue(m)
    /\ row' = [row EXCEPT ![m] = Swept(@)]
    /\ UNCHANGED <<api, job, request, session, ping, user, lost, crashes>>

Sweep(m) ==
    /\ row[m].status \in NonTerminal
    /\ Overdue(m)
    /\ row' = [row EXCEPT ![m] = Swept(@)]
    /\ UNCHANGED <<api, job, request, session, ping, user, lost, crashes>>

\* transcribe_recording's terminal write (module Transcription has the rest).
TranscriptionEnds(m) ==
    /\ row[m].status = "transcribing"
    /\ \E outcome \in {"completed", "failed"} :
          row' = [row EXCEPT ![m].status = outcome]
    /\ UNCHANGED <<api, job, request, session, ping, user, lost, crashes>>

-----------------------------------------------------------------------------
CreateStep(m) ==
    CreateMeeting(m) \/ CreateReturns(m) \/ CreateFails(m)
        \/ \E j \in Jobs : EnqueueDispatch(m, j)

JobStep(j) ==
    \/ ReadMeeting(j) \/ ChooseHost(j) \/ ClaimMeeting(j) \/ PostJoin(j)
    \/ ConnectFails(j) \/ JoinTimesOut(j) \/ ReturnToQueue(j)
    \/ Requeue(j) \/ RecordDispatchExhausted(j)

SessionStep(h, m) ==
    \/ JoinSucceeds(h, m) \/ Admitted(h, m) \/ SessionFails(h, m)
    \/ MeetingEnds(h, m) \/ UploadEnds(h, m) \/ NotifyBackend(h, m)

UserStep(m) ==
    \/ StopRead(m) \/ CancelQueued(m) \/ RefreshRow(m) \/ StopBot(m)
    \/ DeleteRead(m) \/ DeleteStopsBot(m) \/ DeleteRow(m)

FaultStep ==
    \/ \E j \in Jobs : CrashJob(j) \/ LoseJob(j)
    \/ \E j, k \in Jobs : CrashAfterRequeue(j, k)
    \/ \E h \in Hosts : CrashHost(h)

Next ==
    \/ \E m \in Meetings : CreateStep(m) \/ UserStep(m) \/ Sweep(m) \/ TranscriptionEnds(m)
    \/ \E j \in Jobs : JobStep(j)
    \/ \E q \in request : ReceiveJoin(q)
    \/ \E h \in Hosts, m \in Meetings : SessionStep(h, m)
    \/ \E p \in ping : ReceivePing(p)
    \/ FaultStep

Spec == Init /\ [][Next]_vars

-----------------------------------------------------------------------------
(* Fairness: arq runs a job it holds, the API finishes a request, a        *)
(* recorder's waits are all bounded (the join's timeouts, five minutes for *)
(* the admission, the hard cap of a recording), and the watchdog is        *)
(* called every five minutes.  A ping and an owner's request owe nothing.  *)
Running ==
    /\ \A m \in Meetings : WF_vars(CreateStep(m))
    /\ \A j \in Jobs : WF_vars(JobStep(j))
    /\ WF_vars(\E q \in request : ReceiveJoin(q))
    /\ \A h \in Hosts, m \in Meetings : WF_vars(SessionStep(h, m))

Watched == \A m \in Meetings : WF_vars(Sweep(m))

FairSpec == Spec /\ Running /\ Watched

-----------------------------------------------------------------------------
(* Properties *)

\* However many jobs a meeting has, and whatever is lost or crashes, at most
\* one of them is between its claim and the end of its join (bot_dispatch.py:
\* 132-136, "whoever wins this conditional UPDATE owns the join").
ClaimExclusive ==
    \A i, j \in Jobs :
        Claiming(i) /\ Claiming(j) /\ job[i].m = job[j].m => i = j

\* A meeting is never "joining" with no recorder recorded against it, the
\* state stop and delete cannot act on (bot_dispatch.py:143-146).
JoiningHasRecorder ==
    \A m \in Meetings : row[m].status = "joining" => row[m].host # NoHost

\* The row of a meeting never moves backwards in its life, in whatever order
\* jobs, pings, reports, sweeps and the owner's requests reach it, but for the
\* dispatcher's own joining -> queued; and once terminal it only leaves "failed"
\* for a recording that arrived late (webhooks.py:58-62, 108-118).
Rank(status) ==
    CASE status = "queued" -> 1
      [] status = "joining" -> 2
      [] status = "waiting_for_admission" -> 3
      [] status = "recording" -> 4
      [] status = "transcribing" -> 5
      [] OTHER -> 6

Forward(old, new) ==
    \/ Rank(old.status) <= Rank(new.status)
    \/ old.status = "joining" /\ new.status = "queued"
    \/ old.status = "failed" /\ new.status = "transcribing" /\ ~old.url
    \/ ~Exists(old)

ForwardStep ==
    \A m \in Meetings :
        /\ Forward(row[m], row'[m])
        /\ ~Exists(row[m]) /\ api[m] # "none" => ~Exists(row'[m])

ForwardOnly == [][ForwardStep]_vars

\* A recorder is busy with m: a job holds the claim for it, a join is on its
\* way to it, or it has a session.
BusyWith(h, m) ==
    \/ \E j \in Jobs : Claiming(j) /\ job[j].m = m /\ job[j].host = h
    \/ \E q \in request : q.m = m /\ q.h = h
    \/ session[h][m].stage # "none"

\* No meeting has two recorders, in whatever way jobs are duplicated and re-run.
\* Holds while no answer is lost (scheduler.py:28-31, bot_dispatch.py:132-136).
OneRecorder ==
    \A m \in Meetings : \A g, h \in Hosts : BusyWith(g, m) /\ BusyWith(h, m) => g = h

\* While a meeting is shown as active, the recorder that has its session is the
\* one in its row: stop, delete and re-upload reach the right machine
\* (meetings.py:26-40).  Holds while no answer is lost.
RecorderOnRecord ==
    \A m \in Meetings, h \in Hosts :
        session[h][m].stage # "none" /\ row[m].status \in Active => row[m].host = h

\* An owner who was told "stopped" of a queued meeting never gets a bot: it
\* has no recorder and none is on its way, now or later (bot_dispatch.py:
\* 231-238, tests/test_bot_dispatch_queue.py:612-616).  Holds while no answer
\* is lost.
StoppedStaysStopped ==
    \A m \in Meetings :
        user[m].told =>
            /\ row[m].status \in {"failed", "absent"}
            /\ \A h \in Hosts : ~BusyWith(h, m)

\* The dispatcher and everything that races it implement the lease, meeting
\* by meeting: no second recorder, none after the meeting closed, no reopening.
\* Holds while no answer is lost.
Phase(m) ==
    IF api[m] = "none" THEN "unbooked"
    ELSE IF row[m].status \in {"queued"} \cup Active THEN "open" ELSE "closed"

Holder(m) ==
    IF \E h \in Hosts : BusyWith(h, m)
    THEN CHOOSE h \in Hosts : BusyWith(h, m) ELSE NoHost

Lease == INSTANCE RecorderLease
            WITH phase <- [m \in Meetings |-> Phase(m)],
                 holder <- [m \in Meetings |-> Holder(m)]

ImplementsLease == Lease!Spec

\* Whatever is lost and whatever crashes, every meeting leaves the states that
\* are still waiting for something, for good: the watchdog catches what the job
\* and the recorder no longer report (watchdog.py:29-37, 77-92).
Settles == \A m \in Meetings : <>[](row[m].status \notin NonTerminal)

\* Without the watchdog, the dispatcher's own attempt cap gets every meeting
\* out of the queue for good (bot_dispatch.py:182-192), when no job is lost.
LeavesQueue == \A m \in Meetings : <>[](row[m].status # "queued")
=============================================================================
