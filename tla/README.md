# MeetIQ in TLA+

MeetIQ records online meetings with a pool of browser bots, transcribes them and
answers questions about them. This directory models the parts of it where several
processes race over one row, one key or one session: the bot-join queue, the
transcription pipeline, the calendar scheduler, the choice of a recorder, billing and
its limits, and the chats. TLC checks the models on small instances, and TLAPS proves
the claims they all rest on for every size.

    tlc -workers 2 -config DispatchReliable.cfg MCBotDispatch.tla
    tlapm BotDispatchProofs.tla

## 1. The system

A **backend** (FastAPI, Postgres, several replicas), an **arq worker** on Redis, and
one or more **recorders** (`meeting-bot`, Node and Chrome). Everything the parts know
of each other goes through three channels: the `meetings` row, jobs in Redis, and
HTTP in both directions between backend and recorder. None of them is transactional
with another, which is where the interesting behaviour comes from.

| Component | State | Operations | Talks to | What makes it correct |
|---|---|---|---|---|
| Meeting row (`db/models.py`) | `status`, `bot_host_id`, `recording_url` | conditional UPDATEs | all of the below | moves forward only; a claim is won once |
| Dispatcher (`bot_dispatch.py`, `bot_service.py`) | the job's arguments | choose a recorder, claim, post, return, give up | row, Redis, recorder | one recorder per meeting; nobody waits for ever |
| Worker (`worker.py`) | jobs in Redis | run, retry, re-enqueue, heartbeat loop | dispatcher, transcription | attempts bounded; a crash loses nothing silently |
| Meetings API (`api/meetings.py`) | none | create, stop, delete, retry | row, Redis, recorder, bucket | "stopped" means stopped; retry never loses a file |
| Webhook (`api/webhooks.py`) | none | two pings, final report | row, Redis | in any order and number, one hand-over |
| Recorder (`server.js`, `MeetingLifecycle.js`) | `activeMeetings`, `reuploadsInFlight`, the file | join, stop, re-upload, report | webhook, bucket | admission; the file outlives a failed upload |
| Watchdog (`watchdog.py`) | none | sweep by status and age | row | nothing stays non-terminal |
| Transcription (`transcription_service.py`) | transcript | resume, transcribe, save, fail | row, bucket, Gemini/Sarvam | paid once; completed or failed, never silent |
| Indexing (`embedding_service.py`) | `meeting_chunks` | replace a meeting's chunks | row | one run's chunks |
| Recorder pool (`bot_registry.py`) | heartbeats, reservations in Redis | poll, claim, release | recorders | no slot handed out twice; a dead host is skipped |
| Scheduler and calendar (`scheduler.py`, `api/calendar.py`) | none; `calendar_connections` | book; claim due meetings, re-validate, trigger, give back | row, Google, dispatcher | one bot per booking over all replicas, at the event's time |
| Billing (`billing/service.py`) | payments, subscriptions, `users.plan` | checkout, confirm, webhook, expire | Razorpay | a payment buys one period, and only a payment does |
| Plans and quota (`billing/quota.py`) | none | resolve, count, refuse | subscriptions, rows | nobody passes a limit alone |
| Rate limiter (`rate_limit.py`) | one Redis counter per scope | count, refuse, fail open | Redis | bounded in every window; nobody is refused for ever |
| Meeting chat, Ask AI (`agent_runner.py`, `session_cache.py`, `chat_fallback_groq.py`, `history.py`) | sessions in an LRU; `ask_ai_messages` | turn, roll back, hand over to Groq, evict, delete, "New chat" | Postgres, Gemini, Groq | the provider accepts the history; deleted is forgotten; every turn ends |
| Sign-in, PDF, cost tracking, migrations, frontend | | | | sequential or read-only |

The hard behaviours: jobs duplicated and re-run by arq; a status read before a
network call and acted on after it; pings and reports that arrive late, twice or in
the wrong order; an answer lost after the work was done (a join's 202, an enqueue);
crashes between a commit and the step it announces; time-outs that fire under work
still going on; owners who stop, delete and retry in the middle of it; two
transactions that read the same row before either writes it; reservations and
heartbeats that are old when they are used; clients that leave in mid-answer. `PROJECT.json`
lists them under `hazards`, each at its line and with the properties aimed at it.

## 2. Modules

| Module | Models | Lines |
|---|---|---|
| `MeetingRow` | each UPDATE of a meeting's row as an operator from row to row | the statements of every component |
| `RecorderLease` | abstract: each meeting is unbooked, open or closed, and held by one recorder or none | what the queue promises |
| `BotDispatch` | the queue and all that races it; EXTENDS `MeetingRow` | `bot_dispatch.py`, `worker.py`, `meetings.py`, `server.js`, `MeetingLifecycle.js`, `webhooks.py`, `watchdog.py` |
| `BotDispatchProofs` | the theorems about it, whatever is lost | |
| `OneRecorderProofs` | those that hold while no answer is lost; EXTENDS `BotDispatchProofs` | |
| `LeaseProofs` | that `BotDispatch` implements `RecorderLease`; EXTENDS `OneRecorderProofs` | |
| `Transcription` | one meeting from the end of its recording to its transcript; EXTENDS `MeetingRow` | `MeetingLifecycle.js`, `webhooks.py`, `transcription_service.py`, `embedding_service.py`, `worker.py`, `meetings.py`, `watchdog.py` |
| `TranscriptionProofs` | the theorems about it | |
| `Scheduler` | bookings, the sweep of several replicas, the calendar it asks | `scheduler.py`, `api/calendar.py`, `calendar_service.py`, `watchdog.py` |
| `SchedulerProofs` | the theorems about it | |
| `RecorderPool` | which recorder a dispatch chooses, and from what | `bot_registry.py`, `bot_dispatch.py`, `AuthHealth.js`, `AuthKeepAlive.js`, `server.js` |
| `RecorderPoolProofs` | the theorems about it | |
| `Billing` | one user's orders, reports, subscription and its expiry | `billing/service.py`, `api/billing.py`, `quota.resolve` |
| `Allowance` | requests that draw on a plan; EXTENDS `Billing` | `billing/quota.py`, `billing/plans.py`, the callers |
| `BillingProofs` | the theorems about both | |
| `RateLimit` | the request limiter, in ticks of its own | `rate_limit.py` |
| `Conversations` | questions to either chat, the session cache, "New chat" | `agent_runner.py`, `session_cache.py`, `chat_fallback_groq.py`, `chat_service.py`, `ask_ai/agent/` |
| `ConversationsProofs` | the theorems about it | |
| `MC...` | the specifications TLC runs: symmetry, and what one behaviour looks at | |

**`MeetingRow`.** A row is `[status, host, url]`; `url` says whether `recording_url`
is set, which the webhook's claim tests. An operator's `IF` is the statement's WHERE
and its `EXCEPT` the SET. Both state machines write rows only with these operators.

**`BotDispatch`.** `row` is the table, `job` the dispatch jobs, `request` the join
requests in flight, `session[h][m]` the `activeMeetings` of recorder `h`, `ping` the
progress pings in flight, `api[m]` the POST that creates `m`, `user[m]` a stop or a
delete being served. A dispatch job takes one step per database or network call, so
everything else may happen in between:

    pending --ReadMeeting--> choosing --ChooseHost--> chosen --ClaimMeeting--> posting
      --PostJoin--> posted --ReceiveJoin--> (gone: 202) or refused (409, error, time-out)
      refused --ReturnToQueue--> waiting --Requeue--> pending | --RecordDispatchExhausted--> (gone)

Which recorder `claim_host` returns is left open, because the code calls it a hint:
the recorder's own 409 decides (`bot_registry.py:405-408`). Faults are counted by
`MaxLost` (an answer lost after its request took effect) and `MaxCrashes` (a worker,
a recorder or a Redis job). A stop takes a step per statement too: the read, the
conditional UPDATE, the refresh that follows a lost race, and the call.

**`Transcription`.** One meeting, because meetings share nothing here but worker
slots. It starts in every state `BotDispatch` brings a recording session to.
`hook[k]` is a webhook request being served, `reporter` the session and the re-upload
on the recorder, `job[j]` a `transcribe_job` and the attempt it runs, `retry` and
`deleting` the owner's requests, `local` and `storage` the two copies of the file. A
webhook request goes on when its connection breaks, so that the recorder's next
attempt may overtake it. `noted` says whether `error_message` is at the moment the note
that the index is missing: only `record_terminal_failure` writes it, and every statement
that sets the column to anything else takes it back (the claims of the webhook and of
`/retry`, the undo, `_mark_failed`, the re-upload's failures, the watchdog, and a
completion by Sarvam; one by Gemini leaves the column alone). A run that outlives
`job_timeout` goes on as a thread that arq has let go of (`try = 0`), which is a step of
its own and no crash. `dropped` is history: an outcome was lost since the last claim,
because a process died with nobody to take over from it, because a run raised after its
time-out, or because a resumed run completed the row over a transcript it had not read.

**`Scheduler`.** `row` adds to a meeting's status its `scheduled_at`, link and
`calendar_event_id`; `event` is what Google would answer, `conn` the owner's
connection, `request` a POST that books, `sweep[r]` where replica `r` is in its list:

    asleep --ListDue--> consider --ClaimDue--> token --GetToken--> event --GetEvent-->
      details --UpdateDetails--> joining --TriggerJoin--> consider (the next one)
      consider --FailMissed--> | event --GiveBack, MarkFailed--> | joining --> failing

`stale`, `told` and `dropped` are history: what a property needs to say who was told
what, and which list was old. The dispatch of a queued row is one step here, and the
whole of `BotDispatch` there.

**`RecorderPool`.** `beat` is the cached heartbeat with its age, `reserved` the Redis
counter with the time its key has left, `job[m]` a dispatch that polls, ranks, claims
one recorder after another and releases, one Redis command at a time; `health` the
verdicts `AuthHealth` keeps, `keeper` the check `AuthKeepAlive` is making. A tick is
longer than a poll and shorter than the TTL. INCR, EXPIRE and DECR of `_reserve` are
three steps, and the key may run out between any two. `lapsed`, `orphans` and `spent` are
history: the meetings whose reservation counts no more, the recorders whose counter a
death or a Redis error left without an expiry, and those whose counter had run out before
the DECR of `_reserve`.

**`Billing`, `Allowance`.** Each request is a transaction in two or three steps: it
reads the payment, reads the subscription, and commits. `Merge` is SQLAlchemy's flush:
a column the session did not change is not written, which decides what two
overlapping transactions leave behind. `mail[o]` holds the reports not yet
acknowledged, so that Razorpay repeats them in any order. A tick is a day.

**`RateLimit`.** The Lua script is atomic, so it is one step. `left = 0` is a key
without an expiry, cleared by hand or left by an older version. `began` and
`accepted` are history: when each key was first counted, and what it let through.

**`Conversations`.** `hist[s]` is the history of session `s` as the sequence of its
entries' kinds, which is what Gemini accepts or rejects; `cache` is the LRU; `turn[t]`
goes through ownership, the lock, the rounds with Gemini, tools and Groq, and the
stored exchange; `cut`, `blind` and `split` record what excuses a lost context. A
meeting's thread is a chat that is never deleted, so the same model covers both chats.

**Mutants.** The definitions named `...Bug`, `...Uncapped`, `...Uncounted` and `...Lost` are no
part of the models: each is a mistake the code could have made, with a comment that
names the property which must notice it.

## 3. What the runs check

| Run | Specification and bounds | Properties | Shows |
|---|---|---|---|
| `dispatch_reliable` | `FairSpec`; 2 recorders of 1 slot, 1 meeting, 2 jobs, 2 attempts, 2 report attempts, 1 crash, no lost answer | `OneRecorder`, `RecorderOnRecord`, `StoppedStaysStopped`, `ImplementsLease`, `Settles` | with crashes only, one recorder per meeting, the one in the row; the queue implements `RecorderLease`; everything ends |
| `dispatch_lossy` | `Spec`; the same with 1 lost answer | `TypeOK`, `ClaimExclusive`, `JoiningHasRecorder`, `ForwardOnly` | what survives lost answers too |
| `dispatch_contended` | `ContendedSpec`; 1 recorder of 1 slot, 2 meetings, 3 attempts, no faults, no watchdog fairness | `LeavesQueue` | meetings that contend do not starve: the cap ends the wait |
| `dispatch_lost_answer` | `Spec`; 1 lost answer, no crash | `StoppedStaysStopped` | **violated** (below) |
| `transcription_safe` | `Spec`; 2 requests, 2 jobs, 2 report attempts, 2 tries, 1 retry, 1 crash, 1 time-out | `ClaimHasWork`, `HandedOverOnce`, `ResumeNotRestart`, `CompletedIndexedOrNoted`, `KeepsLastCopy` | one hand-over, nothing stranded, nothing paid for twice by a job, no silent loss |
| `transcription_live` | `FairSpec`; 1 request, 2 jobs, 1 try, 1 retry, 1 lost enqueue, 1 crash, 1 time-out | `Settles` | whatever is lost, the meeting ends |
| `transcription_lost_enqueue` | `Spec`; 1 lost enqueue | `HandedOverOnce` | **violated** (below) |
| `transcription_two_runs` | `Spec`; 1 retry, no fault | `OneIndex` | **violated** (below) |
| `scheduler_replicas` | `EitherSpec`; 1 event, 2 bookings; two replicas with one meeting or one with two; 3 ticks; one edit, lost answer or crash | `NoClaimForgotten`, `AskedOnce`, `OneBookingPerEvent`, `StopHolds`, `InTheWindow`, `Settles` | a booking is asked for once, in its window, not on a stopped row, and always ends |
| `recorder_pool` | `FocusSpec`; 2 recorders of 1 slot and 2 meetings without faults, or 1 recorder with 1 fault, or 1 recorder and 1 meeting with 2 changes of its sign-in | `TypeOK`, `NoSlotTwice`, `KeysExpire`, `DeadHostSkipped`, `Placed`, `HealthFollows` | old heartbeats and expiring reservations promise no slot twice and keep nobody waiting; a counter stays in two named cases only |
| `billing_reports` | `FocusSpec`; 2 orders, 2 requests at a time, 1 fault, 2 days; or 1 order and 2 requests against limits of 1; or 5 requests in 4 ticks at a limiter of 1 | `PaidPlanOnly`, `NotTwice`, `PaidForIsServed`, `WithinAllowance`, `RateHeld`, `PaidDelivered` | reports in any order, twice, overlapping and late; the limits drawn on meanwhile |
| `asking_questions` | `FocusSpec`; 2 questions with 2 rounds, 2 retries of each provider and 1 fault; or 3 questions in 2 chats and a cache of 1; or 2 clicks overtaken by an answer and deletions | `WellFormed`, `KeepsContext`, `StoredIsShown`, `DeletedForgotten`, `NewChatServed`, `TurnsEnd` | histories stay acceptable, contexts in step, deleted chats forgotten |

Why these bounds are enough to mean something: two recorders are what a double join
needs, two jobs what a race for a claim needs (a crash after `_requeue` makes the
second, an arq re-run makes the same one start over), two attempts make a return to
the queue and an exhaustion both happen, and two report attempts let a second overtake
the first. Two meetings matter only where they contend for a slot, which
`dispatch_contended` has. `MaxRetries` bounds an owner who retries for ever.

The last four runs have a `focus`: a behaviour looks at one of several questions, whose
parts do not touch each other's variables. A race for one claim takes two replicas and
one meeting, a stale list takes one replica and two meetings; a slot promised twice
takes two jobs, a choice takes two recorders; two orders are what an upgrade during
a renewal needs, and two requests an overlap; a cache of one evicts under a running
turn, and a third question meets what the first two left; an answer and two deletions
are the three overtakings after which "New chat" gives up.
Deadlock is not checked because the systems do stop: every meeting ends.

**Fairness.** arq runs what Redis holds (`Running`), requests are served to their
end, every wait of a recorder is bounded (the join's time-outs, five minutes of
admission, the hard cap of a recording, the attempts of an upload and of a report),
and `main.py` calls the watchdog every five minutes. Owners, pings and faults owe
nothing. `LeavesQueue` assumes no watchdog at all and, because owners only take
meetings out of the queue earlier, no owner requests. The scheduler's sweep goes on
because each of its calls has a time-out and `main.py` starts the next one; Google's
answer is any. `Placed` assumes that recorders answer polls and jobs retry. `SF` on
the two ends of a keep-alive check says that a check of one platform is not for
ever overtaken by the start of another: `AuthKeepAlive` makes them in turn.
`PaidDelivered` assumes that Razorpay repeats a webhook until it is acknowledged,
which its service promises; `TurnsEnd` that a provider's call ends, which its
time-outs ensure, and that a lock's next waiter is woken. No client, owner, click,
deletion or fault is fair.

**TTLs.** There is no clock. `Overdue` says what the TTLs of `config.py:127-149` mean
for a sweep: a row is not swept from "joining" under a claim or a join that is still
going on (seconds and a minute or two, against ten minutes), nor from an admission
wait or a recording that the recorder itself ends earlier; in the pipeline it is not
swept under a request that touched it seconds ago. A queued job, a running job, an
upload or a late report give no such guarantee, and may be swept under.

### What the violations show

1. **`dispatch_lost_answer`.** The recorder accepts a join and its 202 is lost.
   `_return_to_queue` clears `bot_host_id` and the row says "queued" while the bot is
   in the call. The owner presses Stop and is told "stopped"; the bot stays.
   `bot_dispatch.py:231` states that no join was ever posted. From the same state a
   second attempt may go to the other recorder: two bots in one call.
2. **`transcription_lost_enqueue`.** `enqueue_job` succeeds and the call still raises.
   The webhook undoes its claim and answers 503, and the recorder's next attempt
   hands the recording over again; `webhooks.py:143-145` states that at most one
   transcription holds.
3. **`transcription_two_runs`.** A job passes the watchdog's 30 minutes, the row is
   swept, the owner retries, and both runs execute the DELETE of `index_transcript`
   before either commits. Nothing in `meeting_chunks` is unique, so the search sees
   every passage twice; `embedding_service.py:269-270` calls it safe to call again, and
   `transcription_service.py:586-587` a duplicate cheap.

### What the properties leave room for

Some properties hold only with an exception, which they name; and some of what the
code does no run records as a violation, because nothing written says otherwise.

- *Pipeline.* A delayed "recording" ping can reach the "uploading" of an accepted
  re-upload (`tests/test_webhook_uploading_pings.py:17-19` says it cannot); the next
  report repairs the status. `_mark_failed` of a second run may turn a completed meeting
  to "failed"; a retry then resumes from its transcript. A run that outlives
  `job_timeout` and whose indexing then fails leaves a completed meeting with neither an
  index nor a note, although "the worker writes that same note once retries are
  exhausted" (`transcription_service.py:386-387`); a run that resumed from an empty
  transcript may complete the meeting over one that another run stored and could not
  index. Both are exceptions of `CompletedIndexedOrNoted`, with the job whose process
  dies in its last try. `ClaimHasWork` ends with the owner's first retry: one whose
  enqueue raised, or whose resumed run cannot index, stays "transcribing" until the
  watchdog.
- *Scheduler.* A sweep that lists long before it claims joins by the old start time, so
  `InTheWindow` excuses a meeting that was moved after the listing. A failing token
  endpoint aborts a sweep between the claim and the join: the row stays "queued" until
  the watchdog fails it, and so does a delete under the sweep. A give-back writes
  "scheduled" over whatever is there and revives a meeting stopped meanwhile; the
  owner who was told "stopped" is then out of `StopHolds`.
- *Pool.* A counter can stay in two ways, against "they expire" (`bot_registry.py:417`).
  A worker that dies between INCR and EXPIRE (lines 493-494) leaves one for ever, which
  keeps the recorder from being chosen: `Placed` excepts it too. And, with no failure at
  all, the key may run out before the DECR of a dispatch that found the recorder full
  (lines 494-496): the DECR makes a new key of -1 without an expiry, which
  `release_host` would delete and `_reserve` does not look at. That one keeps nobody
  waiting, but a dispatch that counts on from it is granted a slot that no counter
  holds, until the next EXPIRE. Both are exceptions of `KeysExpire`. A release that
  comes after its own reservation ran out takes another's (line 480), the exception of
  `NoSlotTwice`. A keep-alive that began before a join found the sign-in expired
  overwrites the verdict with "ok" (`AuthKeepAlive.js:124-125`). Zoom joins never report
  an expired sign-in.
- *Billing.* A sweep and a renewal that both read the row before either writes leave
  "expired" under a paid period, because the renewal's "active" is no change to its
  session; this is the exception of `PaidForIsServed`. Two overlapping reports of one
  order each grant it, and a failure read before the grant rewrites "paid" to "failed",
  so that a later report grants again: the exception of `NotTwice`.
- *Limits.* Two requests that count before either writes pass a limit with room for
  one; `WithinAllowance` says that nothing else does.
- *Chats.* A client that leaves closes the generator, and neither `except Exception`
  (`agent_runner.py`) nor a rollback runs: the session keeps a question without an
  answer or a call without a result, the exception of `WellFormed`. Eviction under a
  held lock gives a chat two sessions (`session_cache.py:18`), the exception of
  `KeepsContext`; two browser sessions of one meeting's chat have two histories by the
  key's design, and are outside the model. A save that a leaving client's thread
  finishes after the lock was released is one step with the release. That a warm and a
  cold session see "exactly as much context" (`chat_service.py:38-41`) holds of text
  only: a warm history counts its tool entries.

## 4. What is proved

`BotDispatchProofs` proves, from the assumptions on the constants alone
(`NoHostAssumption`, `DispatchAssumption`), for any number of meetings, recorders, jobs,
lost answers and crashes:

| Theorem | States |
|---|---|
| `Invariance` | `Spec => []IInv` |
| `TypeCorrect` | `Spec => []TypeOK` |
| `ClaimsExclusive` | `Spec => []ClaimExclusive` |
| `JoiningAlwaysHasRecorder` | `Spec => []JoiningHasRecorder` |
| `RowsMoveForward` | `Spec => ForwardOnly` |

`ClaimExclusive` is not inductive alone. A second job could claim a meeting whose
first claimant is still posting if the row had gone back to "queued", so `IInv` adds
`ClaimedNotQueued`: under a claim the row is not queued. That in turn needs every
other statement on a row never to write "queued", which the predicate `Tame` says of
them all, once per UPDATE (`PlainWritesTame`, `PingsTame`, `ReportsTame`). The claim
and its undo are the two statements that are not tame and get a proof of their own.
`JoiningHasRecorder` needs that a claim writes a recorder that exists (`JobsSound`).
`RowsMoveForward` lists every value a step can leave in a row (`StepWrites`) and shows
each to be forward (`WritesForward`); that a deleted meeting stays deleted needs
`Unbooked` besides.

`OneRecorderProofs` and `LeaseProofs` add the assumption `MaxLost = 0` to those two: no
answer is lost after its request took effect. Crashes stay, in any number.

| Theorem | States |
|---|---|
| `TokensInvariant` | `Spec => []Tokens` |
| `OneRecorderAlways` | `Spec => []OneRecorder` |
| `RecorderAlwaysOnRecord` | `Spec => []RecorderOnRecord` |
| `StoppedForGood` | `Spec => []StoppedStaysStopped` |
| `LeaseImplemented` | `Spec => ImplementsLease` |

None of the properties is inductive: what they forbid is prepared steps earlier, by a
request on its way when its job starts over. `Tokens` says of each meeting that it has
one token at most, a claim, a request or a session; that nothing is left of it under a
queued row (`QueuedQuiet`), which is what makes the next claim safe; and that the
recorder of the token is the one in the row (`OnRecord`). Most steps bring a meeting
nothing new (`Less`, `Calm`); the claim, the post, the answer and the return pass the
token on and are proved one by one. A job returns a row to the queue only after a
refusal, which leaves nothing behind; with a lost answer it does so under a live
session, `QueuedQuiet` fails, and `dispatch_lost_answer` shows what follows. For the
refinement, a recorder is given a meeting by the claim alone (`StepGives`), and no
statement on a closed row opens it (`StaysClosed`).

`SchedulerProofs`, from `SchedulerAssumption`, for any number of replicas, meetings,
events and faults:

| Theorem | States |
|---|---|
| `Invariance` | `Spec => []IInv` |
| `TypeCorrect` | `Spec => []TypeOK` |
| `BotsAskedOnce` | `Spec => []AskedOnce` |
| `ClaimsAreExclusive` | `Spec => []OneOwner` |
| `StopsHold` | `Spec => []StopHolds` |
| `BookingsUnique` | `Spec => []OneBookingPerEvent` |
| `ClaimsRemembered` | `Spec => []NoClaimForgotten` |
| `JoinsInTheWindow` | `Spec => InTheWindow` |

`AskedOnce` is not inductive: a second bot would be asked for if a row went back to
"scheduled" after a request, or two sweeps held one meeting. `IInv` adds that a row
that can still be claimed has no request and no sweep at work on it
(`UnclaimedUnasked`, `ClaimTaken`), that a claimed meeting has one owner (`OneOwner`)
and no request before its owner's, and that what was listed was booked. `SweepMoves`
shows once what a sweep may do to the rows (`Effect`), and every step is an
instance of it. The rest builds on that invariant. A stop takes the row out of
"scheduled" and no write of a sweep brings it back (`StopKept`). `OneLive` says without
counting that two live rows have two events; a request that found no live row at its
check books under the table's unique index. `InTime` follows a time from the list to
the join: a listed row that is still "scheduled" has the time it was listed with unless
another sweep gave it back meanwhile (`stale`), and after the claim only the owner
writes it (`ListedInTime`, `HeldInTime`).

`TranscriptionProofs`, from `TranscriptionAssumption`, for any number of requests, jobs,
tries, retries, time-outs and crashes:

| Theorem | States |
|---|---|
| `TypeCorrect` | `Spec => []TypeOK` |
| `LastCopyKept` | `Spec => KeepsLastCopy` |
| `HandedOnce` | `Spec => [](lost = 0 => HandedOverOnce)` |
| `ClaimsHaveWork` | `Spec => [](lost = 0 => ClaimHasWork)` |
| `ResumesNotRestarts` | `Spec => []ResumeNotRestart` |
| `SavedIsSearchableOrNoted` | `Spec => []CompletedIndexedOrNoted` |

`lost` counts the enqueues that landed and raised; `transcription_lost_enqueue` shows
that one of them is enough to break `HandedOverOnce`, which is why two theorems speak of
the states before the first, whatever `MaxLost` is. `HandedOverOnce` and `ClaimHasWork`
are not inductive. From a request's claim on the row is marked: its url is set and its
status is one a report is refused over (`AcceptedIsMarked`). Two steps unmark it, the
undo and the re-upload of a retry. The undo ends a hand-over that came to nothing, and
one is made at a time (`OneHandOver`); the re-upload comes before any hand-over
(`FirstUpload`), because what was handed over has its file in the bucket until the owner
deletes it (`FileKept`). `OneJob` then says that a hand-over leaves one job, so that
"transcribing" has somebody at work (`ClaimIsBusy`). A job that has stored its transcript
finds it unless the meeting is gone (`StoredOrGone`). `SavedIsAnswered` is the invariant
under `CompletedIndexedOrNoted`: while a completed meeting's transcript is not indexed
and the note is not there, some job will still index it, fail the meeting, write the
note or drop its outcome. It is carried over every statement that takes the note back:
each of them also takes the row out of "completed", but for the completion of a second
run, and that run has yet to index.

`RecorderPoolProofs`, from `PoolAssumption`, for any number of recorders, meetings and
faults, any capacity and any TTLs:

| Theorem | States |
|---|---|
| `TypeCorrect` | `Spec => []TypeOK` |
| `SlotsGrantedOnce` | `Spec => []NoSlotTwice` |
| `ReservationsExpire` | `Spec => []KeysExpire` |
| `DeadHostsSkipped` | `Spec => DeadHostSkipped` |

A slot is granted by an INCR that read a value within the capacity. That the grants that
still count are no more than the capacity needs that the counter is at least the number
of meetings counted in it (`Slots`), and this that those are finitely many, that a job
names its recorder from the INCR on and never before (`Named`), and that a key that runs
out takes what it counted with it (`lapsed`): a release after that may leave the counter
too low for nobody. `KeysExpire` needs that there is no value without a key (`Keys`), so
that a DECR that makes one leaves it below zero, and then one case for each Redis command.
`DeadHostSkipped` needs that a heartbeat is no younger than its
recorder's silence (`Heard`).

`BillingProofs`, from `BillingAssumption`, `AllowanceAssumption` and `RateLimitAssumption`,
for any number of orders, requests and days, any limits and any window:

| Theorem | States |
|---|---|
| `PurchasesSound` | `BillingSpec => []BillingInv` |
| `PlansArePaidFor` | `BillingSpec => []PaidPlanOnly` |
| `GrantedOnce` | `BillingSpec => []NotTwice` |
| `PromisesKept` | `BillingSpec => []PaidForIsServed` |
| `AllowanceKept` | `AllowanceSpec => WithinAllowance` |
| `KeysApart` | `LimiterSpec => []LimiterInv` |
| `LimitKept` | `LimiterSpec => []RateHeld` |

A merge of two transactions could pair the plan of one with the end of another.
`SubscriptionBacked` says why it does not matter: a request that read another plan than
the one in the table was overtaken by a grant of the same day, so whichever plan the
merge leaves was bought for as long as the end it leaves. `SettledOnce` says that,
unless two reports overlapped, nobody who has not read "paid" is left after a grant.
`Served` adds for `PromisesKept` that a sweep under way read a row that had run out, so
that it takes no plan in force back. `AllowanceInv` says that a request that was let in
today and that nobody overtook has room for its row by the plan it was let in on
(`HasRoom`); counting it needs that the rows written are finitely many. For the limiter,
`LimiterInv` says that the keys of a scope begin at least a window apart, even if one loses
its expiry and is given another, and that a key numbers what it lets through: a stretch of
one window has seen the key it began with and at most one more, and each let through as
many as there are numbers up to the limit.

`ConversationsProofs`, from `ConversationsAssumption`, for any number of chats, questions
and clicks, any capacity, rounds and retries, and any even limit that holds a turn:

| Theorem | States |
|---|---|
| `ClicksCounted` | `Spec => []ClickInv` |
| `NewChatsServed` | `Spec => []NewChatServed` |
| `SessionsOwned` | `Spec => []Owned` |
| `DeletedChatsForgotten` | `Spec => []DeletedForgotten` |
| `ShownAsStored` | `Spec => []StoredIsShown` |
| `SessionsInStep` | `Spec => []ContextInv` |
| `HistoriesWellFormed` | `Spec => []WellFormed` |
| `ContextKept` | `Spec => []KeepsContext` |

A click is overtaken once for every try: between its insert and its select it is behind
its count by one at most, and then an empty chat exists for it.

`Owned` says whose sessions are whose: a session is of one chat and its lock of one
turn; a turn is spoken of in its own session alone until it is stored, and in sessions
of its chat from then on. Only with that does it follow that a session made after its
chat was deleted and evicted knows nothing of what was erased: the eviction takes the
session that did know out of the cache, and a save that comes later finds its chat gone.

What is on a screen is of one provider and of rounds before the one under way
(`ShownInv`): a retry takes all of it back, and Groq begins on an empty screen.

`ContextInv` is the invariant of the other two, in three parts. `Single`: a chat that is
not in `split` has one session in use. `Between`: a session nobody holds is made of whole
exchanges, is empty or ends in the last one stored, and has that one recent enough to
survive the cut to `Limit`. `During`: the session of a turn is that below the turn's mark, and above it
the question and at most two entries for each round, so that rolling back restores
`Between` and storing the exchange extends it. This is where `2 * MaxIterations <= Limit`
is needed: a longer turn would cut its own question off. Every step is either one that
speaks in no session (lemma `Aside`) or one by which a single turn speaks in its own
(lemma `InSession`), so the argument is made twice and not for each action.

Only model-checked: every liveness property (`LeavesQueue`, `Settles`, `Placed`,
`HealthFollows`, `PaidDelivered`, `TurnsEnd`), since liveness under fairness and ENABLED are
out of the prover's reach; and the three violations, which are counterexamples. Every
safety property of a passing run is a theorem.

## 5. Not modelled, and why

The browser bots, audio capture and detectors (what a page shows); the wording of
errors; prompts, embeddings and prices; sign-in and OAuth; PDF export; observability;
the frontend; migrations. Both cut-over switches are on: with `BOT_DISPATCH_USE_QUEUE` or
`TRANSCRIPTION_USE_QUEUE` off, the code takes an older synchronous path that is not
modelled. In billing, signatures and amounts are data and `cancel_at_period_end` is
only shown. In the chats, titles, the summary backfill and what a tool finds are left
out: they change nothing a turn depends on. Two browser sessions of one meeting's chat
share a stored thread and no history, by design of the key.

## 6. Plan

Done: the dispatcher, the pipeline, the scheduler, the pool, billing with its limits, and
the chats; proofs of the claims, of the lease and of every safety property the runs check.
Next:

1. Lemmas under the liveness properties: the state a fair step leads to and what keeps it
   there, which the prover can reach without ENABLED.
