----------------------------- MODULE Scheduler -----------------------------
(***************************************************************************)
(* Calendar bookings (services/scheduler.py, api/calendar.py,              *)
(* services/calendar_service.py): the owner books events of a Google       *)
(* calendar, every backend replica sweeps for bookings that are due,       *)
(* claims them one by one, asks Google whether the event is still what it  *)
(* was, and asks for a bot.  Between two network or database calls of a    *)
(* sweep everything else may happen: another replica's sweep, an edit in   *)
(* the calendar, a stop, a delete, a crash.                                *)
(*                                                                         *)
(* BOT_DISPATCH_USE_QUEUE is on.  What becomes of a dispatch job is module *)
(* BotDispatch; here it takes a queued row or is dropped.  One owner: the  *)
(* code never relates two.  Time is counted in ticks, and a sweep may last *)
(* any number of them.                                                     *)
(***************************************************************************)
EXTENDS Naturals, FiniteSets

CONSTANTS
    Replicas,     \* backend processes, each with a _scheduler_loop
    Meetings,     \* ids of rows that may be inserted; none is used twice
    Events,       \* events of the owner's calendar
    Requests,     \* POST /calendar/events/{id}/schedule requests
    Starts,       \* start times an event may be given
    Links,        \* Meet and Zoom links
    NoMeeting,
    NoEvent,      \* calendar_event_id of a row that was not booked
    NoLink,       \* extract_meeting_url found nothing
    NoTime,       \* NULL in scheduled_at, as in a row that was never booked
    Lead,         \* calendar_join_lead_minutes
    Grace,        \* _MISSED_GRACE_MINUTES
    MaxTime,      \* bound: the clock stops here
    MaxEdits,     \* bound: changes made in Google or to the connection
    MaxLost,      \* bound: enqueues whose answer is lost
    MaxCrashes    \* bound: replicas that die in a sweep

ASSUME SchedulerAssumption ==
    /\ NoMeeting \notin Meetings
    /\ NoEvent \notin Events
    /\ NoLink \notin Links
    /\ Starts \subseteq Nat
    /\ NoTime \notin Starts
    /\ Lead \in Nat /\ Grace \in Nat /\ MaxTime \in Nat
    /\ MaxEdits \in Nat /\ MaxLost \in Nat /\ MaxCrashes \in Nat

VARIABLES
    clock,
    row,      \* the meetings table
    event,    \* what Google would answer for each event
    conn,     \* the owner's calendar_connections row, and whether Google honours it
    request,  \* the booking requests
    sweep,    \* trigger_due_meetings in each replica
    jobs,     \* dispatch jobs of each meeting waiting in Redis
    asked,    \* history: bots asked for since the booking was made or given back
    stale,    \* history: meetings given back since each replica listed them
    told,     \* history: meetings whose owner was told "stopped", and not given back since
    dropped,  \* history: meetings whose sweep ended between the claim and its end
    edits, lost, crashes

vars == <<clock, row, event, conn, request, sweep, jobs, asked, stale, told,
          dropped, edits, lost, crashes>>

None == [status |-> "none", at |-> NoTime, link |-> NoLink, event |-> NoEvent]
\* A crash between the two commits POST /meetings once made left such a row.
Leftover == [None EXCEPT !.status = "scheduled"]
Exists(m) == row[m].status \notin {"none", "deleted"}

Row == [status: {"none", "scheduled", "queued", "joining", "failed", "deleted"},
        at: Starts \cup {NoTime}, link: Links \cup {NoLink},
        event: Events \cup {NoEvent}]

Gone == [kind |-> "gone", start |-> NoTime, link |-> NoLink]
AllDay == [kind |-> "allday", start |-> NoTime, link |-> NoLink]
Timed(t, l) == [kind |-> "timed", start |-> t, link |-> l]
Event == {Gone, AllDay} \cup {Timed(t, l): t \in Starts, l \in Links \cup {NoLink}}

NewRequest == [pc |-> "new", event |-> NoEvent, got |-> Gone]
Served == [NewRequest EXCEPT !.pc = "done"]
Request == [pc: {"new", "fetched", "checked", "done"},
            event: Events \cup {NoEvent}, got: Event]

\* loaded: the session's objects have not been expired by a commit.
Asleep == [pc |-> "asleep", now |-> 0, due |-> {}, m |-> NoMeeting, got |-> Gone,
           loaded |-> FALSE]
Sweep == [pc: {"asleep", "loop", "missed", "due", "claimed", "verified", "failing",
               "moved", "changed", "joining"},
          now: 0..MaxTime, due: SUBSET [m: Meetings, at: Starts],
          m: Meetings \cup {NoMeeting}, got: Event, loaded: BOOLEAN]

TypeOK ==
    /\ clock \in 0..MaxTime
    /\ row \in [Meetings -> Row]
    /\ event \in [Events -> Event]
    /\ conn \in {"none", "valid", "revoked"}
    /\ request \in [Requests -> Request]
    /\ sweep \in [Replicas -> Sweep]
    /\ jobs \in [Meetings -> Nat]
    /\ asked \in [Meetings -> Nat]
    /\ stale \in [Replicas -> SUBSET Meetings]
    /\ told \subseteq Meetings
    /\ dropped \subseteq Meetings
    /\ edits \in 0..MaxEdits
    /\ lost \in 0..MaxLost
    /\ crashes \in 0..MaxCrashes

Init ==
    /\ clock = 0
    /\ row \in [Meetings -> {None, Leftover}]
    /\ Cardinality({m \in Meetings: row[m] = Leftover}) <= 1
    /\ event \in [Events -> {Timed(t, l): t \in Starts, l \in Links}]
    /\ conn = "valid"
    /\ request = [q \in Requests |-> NewRequest]
    /\ sweep = [r \in Replicas |-> Asleep]
    /\ jobs = [m \in Meetings |-> 0]
    /\ asked = [m \in Meetings |-> 0]
    /\ stale = [r \in Replicas |-> {}]
    /\ told = {}
    /\ dropped = {}
    /\ edits = 0
    /\ lost = 0
    /\ crashes = 0

-----------------------------------------------------------------------------
(* The calendar, its connection and the clock. *)

outside == <<row, request, sweep, jobs, asked, stale, told, dropped, lost, crashes>>

Tick ==
    /\ clock < MaxTime
    /\ clock' = clock + 1
    /\ UNCHANGED <<event, conn, edits, outside>>

EditEvent(e) ==
    /\ edits < MaxEdits
    /\ edits' = edits + 1
    /\ \E v \in Event \ {event[e]} : event' = [event EXCEPT ![e] = v]
    /\ UNCHANGED <<clock, conn, outside>>

\* DELETE /calendar/disconnect, the consent screen's callback, and Google
\* rejecting the stored refresh token.
ChangeConnection ==
    /\ edits < MaxEdits
    /\ edits' = edits + 1
    /\ \/ conn' = "none"
       \/ conn' = "valid"
       \/ conn = "valid" /\ conn' = "revoked"
    /\ UNCHANGED <<clock, event, outside>>

-----------------------------------------------------------------------------
(* POST /calendar/events/{event_id}/schedule.  What the plan and its quota *)
(* allow is module Billing's.                                              *)

booking == <<clock, event, conn, sweep, jobs, stale, told, dropped, edits, lost, crashes>>

\* Without a token, a link or a start time the request is refused, as it is
\* when Google cannot be reached.
FetchEvent(q) ==
    /\ request[q].pc = "new"
    /\ \/ \E e \in Events :
            /\ conn = "valid"
            /\ event[e].kind = "timed"
            /\ event[e].link # NoLink
            /\ request' = [request EXCEPT ![q] =
                             [pc |-> "fetched", event |-> e, got |-> event[e]]]
       \/ request' = [request EXCEPT ![q] = Served]
    /\ UNCHANGED <<row, asked, booking>>

LiveRows(e) == {m \in Meetings: Exists(m) /\ row[m].event = e}

CheckExisting(q) ==
    /\ request[q].pc = "fetched"
    /\ request' = IF LiveRows(request[q].event) = {}
                  THEN [request EXCEPT ![q].pc = "checked"]
                  ELSE [request EXCEPT ![q] = Served]
    /\ UNCHANGED <<row, asked, booking>>

Booked(q) == [status |-> "scheduled", at |-> request[q].got.start,
              link |-> request[q].got.link, event |-> request[q].event]

\* OneBookingPerEvent: nothing but the SELECT guards the insert.
InsertBookingBug(q) ==
    /\ request[q].pc = "checked"
    /\ \E m \in Meetings :
         /\ row[m] = None
         /\ row' = [row EXCEPT ![m] = Booked(q)]
    /\ request' = [request EXCEPT ![q] = Served]
    /\ UNCHANGED <<asked, booking>>

\* The insert; a second row of the event breaks the unique index on
\* (user_id, calendar_event_id), and the request ends in an error.
InsertBooking(q) ==
    /\ request[q].pc = "checked"
    /\ \/ /\ LiveRows(request[q].event) = {}
          /\ \E m \in Meetings :
               /\ row[m] = None
               /\ row' = [row EXCEPT ![m] = Booked(q)]
       \/ LiveRows(request[q].event) # {} /\ UNCHANGED row
    /\ request' = [request EXCEPT ![q] = Served]
    /\ UNCHANGED <<asked, booking>>

-----------------------------------------------------------------------------
(* trigger_due_meetings in replica r. *)

sweeping == <<clock, event, conn, request, told, edits, crashes>>

Continue(s) ==
    IF s.due = {} THEN Asleep
    ELSE [Asleep EXCEPT !.pc = "loop", !.now = s.now, !.due = s.due]

\* Between the claim and its end a meeting is in the hands of one sweep.
Owns(r, m) ==
    /\ sweep[r].m = m
    /\ sweep[r].pc \in {"claimed", "verified", "failing", "moved", "changed", "joining"}

Becomes(r, s) == sweep' = [sweep EXCEPT ![r] = s] /\ UNCHANGED dropped
Goto(r, pc) == Becomes(r, [sweep[r] EXCEPT !.pc = pc])
GoOn(r) == Becomes(r, Continue(sweep[r]))
\* An exception that trigger_due_meetings does not catch ends the sweep.
Abort(r) ==
    /\ sweep' = [sweep EXCEPT ![r] = Asleep]
    /\ dropped' = dropped \cup {m \in Meetings: Owns(r, m)}

Due == {[m |-> n, at |-> row[n].at]:
          n \in {m \in Meetings: /\ row[m].status = "scheduled"
                                 /\ row[m].at # NoTime
                                 /\ row[m].at <= clock + Lead}}

ListDue(r) ==
    /\ sweep[r].pc = "asleep"
    /\ Due # {}
    /\ Becomes(r, [Asleep EXCEPT !.pc = "loop", !.now = clock, !.due = Due, !.loaded = TRUE])
    /\ stale' = [stale EXCEPT ![r] = {}]
    /\ UNCHANGED <<row, jobs, asked, lost, sweeping>>

Missed(t, now) == t + Grace < now

\* The next meeting of the list.  The first is looked at as it was listed;
\* every commit expires the rest, so they are read again, and one that was
\* deleted meanwhile raises.
Consider(r) ==
    /\ sweep[r].pc = "loop"
    /\ \E d \in sweep[r].due :
         LET t == IF sweep[r].loaded THEN d.at ELSE row[d.m].at
         IN  IF ~sweep[r].loaded /\ ~Exists(d.m)
             THEN Abort(r)
             ELSE Becomes(r, [sweep[r] EXCEPT
                                !.pc = IF Missed(t, sweep[r].now) THEN "missed" ELSE "due",
                                !.m = d.m,
                                !.due = @ \ {d}])
    /\ UNCHANGED <<row, jobs, asked, stale, lost, sweeping>>

\* _claim(status="failed").
FailMissed(r) ==
    LET m == sweep[r].m
    IN  /\ sweep[r].pc = "missed"
        /\ row' = [row EXCEPT ![m].status = IF @ = "scheduled" THEN "failed" ELSE @]
        /\ GoOn(r)
        /\ UNCHANGED <<jobs, asked, stale, lost, sweeping>>

\* AskedOnce: the row count of the UPDATE is not looked at.
ClaimDueBug(r) ==
    LET m == sweep[r].m
    IN  /\ sweep[r].pc = "due"
        /\ row' = [row EXCEPT ![m].status = IF @ = "scheduled" THEN "queued" ELSE @]
        /\ Becomes(r, [sweep[r] EXCEPT !.pc = "claimed", !.loaded = TRUE])
        /\ UNCHANGED <<jobs, asked, stale, lost, sweeping>>

\* _claim(status=initial_status()).
ClaimDue(r) ==
    LET m == sweep[r].m
    IN  /\ sweep[r].pc = "due"
        /\ IF row[m].status = "scheduled"
           THEN /\ row' = [row EXCEPT ![m].status = "queued"]
                /\ Becomes(r, [sweep[r] EXCEPT !.pc = "claimed", !.loaded = TRUE])
           ELSE /\ UNCHANGED row
                /\ GoOn(r)
        /\ UNCHANGED <<jobs, asked, stale, lost, sweeping>>

\* get_valid_access_token.  The row is read again first; and an answer of the
\* token endpoint that is neither a token nor a rejection is caught nowhere.
GetToken(r) ==
    /\ sweep[r].pc = "claimed"
    /\ \/ ~Exists(sweep[r].m) /\ Abort(r)
       \/ Exists(sweep[r].m) /\ conn # "valid" /\ Goto(r, "failing")
       \/ Exists(sweep[r].m) /\ conn = "valid" /\ Goto(r, "verified")
       \/ Exists(sweep[r].m) /\ conn # "none" /\ Abort(r)
    /\ UNCHANGED <<row, jobs, asked, stale, lost, sweeping>>

\* InTheWindow: an event moved to a later time is joined as if it had not moved.
RevalidateBug(s, ev) ==
    LET r == row[s.m]
    IN  IF ev.kind # "timed" \/ Missed(ev.start, s.now) THEN "failing"
        ELSE IF ev.start # r.at \/ ev.link \notin {NoLink, r.link} THEN "changed"
        ELSE "joining"

\* What _revalidate_calendar_meeting makes of the event.
Revalidate(s, ev) ==
    LET r == row[s.m]
    IN  IF ev.kind # "timed" THEN "failing"
        ELSE IF ev.start # r.at /\ ev.start > s.now THEN "moved"
        ELSE IF ev.start # r.at /\ Missed(ev.start, s.now) THEN "failing"
        ELSE IF ev.start # r.at \/ ev.link \notin {NoLink, r.link} THEN "changed"
        ELSE "joining"

\* get_event: an answer; no answer or a 5xx, and the last-known details are
\* used; or access revoked since the token was issued.
GetEvent(r) ==
    LET ev == event[row[sweep[r].m].event]
    IN  /\ sweep[r].pc = "verified"
        /\ \/ LET pc == Revalidate(sweep[r], ev)
              IN  Becomes(r, [sweep[r] EXCEPT
                                !.pc = pc, !.got = IF pc \in {"moved", "changed"} THEN ev ELSE Gone])
           \/ Goto(r, "joining")
           \/ conn = "revoked" /\ Goto(r, "failing")
        /\ UNCHANGED <<row, jobs, asked, stale, lost, sweeping>>

\* _mark_failed and the except branch of the loop: by primary key, and a row
\* that is gone raises.
MarkFailed(r) ==
    LET m == sweep[r].m
    IN  /\ sweep[r].pc = "failing"
        /\ IF Exists(m)
           THEN row' = [row EXCEPT ![m].status = "failed"] /\ GoOn(r)
           ELSE UNCHANGED row /\ Abort(r)
        /\ UNCHANGED <<jobs, asked, stale, lost, sweeping>>

\* NoClaimForgotten: the new time is written and the claim is kept.
GiveBackBug(r) ==
    LET m == sweep[r].m
    IN  /\ sweep[r].pc = "moved"
        /\ IF Exists(m)
           THEN row' = [row EXCEPT ![m].at = sweep[r].got.start] /\ GoOn(r)
           ELSE UNCHANGED row /\ Abort(r)
        /\ UNCHANGED <<jobs, asked, stale, lost, sweeping>>

\* The meeting is not due after all: new time, and "scheduled" again.
GiveBack(r) ==
    LET m == sweep[r].m
    IN  /\ sweep[r].pc = "moved"
        /\ IF Exists(m)
           THEN /\ row' = [row EXCEPT ![m].at = sweep[r].got.start, ![m].status = "scheduled"]
                /\ GoOn(r)
                /\ asked' = [asked EXCEPT ![m] = 0]
                /\ stale' = [s \in Replicas |->
                               IF sweep[s].m = m \/ \E d \in sweep[s].due : d.m = m
                               THEN stale[s] \cup {m} ELSE stale[s]]
                /\ told' = told \ {m}
           ELSE UNCHANGED <<row, asked, stale, told>> /\ Abort(r)
        /\ UNCHANGED <<clock, event, conn, request, jobs, edits, lost, crashes>>

\* A start within the window, or another link.
UpdateDetails(r) ==
    LET m == sweep[r].m
        got == sweep[r].got
    IN  /\ sweep[r].pc = "changed"
        /\ IF Exists(m)
           THEN /\ row' = [row EXCEPT ![m].at = got.start,
                                      ![m].link = IF got.link = NoLink THEN @ ELSE got.link]
                /\ Becomes(r, [sweep[r] EXCEPT !.pc = "joining", !.got = Gone, !.loaded = FALSE])
           ELSE UNCHANGED row /\ Abort(r)
        /\ UNCHANGED <<jobs, asked, stale, lost, sweeping>>

Ask(m) ==
    /\ jobs' = [jobs EXCEPT ![m] = @ + 1]
    /\ asked' = [asked EXCEPT ![m] = @ + 1]

\* StopHolds: the status is written again with the request.
TriggerJoinBug(r) ==
    LET m == sweep[r].m
    IN  /\ sweep[r].pc = "joining"
        /\ Ask(m)
        /\ row' = [row EXCEPT ![m].status = IF Exists(m) THEN "queued" ELSE @]
        /\ GoOn(r)
        /\ UNCHANGED <<stale, lost, sweeping>>

\* trigger_bot_join.  The job lands, or Redis is not reached, or it lands and
\* the answer is lost; a commit before it makes the session read the row again.
TriggerJoin(r) ==
    LET m == sweep[r].m
    IN  /\ sweep[r].pc = "joining"
        /\ \/ ~sweep[r].loaded /\ ~Exists(m) /\ Abort(r) /\ UNCHANGED <<jobs, asked, lost>>
           \/ /\ sweep[r].loaded \/ Exists(m)
              /\ \/ Ask(m) /\ GoOn(r) /\ UNCHANGED lost
                 \/ Goto(r, "failing") /\ UNCHANGED <<jobs, asked, lost>>
                 \/ /\ lost < MaxLost
                    /\ lost' = lost + 1
                    /\ Ask(m)
                    /\ Goto(r, "failing")
        /\ UNCHANGED <<row, stale, sweeping>>

SweepStep(r) ==
    \/ ListDue(r) \/ Consider(r) \/ FailMissed(r) \/ ClaimDue(r)
    \/ GetToken(r) \/ GetEvent(r)
    \/ MarkFailed(r) \/ GiveBack(r) \/ UpdateDetails(r) \/ TriggerJoin(r)

Crash(r) ==
    /\ sweep[r].pc # "asleep"
    /\ crashes < MaxCrashes
    /\ crashes' = crashes + 1
    /\ Abort(r)
    /\ UNCHANGED <<clock, row, event, conn, request, jobs, asked, stale, told, edits, lost>>

-----------------------------------------------------------------------------
(* The dispatcher, the owner's other requests, and the watchdog. *)

others == <<clock, event, conn, request, sweep, asked, stale, dropped, edits, lost, crashes>>

\* A dispatch job joins the meeting, or gives up, or finds it not queued.
Dispatch(m) ==
    /\ jobs[m] > 0
    /\ jobs' = [jobs EXCEPT ![m] = @ - 1]
    /\ IF row[m].status = "queued"
       THEN \E s \in {"joining", "failed"} : row' = [row EXCEPT ![m].status = s]
       ELSE UNCHANGED row
    /\ UNCHANGED <<told, others>>

\* POST /meetings/{id}/stop of a meeting that has no bot yet.
Stop(m) ==
    /\ row[m].status = "queued"
    /\ row' = [row EXCEPT ![m].status = "failed"]
    /\ told' = told \cup {m}
    /\ UNCHANGED <<jobs, others>>

Delete(m) ==
    /\ Exists(m)
    /\ row' = [row EXCEPT ![m].status = "deleted"]
    /\ UNCHANGED <<jobs, told, others>>

\* Settles: the sweep by status and age only, which leaves "scheduled" alone.
SweepUntimedBug(m) ==
    /\ row[m].status = "queued"
    /\ row[m].at = NoTime
    /\ row' = [row EXCEPT ![m].status = "failed"]
    /\ UNCHANGED <<jobs, told, others>>

\* sweep_stale_meetings: the TTL of "queued" is 30 minutes (config.py:149), a
\* claim lasts seconds.
SweepQueued(m) ==
    /\ row[m].status = "queued"
    /\ \A r \in Replicas : ~Owns(r, m)
    /\ row' = [row EXCEPT ![m].status = "failed"]
    /\ UNCHANGED <<jobs, told, others>>

\* _sweep_scheduled_without_a_time.
SweepUntimed(m) ==
    /\ row[m].status = "scheduled"
    /\ row[m].at = NoTime
    /\ row' = [row EXCEPT ![m].status = "failed"]
    /\ UNCHANGED <<jobs, told, others>>

Next ==
    \/ Tick
    \/ ChangeConnection
    \/ \E e \in Events : EditEvent(e)
    \/ \E q \in Requests : FetchEvent(q) \/ CheckExisting(q) \/ InsertBooking(q)
    \/ \E r \in Replicas : SweepStep(r) \/ Crash(r)
    \/ \E m \in Meetings : Dispatch(m) \/ Stop(m) \/ Delete(m) \/ SweepQueued(m) \/ SweepUntimed(m)

Spec == Init /\ [][Next]_vars

\* main.py runs both sweeps for ever, arq runs what Redis holds, time passes.
\* Owners, calendars and faults owe nothing.
Fairness ==
    /\ WF_vars(Tick)
    /\ \A r \in Replicas : WF_vars(SweepStep(r))
    /\ \A m \in Meetings : WF_vars(Dispatch(m)) /\ WF_vars(SweepQueued(m)) /\ WF_vars(SweepUntimed(m))

FairSpec == Spec /\ Fairness

-----------------------------------------------------------------------------
(* Properties. *)

\* _claim's promise over all replicas (scheduler.py:29-32): a booking's bot is
\* asked for once, however many sweeps list it, die or are overtaken.  Only a
\* claim given back for a later time earns a second request.
AskedOnce == \A m \in Meetings : asked[m] <= 1

\* "No other replica can be touching this row" (scheduler.py:64-65): between
\* the claim and its end, the meeting is in the hands of one sweep.
OneOwner ==
    \A m \in Meetings : \A r, s \in Replicas : Owns(r, m) /\ Owns(s, m) => r = s

\* A bot is asked for when the meeting starts: not before its lead, and not
\* for one that is over by more than the grace.  The one exception is a replica
\* that listed the meeting before another gave it back: _claim does not look at
\* the time again (scheduler.py:34-38), so it joins at once.
InTheWindow ==
    [][\A r \in Replicas, m \in Meetings :
         /\ sweep[r].m = m /\ sweep[r].pc = "joining"
         /\ asked'[m] > asked[m]
         /\ m \notin stale[r]
         => /\ row[m].at <= sweep[r].now + Lead
            /\ ~Missed(row[m].at, sweep[r].now)]_vars

\* The owner books an event twice, by a double click or a retried request, and
\* the calendar shows one meeting for it (api/calendar.py:207-210).
OneBookingPerEvent == \A e \in Events : Cardinality(LiveRows(e)) <= 1

\* A meeting whose owner was told "stopped" is joined by no bot, although the
\* sweep that claimed it goes on; only a give-back, which writes "scheduled"
\* unconditionally (scheduler.py:110-111), takes the stop away.
StopHolds == \A m \in told : row[m].status \in {"failed", "deleted"}

\* A claimed meeting has a sweep working on it or a job behind it; only a sweep
\* that died, or met an exception nobody catches, leaves a claim that the
\* watchdog must end.  A meeting found not to be due is put back on the
\* schedule, or "no later sweep will pick it up" (scheduler.py:106-109).
NoClaimForgotten ==
    \A m \in Meetings :
      row[m].status = "queued" =>
        \/ \E r \in Replicas : Owns(r, m)
        \/ jobs[m] > 0
        \/ m \in dropped

\* No booking stays "scheduled" past its time or "queued" without an end:
\* whatever sweep was aborted, overtaken or killed, another one, the job or the
\* watchdog finishes it.
Settles ==
    \A m \in Meetings :
      row[m].status \in {"scheduled", "queued"} ~> row[m].status \in {"joining", "failed", "deleted"}
=============================================================================
