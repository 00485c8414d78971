---------------------------- MODULE RecorderPool ----------------------------
(***************************************************************************)
(* How a dispatch finds a recorder (services/bot_registry.py), and what    *)
(* it decides from: the heartbeats the worker polls, the reservations in   *)
(* Redis, and the sign-in health each recorder keeps (AuthHealth.js,       *)
(* AuthKeepAlive.js).  Every fact is a little old when it is used, and the *)
(* recorder's own 409 is the authority.  BotDispatch leaves the choice     *)
(* open; this module is the choice.                                        *)
(*                                                                         *)
(* A tick is longer than a poll interval and shorter than the heartbeat    *)
(* TTL: every recorder that answers is polled within each (Tick's guard).  *)
(***************************************************************************)
EXTENDS Integers, FiniteSets

CONSTANTS
    Hosts,          \* recorders that BOT_HOSTS may name
    Meetings,       \* meetings with a dispatch job
    Google, Zoom,   \* the platforms
    NoHost,
    MaxConcurrent,  \* MAX_CONCURRENT_MEETINGS of every recorder
    TTL,            \* bot_heartbeat_ttl_seconds, in ticks
    ReserveFor,     \* bot_host_reservation_seconds, in ticks
    MaxFaults,      \* bound: recorders that stop, workers that die, answers lost
    MaxExpiries     \* bound: sign-ins that expire or are repaired

ASSUME PoolAssumption ==
    /\ Google # Zoom
    /\ NoHost \notin Hosts
    /\ MaxConcurrent \in Nat \ {0}
    /\ TTL \in Nat \ {0} /\ ReserveFor \in Nat \ {0}
    /\ MaxFaults \in Nat /\ MaxExpiries \in Nat

Platforms == {Google, Zoom}

VARIABLES
    pool,      \* BOT_HOSTS
    platform,  \* meetings.platform
    up,        \* recorders that are running
    silent,    \* history: ticks since a stopped recorder was running
    active,    \* activeMeetings of each recorder
    cred,      \* what the stored sign-ins are really worth
    health,    \* AuthHealth's map
    keeper,    \* AuthKeepAlive: the platform being checked and how far, if any
    reading,   \* a GET /capacity answer on its way into the cache
    beat,      \* the cached heartbeats
    reserved,  \* the reservation counters in Redis
    job,       \* the dispatch of each meeting, "ended" when it needs none
    lapsed,    \* history: meetings whose reservation no longer counts
    orphans,   \* history: recorders whose counter a job died on before its EXPIRE
    spent,     \* history: recorders whose counter had run out before a DECR on it
    faults, expiries

vars == <<pool, platform, up, silent, active, cred, health, keeper, reading, beat,
          reserved, job, lapsed, orphans, spent, faults, expiries>>

Verdict == {"unknown", "ok", "expired"}
Capacity == [available: 0..MaxConcurrent, auth: [Platforms -> Verdict]]
NoReading == [available |-> 0, auth |-> [p \in Platforms |-> "none"]]
NoBeat == [available |-> 0, auth |-> [p \in Platforms |-> "none"], age |-> 0]
Beat == [available: 0..MaxConcurrent, auth: [Platforms -> Verdict], age: 0..TTL + 1]

\* A counter and the ticks its key has to live: 0 when there is no key, Forever
\* when it has no expiry.
Forever == ReserveFor + 1
NoKey == [n |-> 0, left |-> 0]

\* seen: the recorders found live and usable, with their free slots; ranked: those
\* not yet tried, with the reservations against them; last: the job ends with the
\* release.
Waiting == [pc |-> "waiting", host |-> NoHost, last |-> FALSE, seen |-> {}, ranked |-> {}]
Ended == [Waiting EXCEPT !.pc = "ended"]
Seen == [host: Hosts, available: 0..MaxConcurrent]
Ranked == [host: Hosts, available: 0..MaxConcurrent, headroom: Int]

Idle == [platform |-> Google, stage |-> "idle"]

TypeOK ==
    /\ pool \subseteq Hosts
    /\ platform \in [Meetings -> Platforms]
    /\ up \in [Hosts -> BOOLEAN]
    /\ silent \in [Hosts -> 0..TTL + 1]
    /\ active \in [Hosts -> SUBSET Meetings]
    /\ cred \in [Hosts -> [Platforms -> {"good", "dead", "unreadable"}]]
    /\ health \in [Hosts -> [Platforms -> Verdict]]
    /\ keeper \in [Hosts -> [platform: Platforms, stage: {"idle", "launched", "signed in"}]]
    /\ reading \in [Hosts -> Capacity \cup {NoReading}]
    /\ beat \in [Hosts -> Beat \cup {NoBeat}]
    /\ reserved \in [Hosts -> [n: Int, left: 0..Forever]]
    /\ \A m \in Meetings :
         /\ job[m].pc \in {"waiting", "listed", "ranked", "counted", "full", "excess",
                           "granted", "releasing", "negative", "accepted", "ended"}
         /\ job[m].host \in Hosts \cup {NoHost}
         /\ job[m].last \in BOOLEAN
         /\ job[m].seen \subseteq Seen /\ job[m].ranked \subseteq Ranked
    /\ lapsed \subseteq Meetings
    /\ orphans \subseteq Hosts /\ spent \subseteq Hosts
    /\ faults \in 0..MaxFaults /\ expiries \in 0..MaxExpiries

Init ==
    /\ pool \in (SUBSET Hosts) \ {{}}
    /\ platform \in [Meetings -> Platforms]
    /\ up = [h \in Hosts |-> h \in pool]
    /\ silent = [h \in Hosts |-> 0]
    /\ active = [h \in Hosts |-> {}]
    /\ cred = [h \in Hosts |-> [p \in Platforms |-> "good"]]
    /\ health = [h \in Hosts |-> [p \in Platforms |-> "unknown"]]
    /\ keeper = [h \in Hosts |-> Idle]
    /\ reading = [h \in Hosts |-> NoReading]
    /\ beat = [h \in Hosts |-> NoBeat]
    /\ reserved = [h \in Hosts |-> NoKey]
    /\ job \in [Meetings -> {Waiting, Ended}]
    /\ lapsed = {}
    /\ orphans = {} /\ spent = {}
    /\ faults = 0
    /\ expiries = 0

-----------------------------------------------------------------------------
(* The recorder: sessions, GET /capacity, sign-in health. *)

history == <<lapsed, orphans, spent>>
redis == <<reading, beat, reserved, history>>

Capacities(h) ==
    [available |-> MaxConcurrent - Cardinality(active[h]), auth |-> health[h]]

\* A session is over, for whatever reason that says nothing about a sign-in.
SessionEnds(h, m) ==
    /\ m \in active[h]
    /\ active' = [active EXCEPT ![h] = @ \ {m}]
    /\ job' = [job EXCEPT ![m] = IF @.pc = "accepted" THEN [@ EXCEPT !.pc = "ended"] ELSE @]
    /\ UNCHANGED <<pool, platform, up, silent, cred, health, keeper, redis, faults, expiries>>

\* A Meet join lands on a page that says the account is signed out and throws
\* AUTH_EXPIRED; no Zoom join does.
JoinFindsSignedOut(h, m) ==
    /\ m \in active[h]
    /\ platform[m] = Google
    /\ cred[h][Google] # "good"
    /\ health' = [health EXCEPT ![h][Google] = "expired"]
    /\ active' = [active EXCEPT ![h] = @ \ {m}]
    /\ job' = [job EXCEPT ![m] = IF @.pc = "accepted" THEN [@ EXCEPT !.pc = "ended"] ELSE @]
    /\ UNCHANGED <<pool, platform, up, silent, cred, keeper, redis, faults, expiries>>

\* HealthFollows: a cycle ends with its first platform.
NextCheckBug(h) == Idle

\* runCycle: one platform after the other, and the next cycle after both.
NextCheck(h) ==
    IF keeper[h].platform = Google THEN [platform |-> Zoom, stage |-> "idle"] ELSE Idle

Observed(h, verdict) ==
    /\ health' = [health EXCEPT ![h][keeper[h].platform] = verdict]
    /\ keeper' = [keeper EXCEPT ![h] = NextCheck(h)]

keeping == <<pool, platform, up, silent, active, cred, redis, job, faults, expiries>>

CheckStarts(h) ==
    /\ up[h]
    /\ keeper[h].stage = "idle"
    /\ IF cred[h][keeper[h].platform] = "unreadable"
       THEN Observed(h, "expired")
       ELSE keeper' = [keeper EXCEPT ![h].stage = "launched"] /\ UNCHANGED health
    /\ UNCHANGED keeping

CheckLands(h) ==
    /\ keeper[h].stage = "launched"
    /\ IF cred[h][keeper[h].platform] = "good"
       THEN keeper' = [keeper EXCEPT ![h].stage = "signed in"] /\ UNCHANGED health
       ELSE Observed(h, "expired")
    /\ UNCHANGED keeping

\* The cookies are written back first; meanwhile the sign-in may have died and
\* a join may have said so, and "ok" is recorded all the same.
CheckRecorded(h) ==
    /\ keeper[h].stage = "signed in"
    /\ Observed(h, "ok")
    /\ UNCHANGED keeping

\* recordCheckFailed: the previous verdict stands.
CheckThrows(h) ==
    /\ keeper[h].stage # "idle"
    /\ Observed(h, health[h][keeper[h].platform])
    /\ UNCHANGED keeping

-----------------------------------------------------------------------------
(* The heartbeat loop of the worker. *)

polling == <<pool, platform, up, silent, active, cred, health, keeper, reserved, job,
             history, faults, expiries>>

\* A poll that is not answered is logged and writes nothing (poll_once), so the
\* recorder's entry only grows older.
PollHost(h) ==
    /\ h \in pool
    /\ up[h]
    /\ reading[h] = NoReading
    /\ ~(beat[h] # NoBeat /\ beat[h].age = 0)
    /\ reading' = [reading EXCEPT ![h] = Capacities(h)]
    /\ UNCHANGED <<beat, polling>>

WriteBeat(h) ==
    /\ reading[h] # NoReading
    /\ beat' = [beat EXCEPT ![h] =
                  [available |-> reading[h].available, auth |-> reading[h].auth, age |-> 0]]
    /\ reading' = [reading EXCEPT ![h] = NoReading]
    /\ UNCHANGED polling

-----------------------------------------------------------------------------
(* claim_host and release_host, one step per Redis command. *)

claiming == <<pool, platform, up, silent, active, cred, health, keeper, reading, beat,
              expiries>>

\* DeadHostSkipped: the entry is taken for the recorder as long as it is there.
FreshBug(h) == beat[h] # NoBeat
Fresh(h) == beat[h] # NoBeat /\ beat[h].age <= TTL
UsableFor(h, p) == beat[h].auth[p] # "expired"
SeenBy(m) == {[host |-> h, available |-> beat[h].available]:
                h \in {g \in pool: Fresh(g) /\ UsableFor(g, platform[m])}}

\* Nobody alive, or nobody signed in: the reason says which, and the job waits.
ListHosts(m) ==
    /\ job[m].pc = "waiting"
    /\ SeenBy(m) # {}
    /\ job' = [job EXCEPT ![m] = [@ EXCEPT !.pc = "listed", !.seen = SeenBy(m)]]
    /\ UNCHANGED <<reserved, history, faults, claiming>>

RankHosts(m) ==
    /\ job[m].pc = "listed"
    /\ job' = [job EXCEPT ![m] =
                 [@ EXCEPT !.pc = "ranked", !.seen = {},
                           !.ranked = {[host |-> s.host, available |-> s.available,
                                        headroom |-> s.available - reserved[s.host].n]: s \in job[m].seen}]]
    /\ UNCHANGED <<reserved, history, faults, claiming>>

\* The recorders not tried yet that seem to have room, the roomiest first.
Candidates(m) ==
    {c \in job[m].ranked: /\ c.headroom > 0
                          /\ \A d \in job[m].ranked : d.headroom <= c.headroom}

EveryoneBusy(m) ==
    /\ job[m].pc = "ranked"
    /\ Candidates(m) = {}
    /\ job' = [job EXCEPT ![m] = Waiting]
    /\ UNCHANGED <<reserved, history, faults, claiming>>

\* INCR and DECR create a key that is not there, without an expiry.
Adds(h, d) ==
    reserved' = [reserved EXCEPT ![h] =
        [n |-> @.n + d, left |-> IF @.left = 0 THEN Forever ELSE @.left]]

\* NoSlotTwice: the counter is set from the value read before.
CountBug(m, c) ==
    /\ job[m].pc = "ranked"
    /\ c \in Candidates(m)
    /\ LET n == c.available - c.headroom + 1
       IN  /\ Adds(c.host, n - reserved[c.host].n)
           /\ job' = [job EXCEPT ![m] = [@ EXCEPT !.pc = IF n > c.available THEN "full" ELSE "counted",
                                                  !.host = c.host,
                                                  !.ranked = job[m].ranked \ {c}]]
    /\ UNCHANGED <<history, faults, claiming>>

\* INCR.  A counter below zero grants a slot it does not count: a release is about
\* to delete it, or a DECR came after it had run out (TakeBack).
Count(m, c) ==
    /\ job[m].pc = "ranked"
    /\ c \in Candidates(m)
    /\ LET n == reserved[c.host].n + 1
       IN  /\ Adds(c.host, 1)
           /\ job' = [job EXCEPT ![m] = [@ EXCEPT !.pc = IF n > c.available THEN "full" ELSE "counted",
                                                  !.host = c.host,
                                                  !.ranked = job[m].ranked \ {c}]]
           /\ lapsed' = IF n <= 0 THEN lapsed \cup {m} ELSE lapsed \ {m}
    /\ UNCHANGED <<orphans, spent, faults, claiming>>

\* Who counts in the reservations of h, and who was given a slot by them.
Counted(h) == {m \in Meetings \ lapsed: job[m].host = h /\ job[m].pc \notin {"waiting", "negative"}}
Granted(h) == {m \in Counted(h): job[m].pc \in {"counted", "granted", "releasing", "accepted", "ended"}}

\* The recorder is the dispatch's, unless it turned out to be full.
AfterExpire(m) ==
    IF job[m].pc = "full" THEN [job[m] EXCEPT !.pc = "excess"]
    ELSE [Waiting EXCEPT !.pc = "granted", !.host = job[m].host]

\* Placed: EXPIRE is forgotten.
ExpireBug(m) ==
    /\ job[m].pc \in {"counted", "full"}
    /\ job' = [job EXCEPT ![m] = AfterExpire(m)]
    /\ UNCHANGED <<reserved, history, faults, claiming>>

\* A key that ran out since the INCR is not there to be given an expiry.
Expire(m) ==
    LET h == job[m].host
    IN  /\ job[m].pc \in {"counted", "full"}
        /\ job' = [job EXCEPT ![m] = AfterExpire(m)]
        /\ reserved' = [reserved EXCEPT ![h].left = IF @ = 0 THEN 0 ELSE ReserveFor]
        /\ orphans' = orphans \ {h}
        /\ spent' = spent \ {h}
        /\ UNCHANGED <<lapsed, faults, claiming>>

\* The DECR of a full recorder.  If the key ran out since the EXPIRE, it leaves a
\* counter below zero with no expiry: unlike release_host, _reserve does not look
\* at what DECR returns.
TakeBack(m) ==
    LET h == job[m].host
    IN  /\ job[m].pc = "excess"
        /\ job' = [job EXCEPT ![m].pc = "ranked", ![m].host = NoHost]
        /\ Adds(h, -1)
        /\ spent' = IF reserved[h].left = 0 THEN spent \cup {h} ELSE spent
        /\ lapsed' = IF m \in lapsed THEN (lapsed \cup Counted(h)) \ {m} ELSE lapsed
        /\ UNCHANGED <<orphans, faults, claiming>>

\* TypeOK: the recorder trusts the dispatcher's choice and checks no capacity.
HasRoomBug(h, m) == up[h] /\ m \notin active[h]

HasRoom(h, m) == up[h] /\ m \notin active[h] /\ Cardinality(active[h]) < MaxConcurrent

\* post_join found no recorder, or one that is full or has this meeting already;
\* or, with a fault, the meeting was claimed by a second job for it and is dropped.
Refused(m) ==
    LET h == job[m].host
    IN  /\ job[m].pc = "granted"
        /\ ~HasRoom(h, m)
        /\ job' = [job EXCEPT ![m].pc = "releasing"]
        /\ UNCHANGED <<reserved, history, faults, claiming>>

ClaimLost(m) ==
    /\ job[m].pc = "granted"
    /\ faults < MaxFaults
    /\ faults' = faults + 1
    /\ job' = [job EXCEPT ![m].pc = "releasing", ![m].last = TRUE]
    /\ UNCHANGED <<reserved, history, claiming>>

\* The recorder registers the meeting before it answers; a lost answer is a refusal
\* to the dispatcher.
Accepted(m) ==
    LET h == job[m].host
    IN  /\ job[m].pc = "granted"
        /\ HasRoom(h, m)
        /\ active' = [active EXCEPT ![h] = @ \cup {m}]
        /\ \/ job' = [job EXCEPT ![m].pc = "accepted"] /\ UNCHANGED faults
           \/ /\ faults < MaxFaults /\ faults' = faults + 1
              /\ job' = [job EXCEPT ![m].pc = "releasing"]
        /\ UNCHANGED <<pool, platform, up, silent, cred, health, keeper, redis, expiries>>

AfterRelease(m) == IF job[m].last THEN Ended ELSE Waiting

\* KeysExpire: a counter below zero is left behind.
ReleaseBug(m) ==
    LET h == job[m].host
    IN  /\ job[m].pc = "releasing"
        /\ Adds(h, -1)
        /\ job' = [job EXCEPT ![m] = AfterRelease(m)]
        /\ lapsed' = IF m \in lapsed THEN (lapsed \cup Counted(h)) \ {m} ELSE lapsed
        /\ UNCHANGED <<orphans, spent, faults, claiming>>

\* DECR.  After the reservation expired it takes the slot of another meeting, or
\* makes a counter below zero that is deleted next.
Release(m) ==
    LET h == job[m].host
    IN  /\ job[m].pc = "releasing"
        /\ Adds(h, -1)
        /\ job' = [job EXCEPT ![m] =
                     IF reserved[h].n <= 0
                     THEN [@ EXCEPT !.pc = "negative"]
                     ELSE AfterRelease(m)]
        /\ lapsed' = IF m \in lapsed THEN (lapsed \cup Counted(h)) \ {m} ELSE lapsed
        /\ UNCHANGED <<orphans, spent, faults, claiming>>

DeleteNegative(m) ==
    LET h == job[m].host
    IN  /\ job[m].pc = "negative"
        /\ reserved' = [reserved EXCEPT ![h] = NoKey]
        /\ job' = [job EXCEPT ![m] = AfterRelease(m)]
        /\ lapsed' = lapsed \cup Counted(h)
        /\ orphans' = orphans \ {h}
        /\ spent' = spent \ {h}
        /\ UNCHANGED <<faults, claiming>>

-----------------------------------------------------------------------------
(* Time and faults. *)

Polled(h) == reading[h] = NoReading /\ beat[h] # NoBeat /\ beat[h].age = 0

Tick ==
    /\ \A h \in pool : reading[h] = NoReading /\ (up[h] => Polled(h))
    /\ silent' = [h \in Hosts |-> IF h \notin pool \/ up[h] \/ silent[h] > TTL THEN silent[h] ELSE silent[h] + 1]
    /\ beat' = [h \in Hosts |->
                  IF beat[h] = NoBeat \/ beat[h].age > TTL THEN beat[h]
                  ELSE [beat[h] EXCEPT !.age = @ + 1]]
    /\ reserved' = [h \in Hosts |->
                      IF reserved[h].left = 1 THEN NoKey
                      ELSE IF reserved[h].left \in {0, Forever} THEN reserved[h]
                      ELSE [reserved[h] EXCEPT !.left = @ - 1]]
    /\ lapsed' = lapsed \cup UNION {Counted(h): h \in {g \in Hosts: reserved[g].left = 1}}
    /\ UNCHANGED <<pool, platform, up, active, cred, health, keeper, reading, job, orphans,
                   spent, faults, expiries>>

\* Nothing of a recorder's process survives it.
HostStops(h) ==
    /\ up[h]
    /\ faults < MaxFaults
    /\ faults' = faults + 1
    /\ up' = [up EXCEPT ![h] = FALSE]
    /\ active' = [active EXCEPT ![h] = {}]
    /\ health' = [health EXCEPT ![h] = [p \in Platforms |-> "unknown"]]
    /\ keeper' = [keeper EXCEPT ![h] = Idle]
    /\ job' = [m \in Meetings |->
                 IF m \in active[h] /\ job[m].pc = "accepted"
                 THEN [job[m] EXCEPT !.pc = "ended"] ELSE job[m]]
    /\ UNCHANGED <<pool, platform, silent, cred, redis, expiries>>

HostStarts(h) ==
    /\ h \in pool /\ ~up[h]
    /\ up' = [up EXCEPT ![h] = TRUE]
    /\ silent' = [silent EXCEPT ![h] = 0]
    /\ UNCHANGED <<pool, platform, active, cred, health, keeper, redis, job, faults, expiries>>

\* A job is between the two Redis commands that make a counter and see to its end.
InUse(h) == \E m \in Meetings: job[m].host = h /\ job[m].pc \in {"counted", "full", "negative"}

\* The worker dies and arq runs its jobs again; one that was between INCR and
\* EXPIRE leaves a counter that never expires.  A Redis error there does the same.
WorkerDies ==
    /\ faults < MaxFaults
    /\ faults' = faults + 1
    /\ reading' = [h \in Hosts |-> NoReading]
    /\ orphans' = orphans \cup {h \in Hosts: reserved[h].left = Forever /\ InUse(h)}
    /\ job' = [m \in Meetings |-> IF job[m].pc \in {"accepted", "ended"} THEN job[m] ELSE Waiting]
    /\ UNCHANGED <<pool, platform, up, silent, active, cred, health, keeper, beat, reserved,
                   lapsed, spent, expiries>>

\* A sign-in expires at the provider, its file breaks, or somebody signs in again.
SignInChanges(h, p) ==
    /\ h \in pool
    /\ expiries < MaxExpiries
    /\ expiries' = expiries + 1
    /\ \E c \in {"good", "dead", "unreadable"} \ {cred[h][p]} : cred' = [cred EXCEPT ![h][p] = c]
    /\ UNCHANGED <<pool, platform, up, silent, active, health, keeper, redis, job, faults>>

-----------------------------------------------------------------------------
DispatchStep(m) ==
    \/ ListHosts(m) \/ RankHosts(m) \/ EveryoneBusy(m)
    \/ \E c \in job[m].ranked : Count(m, c)
    \/ Expire(m) \/ TakeBack(m) \/ Refused(m) \/ Accepted(m) \/ Release(m) \/ DeleteNegative(m)

KeeperStep(h) == CheckStarts(h) \/ CheckLands(h) \/ CheckRecorded(h)

Next ==
    \/ Tick
    \/ WorkerDies
    \/ \E m \in Meetings : DispatchStep(m) \/ ClaimLost(m)
    \/ \E h \in Hosts :
         \/ KeeperStep(h) \/ CheckThrows(h)
         \/ PollHost(h) \/ WriteBeat(h)
         \/ HostStops(h) \/ HostStarts(h)
         \/ \E m \in Meetings : SessionEnds(h, m) \/ JoinFindsSignedOut(h, m)
         \/ \E p \in Platforms : SignInChanges(h, p)

Spec == Init /\ [][Next]_vars

\* The worker's loop, arq and the keepalive's timer go on, and so does time; and
\* the page loads of the keepalive do not fail for ever.
Fairness ==
    /\ WF_vars(Tick)
    /\ \A h \in Hosts :
         /\ WF_vars(PollHost(h)) /\ WF_vars(WriteBeat(h)) /\ WF_vars(CheckStarts(h))
         /\ \A p \in Platforms :
              /\ SF_vars(keeper[h].platform = p /\ CheckLands(h))
              /\ SF_vars(keeper[h].platform = p /\ CheckRecorded(h))
    /\ \A m \in Meetings : WF_vars(DispatchStep(m))

FairSpec == Spec /\ Fairness

-----------------------------------------------------------------------------
(* Properties. *)

\* "releasing too early would hand the same slot out twice" (bot_registry.py:423):
\* of the meetings that one recorder was granted to, no more have a reservation
\* that still counts than it has slots, and each of those is in the counter,
\* whatever other jobs, releases and expiries do to it in between.  A reservation
\* that ran out, or that a late release or DECR of another dispatch took, counts
\* no more (lapsed): from then on only the recorder's own 409 protects the slot.
NoSlotTwice ==
    \A h \in Hosts :
      /\ Cardinality(Granted(h)) <= MaxConcurrent
      /\ Counted(h) = {} \/ Cardinality(Counted(h)) <= reserved[h].n

\* "They expire" (bot_registry.py:417): a counter has an expiry, or a job is between
\* the Redis command that made it and the one that sees to its end.  Two things
\* leave one that stays.  A worker that died, or a Redis error, between those two
\* commands leaves a recorder that may never be chosen again (orphans).  And the
\* DECR of a dispatch that found the recorder full, when the key ran out before it,
\* leaves a counter below zero, with no failure at all (spent; bot_registry.py:
\* 493-496): that one refuses nobody, but grants slots that it does not count,
\* until the next dispatch that tries the recorder gives it an expiry.
KeysExpire ==
    \A h \in Hosts :
      reserved[h].left = Forever =>
        InUse(h) \/ h \in orphans \/ (h \in spent /\ reserved[h].n < 0)

\* A recorder that stopped gets no meeting once its last answer is older than the
\* heartbeat TTL, and before that it may get one that it cannot take
\* (bot_registry.py:381-386).
DeadHostSkipped ==
    [][\A m \in Meetings : \A s \in job'[m].seen \ job[m].seen : up[s.host] \/ silent[s.host] <= TTL]_vars

\* A recorder that could take the meeting now: running, signed in and known to
\* be, with a free slot and without a counter that lost its expiry.
CouldTake(h, m) ==
    /\ h \in pool
    /\ HasRoom(h, m)
    /\ health[h][platform[m]] # "expired"
    /\ h \in orphans => reserved[h].n <= 0

\* No meeting waits for ever while a recorder could take it: old heartbeats,
\* spent reservations and lost races all pass.
Placed ==
    \A m \in Meetings :
      []<>(job[m].pc \in {"accepted", "ended"} \/ \A h \in Hosts : ~CouldTake(h, m))

\* A verdict about a sign-in that is out of date does not stay: a dead one
\* comes to be known as expired, although a check that began earlier may say "ok"
\* after a join said otherwise (AuthKeepAlive.js:124-125); and one that was
\* repaired comes to be used again.
HealthFollows ==
    []<>(\A h \in pool, p \in Platforms :
           up[h] => (cred[h][p] = "good" <=> health[h][p] # "expired"))
=============================================================================
