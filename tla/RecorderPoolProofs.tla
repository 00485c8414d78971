------------------------- MODULE RecorderPoolProofs -------------------------
(***************************************************************************)
(* The recorder pool for any number of recorders, workers, meetings and    *)
(* faults, any capacity and any TTLs: types, slots, expiries, heartbeats.  *)
(*                                                                         *)
(* NoSlotTwice is not inductive as it stands.  A grant is an INCR that     *)
(* read a value within the recorder's capacity, and the counter is at      *)
(* least the number of meetings that still count in it, so the grants that *)
(* still count are no more than that value.  For the numbers to mean what  *)
(* they say the sets must be finite, and a job must name its recorder from *)
(* the INCR on and never before (Named).  A key that runs out takes the    *)
(* meetings it counted with it (lapsed), whatever their jobs do next.      *)
(***************************************************************************)
EXTENDS RecorderPool, FiniteSetTheorems, TLAPS

Choosing == {"waiting", "listed", "ranked"}
Holding == {"counted", "full", "excess", "granted", "releasing", "negative", "accepted"}

Job == [pc: Choosing \cup Holding \cup {"ended"}, host: Hosts \cup {NoHost}, last: BOOLEAN,
        seen: SUBSET Seen, ranked: SUBSET Ranked]

\* A dispatch has a recorder from its INCR on, and none before.
Named(d) ==
    /\ d.pc \in Choosing => d.host = NoHost
    /\ d.pc \in Holding => d.host \in Hosts

\* No recorder has more meetings than it admits.
Admitted == \A h \in Hosts : IsFiniteSet(active[h]) /\ Cardinality(active[h]) <= MaxConcurrent

Typed ==
    /\ TypeOK
    /\ job \in [Meetings -> Job]
    /\ \A m \in Meetings : Named(job[m])
    /\ Admitted

-----------------------------------------------------------------------------
(* Types.                                                                  *)

LEMMA JobTyped ==
    ASSUME NEW d \in Job
    PROVE  /\ d.pc \in Choosing \cup Holding \cup {"ended"}
           /\ d.host \in Hosts \cup {NoHost} /\ d.last \in BOOLEAN
           /\ d.seen \subseteq Seen /\ d.ranked \subseteq Ranked
BY DEF Job

LEMMA WaitingTyped ==
    /\ Waiting \in Job /\ Waiting.pc = "waiting" /\ Waiting.host = NoHost
    /\ Waiting.seen = {} /\ Waiting.ranked = {}
    /\ Ended \in Job /\ Ended.pc = "ended" /\ Ended.host = NoHost
    /\ Ended.seen = {}
    /\ Named(Waiting) /\ Named(Ended)
<1>1. Waiting \in Job /\ Waiting.pc = "waiting" /\ Waiting.host = NoHost /\ Waiting.seen = {} /\ Waiting.ranked = {}
  BY DEF Waiting, Job, Choosing, Holding
<1>2. Ended \in Job /\ Ended.pc = "ended" /\ Ended.host = NoHost /\ Ended.seen = {}
  BY DEF Ended, Waiting, Job, Choosing, Holding
<1>. QED BY <1>1, <1>2 DEF Named, Choosing, Holding

\* What the step of one dispatch makes of it.
Becomes(m, v) == job' = [job EXCEPT ![m] = v] /\ v \in Job /\ Named(v)

LEMMA DispatchMoves ==
    ASSUME Typed, NEW m \in Meetings, DispatchStep(m) \/ ClaimLost(m)
    PROVE  \E v : Becomes(m, v)
<1>0. job[m] \in Job /\ Named(job[m])
  BY DEF Typed
<1>1. CASE ListHosts(m)
  <2>. DEFINE v == [job[m] EXCEPT !.pc = "listed", !.seen = SeenBy(m)]
  <2>1. SeenBy(m) \subseteq Seen
    <3>1. ASSUME NEW g \in Hosts, beat[g] # NoBeat
          PROVE  beat[g].available \in 0..MaxConcurrent
      BY <3>1 DEF Typed, TypeOK, Beat
    <3>2. ASSUME NEW s \in SeenBy(m)
          PROVE  s \in Seen
      <4>1. PICK g \in pool : beat[g] # NoBeat /\ s = [host |-> g, available |-> beat[g].available]
        BY <3>2 DEF SeenBy, Fresh
      <4>2. g \in Hosts
        BY DEF Typed, TypeOK
      <4>. QED BY <3>1, <4>1, <4>2 DEF Seen
    <3>. QED BY <3>2
  <2>2. v \in Job /\ v.pc = "listed" /\ v.host = job[m].host
    BY <1>0, <2>1 DEF Job, Choosing
  <2>3. job[m].pc = "waiting" /\ job' = [job EXCEPT ![m] = v]
    BY <1>1 DEF ListHosts
  <2>. HIDE DEF v
  <2>. QED BY <1>0, <2>2, <2>3 DEF Becomes, Named, Choosing, Holding
<1>2. CASE RankHosts(m)
  <2>. DEFINE R == {[host |-> s.host, available |-> s.available,
                     headroom |-> s.available - reserved[s.host].n]: s \in job[m].seen}
              v == [job[m] EXCEPT !.pc = "ranked", !.seen = {}, !.ranked = R]
  <2>1. R \subseteq Ranked
    <3>1. ASSUME NEW s \in job[m].seen
          PROVE  s.host \in Hosts /\ s.available \in 0..MaxConcurrent /\ reserved[s.host].n \in Int
      BY <1>0, JobTyped DEF Seen, Typed, TypeOK
    <3>. QED BY <3>1, PoolAssumption DEF Ranked
  <2>. HIDE DEF R
  <2>2. v \in Job /\ v.pc = "ranked" /\ v.host = job[m].host
    BY <1>0, <2>1 DEF Job, Choosing
  <2>3. job[m].pc = "listed" /\ job' = [job EXCEPT ![m] = v]
    BY <1>2 DEF RankHosts, R
  <2>. HIDE DEF v
  <2>. QED BY <1>0, <2>2, <2>3 DEF Becomes, Named, Choosing, Holding
<1>3. CASE EveryoneBusy(m)
  BY <1>3, WaitingTyped DEF EveryoneBusy, Becomes
<1>4. ASSUME NEW c \in job[m].ranked, Count(m, c)
      PROVE  \E v : Becomes(m, v)
  <2>. DEFINE pc == IF reserved[c.host].n + 1 > c.available THEN "full" ELSE "counted"
              v == [job[m] EXCEPT !.pc = pc, !.host = c.host, !.ranked = job[m].ranked \ {c}]
  <2>1. pc \in {"full", "counted"}
    OBVIOUS
  <2>4. job' = [job EXCEPT ![m] = v]
    BY <1>4, Zenon DEF Count
  <2>. HIDE DEF pc
  <2>2. c.host \in Hosts
    BY <1>0, JobTyped DEF Ranked
  <2>3. v \in Job /\ v.pc = pc /\ v.host = c.host
    BY <1>0, <2>1, <2>2 DEF Job, Holding
  <2>. HIDE DEF v
  <2>. QED BY <2>1, <2>2, <2>3, <2>4 DEF Becomes, Named, Choosing, Holding
<1>5. CASE Expire(m)
  <2>0. job[m].pc \in {"counted", "full"} /\ job' = [job EXCEPT ![m] = AfterExpire(m)] /\ job[m].host \in Hosts
    BY <1>0, <1>5 DEF Expire, Named, Holding
  <2>1. CASE job[m].pc = "counted"
    <3>. DEFINE v == [Waiting EXCEPT !.pc = "granted", !.host = job[m].host]
    <3>1. v \in Job /\ v.pc = "granted" /\ v.host = job[m].host
      BY <1>0, WaitingTyped DEF Job, Holding
    <3>2. job' = [job EXCEPT ![m] = v]
      BY <2>0, <2>1 DEF AfterExpire
    <3>. HIDE DEF v
    <3>. QED BY <2>0, <3>1, <3>2 DEF Becomes, Named, Choosing, Holding
  <2>2. CASE job[m].pc = "full"
    <3>. DEFINE v == [job[m] EXCEPT !.pc = "excess"]
    <3>1. v \in Job /\ v.pc = "excess" /\ v.host = job[m].host
      BY <1>0 DEF Job, Holding
    <3>2. job' = [job EXCEPT ![m] = v]
      BY <2>0, <2>2 DEF AfterExpire
    <3>. HIDE DEF v
    <3>. QED BY <2>0, <3>1, <3>2 DEF Becomes, Named, Choosing, Holding
  <2>. QED BY <2>0, <2>1, <2>2
<1>6. CASE TakeBack(m)
  <2>. DEFINE v == [job[m] EXCEPT !.pc = "ranked", !.host = NoHost]
  <2>1. v \in Job /\ v.pc = "ranked" /\ v.host = NoHost
    BY <1>0 DEF Job, Choosing
  <2>2. job' = [job EXCEPT ![m] = v]
    BY <1>6 DEF TakeBack
  <2>. HIDE DEF v
  <2>. QED BY <2>1, <2>2 DEF Becomes, Named, Choosing, Holding
<1>7. ASSUME NEW pc \in {"releasing", "accepted", "negative"},
             job[m].pc \in {"granted", "releasing"}, job' = [job EXCEPT ![m].pc = pc]
      PROVE  \E v : Becomes(m, v)
  <2>. DEFINE v == [job[m] EXCEPT !.pc = pc]
  <2>1. v \in Job /\ v.pc = pc /\ v.host = job[m].host
    BY <1>0 DEF Job, Holding
  <2>2. job' = [job EXCEPT ![m] = v] /\ job[m].host \in Hosts
    BY <1>0, <1>7 DEF Named, Holding
  <2>. HIDE DEF v
  <2>. QED BY <2>1, <2>2 DEF Becomes, Named, Choosing, Holding
<1>8. CASE ClaimLost(m)
  <2>. DEFINE v == [job[m] EXCEPT !.pc = "releasing", !.last = TRUE]
  <2>1. v \in Job /\ v.pc = "releasing" /\ v.host = job[m].host
    BY <1>0 DEF Job, Holding
  <2>2. job' = [job EXCEPT ![m] = v] /\ job[m].host \in Hosts
    BY <1>0, <1>8 DEF ClaimLost, Named, Holding
  <2>. HIDE DEF v
  <2>. QED BY <2>1, <2>2 DEF Becomes, Named, Choosing, Holding
<1>9. CASE job' = [job EXCEPT ![m] = AfterRelease(m)]
  BY <1>9, WaitingTyped DEF AfterRelease, Becomes
<1>10. CASE Refused(m) \/ Accepted(m)
  BY <1>7, <1>10 DEF Refused, Accepted
<1>11. CASE Release(m) \/ DeleteNegative(m)
  <2>1. CASE job[m].pc = "releasing" /\ job' = [job EXCEPT ![m] = [@ EXCEPT !.pc = "negative"]]
    BY <1>7, <2>1
  <2>. QED BY <1>9, <1>11, <2>1 DEF Release, DeleteNegative
<1>. QED BY <1>1, <1>2, <1>3, <1>4, <1>5, <1>6, <1>8, <1>10, <1>11 DEF DispatchStep

Key == [n: Int, left: 0..Forever]

LEMMA LivesTyped ==
    /\ ReserveFor \in Nat /\ 0 # ReserveFor /\ 0 # Forever /\ 1 # Forever /\ ReserveFor # Forever
    /\ 0 \in 0..Forever /\ ReserveFor \in 0..Forever /\ Forever \in 0..Forever
BY PoolAssumption DEF Forever

\* What the commands to one counter leave of it, and that they leave the others alone:
\* INCR and DECR, EXPIRE, DEL.
LEMMA AddsTo ==
    ASSUME Typed, NEW g \in Hosts, NEW d \in Int, Adds(g, d)
    PROVE  /\ reserved' \in [Hosts -> Key]
           /\ \A h \in Hosts \ {g} : reserved'[h] = reserved[h]
           /\ reserved'[g].n = reserved[g].n + d
           /\ reserved'[g].left = IF reserved[g].left = 0 THEN Forever ELSE reserved[g].left
<1>. DEFINE left == IF reserved[g].left = 0 THEN Forever ELSE reserved[g].left
            n == reserved[g].n + d
            k == [n |-> n, left |-> left]
<1>0. reserved \in [Hosts -> Key] /\ reserved[g] \in Key
  BY DEF Typed, TypeOK, Key
<1>1. n \in Int /\ left \in 0..Forever
  BY <1>0, LivesTyped DEF Key
<1>2. reserved' = [reserved EXCEPT ![g] = k]
  BY DEF Adds
<1>. HIDE DEF left, n
<1>3. k \in Key /\ k.n = n /\ k.left = left
  BY <1>1 DEF Key
<1>. HIDE DEF k
<1>4. reserved' \in [Hosts -> Key] /\ reserved'[g] = k /\ \A h \in Hosts \ {g} : reserved'[h] = reserved[h]
  BY <1>0, <1>2, <1>3
<1>. QED BY <1>3, <1>4 DEF n, left

LEMMA EndsAt ==
    ASSUME Typed, NEW g \in Hosts,
           reserved' = [reserved EXCEPT ![g].left = IF @ = 0 THEN 0 ELSE ReserveFor]
    PROVE  /\ reserved' \in [Hosts -> Key]
           /\ \A h \in Hosts \ {g} : reserved'[h] = reserved[h]
           /\ reserved'[g].n = reserved[g].n
           /\ reserved'[g].left = IF reserved[g].left = 0 THEN 0 ELSE ReserveFor
<1>. DEFINE left == IF reserved[g].left = 0 THEN 0 ELSE ReserveFor
            k == [reserved[g] EXCEPT !.left = left]
<1>0. reserved \in [Hosts -> Key] /\ reserved[g] \in Key
  BY DEF Typed, TypeOK, Key
<1>1. left \in 0..Forever
  BY LivesTyped
<1>2. reserved' = [reserved EXCEPT ![g] = k]
  OBVIOUS
<1>. HIDE DEF left
<1>3. k \in Key /\ k.n = reserved[g].n /\ k.left = left
  BY <1>0, <1>1 DEF Key
<1>. HIDE DEF k
<1>4. reserved' \in [Hosts -> Key] /\ reserved'[g] = k /\ \A h \in Hosts \ {g} : reserved'[h] = reserved[h]
  BY <1>0, <1>2, <1>3
<1>. QED BY <1>3, <1>4 DEF left

LEMMA DeletedKey ==
    ASSUME Typed, NEW g \in Hosts, reserved' = [reserved EXCEPT ![g] = NoKey]
    PROVE  /\ reserved' \in [Hosts -> Key]
           /\ \A h \in Hosts \ {g} : reserved'[h] = reserved[h]
           /\ reserved'[g].n = 0 /\ reserved'[g].left = 0
<1>1. NoKey \in Key /\ NoKey.n = 0 /\ NoKey.left = 0
  BY LivesTyped DEF Key, NoKey
<1>2. reserved \in [Hosts -> Key]
  BY DEF Typed, TypeOK, Key
<1>. QED BY <1>1, <1>2

LEMMA BoundsTyped ==
    ASSUME Typed
    PROVE  /\ faults \in 0..MaxFaults /\ (faults < MaxFaults => faults + 1 \in 0..MaxFaults)
           /\ expiries \in 0..MaxExpiries /\ (expiries < MaxExpiries => expiries + 1 \in 0..MaxExpiries)
<1>1. faults \in 0..MaxFaults /\ expiries \in 0..MaxExpiries
  BY DEF Typed, TypeOK
<1>. QED BY <1>1, PoolAssumption

LEMMA DispatchTyped ==
    ASSUME Typed, NEW m \in Meetings, DispatchStep(m) \/ ClaimLost(m)
    PROVE  Typed'
<1>0. job[m] \in Job /\ Named(job[m]) /\ job \in [Meetings -> Job]
  BY DEF Typed
<1>1. job' \in [Meetings -> Job] /\ \A n \in Meetings : Named(job'[n])
  BY DispatchMoves DEF Becomes, Typed
<1>2. UNCHANGED <<pool, platform, up, silent, cred, health, keeper, reading, beat, expiries>>
  BY DEF DispatchStep, ListHosts, RankHosts, EveryoneBusy, Count, Expire, TakeBack, Refused, Accepted, Release,
         DeleteNegative, ClaimLost, claiming, redis
<1>3. Expire(m) \/ TakeBack(m) \/ Release(m) \/ DeleteNegative(m) => job[m].host \in Hosts
  BY <1>0 DEF Expire, TakeBack, Release, DeleteNegative, Named, Holding
<1>4. reserved' \in [Hosts -> Key]
  <2>1. CASE UNCHANGED reserved
    BY <2>1 DEF Typed, TypeOK, Key
  <2>2. ASSUME NEW c \in job[m].ranked, Count(m, c)
        PROVE  reserved' \in [Hosts -> Key]
    <3>1. c.host \in Hosts
      BY <1>0, JobTyped DEF Ranked
    <3>2. Adds(c.host, 1)
      BY <2>2 DEF Count
    <3>. QED BY <3>1, <3>2, AddsTo
  <2>3. CASE TakeBack(m) \/ Release(m)
    <3>1. job[m].host \in Hosts /\ Adds(job[m].host, -1)
      BY <1>3, <2>3 DEF TakeBack, Release
    <3>2. -1 \in Int
      OBVIOUS
    <3>. QED BY <3>1, <3>2, AddsTo
  <2>4. CASE ListHosts(m) \/ RankHosts(m) \/ EveryoneBusy(m) \/ Refused(m) \/ Accepted(m) \/ ClaimLost(m)
    BY <2>1, <2>4 DEF ListHosts, RankHosts, EveryoneBusy, Refused, Accepted, ClaimLost, redis
  <2>5. CASE Expire(m)
    BY <1>3, <2>5, EndsAt DEF Expire
  <2>6. CASE DeleteNegative(m)
    BY <1>3, <2>6, DeletedKey DEF DeleteNegative
  <2>. QED BY <2>2, <2>3, <2>4, <2>5, <2>6 DEF DispatchStep
<1>5. lapsed' \subseteq Meetings /\ orphans' \subseteq Hosts /\ spent' \subseteq Hosts
  <2>2. /\ lapsed \subseteq Meetings /\ orphans \subseteq Hosts /\ spent \subseteq Hosts
        /\ \A h : Counted(h) \subseteq Meetings
    BY DEF Typed, TypeOK, Counted
  <2>3. CASE ListHosts(m) \/ RankHosts(m) \/ EveryoneBusy(m) \/ Refused(m) \/ Accepted(m) \/ ClaimLost(m)
    BY <2>2, <2>3 DEF ListHosts, RankHosts, EveryoneBusy, Refused, Accepted, ClaimLost, redis, history
  <2>4. ASSUME NEW c \in job[m].ranked, Count(m, c)
        PROVE  lapsed' \subseteq Meetings /\ orphans' \subseteq Hosts /\ spent' \subseteq Hosts
    BY <2>2, <2>4 DEF Count
  <2>5. CASE Expire(m)
    BY <2>2, <2>5 DEF Expire
  <2>6. CASE TakeBack(m) \/ Release(m) \/ DeleteNegative(m)
    BY <1>3, <2>2, <2>6 DEF TakeBack, Release, DeleteNegative
  <2>. QED BY <2>3, <2>4, <2>5, <2>6 DEF DispatchStep
<1>6. faults' \in 0..MaxFaults
  <2>1. faults' = faults \/ (faults < MaxFaults /\ faults' = faults + 1)
    BY DEF DispatchStep, ListHosts, RankHosts, EveryoneBusy, Count, Expire, TakeBack, Refused, Accepted, Release,
           DeleteNegative, ClaimLost, claiming
  <2>. QED BY <2>1, BoundsTyped
<1>7. active' \in [Hosts -> SUBSET Meetings] /\ Admitted'
  <2>1. CASE UNCHANGED active
    BY <2>1 DEF Typed, TypeOK, Admitted
  <2>2. CASE Accepted(m)
    <3>. DEFINE h == job[m].host
    <3>1. h \in Hosts /\ HasRoom(h, m) /\ active' = [active EXCEPT ![h] = active[h] \cup {m}]
      BY <1>0, <2>2 DEF Accepted, Named, Holding
    <3>. HIDE DEF h
    <3>2. IsFiniteSet(active[h]) /\ m \notin active[h] /\ Cardinality(active[h]) < MaxConcurrent
          /\ active \in [Hosts -> SUBSET Meetings]
      BY <3>1 DEF HasRoom, Typed, TypeOK, Admitted
    <3>3. /\ IsFiniteSet(active[h] \cup {m}) /\ Cardinality(active[h] \cup {m}) = Cardinality(active[h]) + 1
          /\ Cardinality(active[h]) \in Nat
      BY <3>2, FS_AddElement, FS_CardinalityType
    <3>4. Cardinality(active[h] \cup {m}) <= MaxConcurrent
      BY <3>2, <3>3, PoolAssumption
    <3>. QED BY <3>1, <3>2, <3>3, <3>4 DEF Typed, Admitted
  <2>. QED BY <2>1, <2>2 DEF DispatchStep, ListHosts, RankHosts, EveryoneBusy, Count, Expire, TakeBack, Refused, Release,
         DeleteNegative, ClaimLost, claiming
<1>8. TypeOK'
  <2>1. \A n \in Meetings : job'[n] \in Job
    BY <1>1
  <2>. QED BY <1>1, <1>2, <1>4, <1>5, <1>6, <1>7, <2>1, JobTyped DEF Typed, TypeOK, Key, Choosing, Holding
<1>. QED BY <1>1, <1>7, <1>8 DEF Typed

LEMMA EndedTyped ==
    ASSUME NEW d \in Job, Named(d)
    PROVE  /\ [d EXCEPT !.pc = "ended"] \in Job /\ Named([d EXCEPT !.pc = "ended"])
           /\ [d EXCEPT !.pc = "ended"].pc = "ended" /\ [d EXCEPT !.pc = "ended"].host = d.host
           /\ [d EXCEPT !.pc = "ended"].seen = d.seen
<1>1. /\ [d EXCEPT !.pc = "ended"] \in Job
      /\ [d EXCEPT !.pc = "ended"].pc = "ended" /\ [d EXCEPT !.pc = "ended"].host = d.host
      /\ [d EXCEPT !.pc = "ended"].seen = d.seen
  BY DEF Job
<1>. QED BY <1>1 DEF Named, Choosing, Holding

LEMMA SessionTyped ==
    ASSUME Typed, NEW h \in Hosts, NEW m \in Meetings, SessionEnds(h, m) \/ JoinFindsSignedOut(h, m)
    PROVE  Typed'
<1>0. job \in [Meetings -> Job] /\ active \in [Hosts -> SUBSET Meetings]
  BY DEF Typed, TypeOK
<1>1. /\ UNCHANGED <<pool, platform, up, silent, cred, keeper, redis, faults, expiries>>
      /\ health' = health \/ health' = [health EXCEPT ![h][Google] = "expired"]
      /\ m \in active[h] /\ active' = [active EXCEPT ![h] = active[h] \ {m}]
      /\ job' = [job EXCEPT ![m] = IF job[m].pc = "accepted" THEN [job[m] EXCEPT !.pc = "ended"] ELSE job[m]]
  BY DEF SessionEnds, JoinFindsSignedOut
<1>2. job' \in [Meetings -> Job] /\ \A n \in Meetings : Named(job'[n])
  <2>. DEFINE v == IF job[m].pc = "accepted" THEN [job[m] EXCEPT !.pc = "ended"] ELSE job[m]
  <2>1. v \in Job /\ Named(v)
    BY EndedTyped DEF Typed
  <2>2. job' = [job EXCEPT ![m] = v]
    BY <1>1
  <2>. HIDE DEF v
  <2>. QED BY <1>0, <2>1, <2>2 DEF Typed
<1>3. health' \in [Hosts -> [Platforms -> Verdict]]
  <2>1. health \in [Hosts -> [Platforms -> Verdict]] /\ "expired" \in Verdict
    BY DEF Typed, TypeOK, Verdict
  <2>2. [health[h] EXCEPT ![Google] = "expired"] \in [Platforms -> Verdict]
    BY <2>1
  <2>. QED BY <1>1, <2>1, <2>2
<1>4. active' \in [Hosts -> SUBSET Meetings] /\ Admitted'
  <2>1. IsFiniteSet(active[h]) /\ Cardinality(active[h]) <= MaxConcurrent
    BY DEF Typed, Admitted
  <2>2. /\ IsFiniteSet(active[h] \ {m}) /\ Cardinality(active[h] \ {m}) = Cardinality(active[h]) - 1
        /\ Cardinality(active[h]) \in Nat
    BY <1>1, <2>1, FS_RemoveElement, FS_CardinalityType
  <2>3. Cardinality(active[h] \ {m}) <= MaxConcurrent
    BY <2>1, <2>2, PoolAssumption
  <2>. QED BY <1>0, <1>1, <2>2, <2>3 DEF Typed, Admitted
<1>5. \A n \in Meetings : job'[n] \in Job
  BY <1>2
<1>. QED BY <1>1, <1>2, <1>3, <1>4, <1>5, JobTyped DEF Typed, TypeOK, redis, history, Choosing, Holding

LEMMA KeeperTyped ==
    ASSUME Typed, NEW h \in Hosts, KeeperStep(h) \/ CheckThrows(h)
    PROVE  Typed'
<1>. DEFINE K == [platform: Platforms, stage: {"idle", "launched", "signed in"}]
<1>0. /\ keeper \in [Hosts -> K] /\ health \in [Hosts -> [Platforms -> Verdict]]
      /\ Platforms = {Google, Zoom}
  BY DEF Typed, TypeOK, Platforms
<1>1. UNCHANGED keeping
  BY DEF KeeperStep, CheckStarts, CheckLands, CheckRecorded, CheckThrows
<1>2. ASSUME NEW stage \in {"launched", "signed in"},
             keeper' = [keeper EXCEPT ![h].stage = stage]
      PROVE  keeper' \in [Hosts -> K]
  <2>. DEFINE k == [keeper[h] EXCEPT !.stage = stage]
  <2>1. k \in K
    BY <1>0
  <2>2. keeper' = [keeper EXCEPT ![h] = k]
    BY <1>2
  <2>. HIDE DEF k, K
  <2>. QED BY <1>0, <2>1, <2>2
<1>3. NextCheck(h) \in K
  BY <1>0 DEF NextCheck, Idle
<1>4. ASSUME NEW v \in Verdict, Observed(h, v)
      PROVE  keeper' \in [Hosts -> K] /\ health' \in [Hosts -> [Platforms -> Verdict]]
  <2>1. keeper[h].platform \in Platforms
    BY <1>0
  <2>. HIDE DEF K
  <2>. QED BY <1>0, <1>3, <1>4, <2>1 DEF Observed
<1>5. keeper' \in [Hosts -> K] /\ health' \in [Hosts -> [Platforms -> Verdict]]
  <2>1. "expired" \in Verdict /\ "ok" \in Verdict /\ health[h][keeper[h].platform] \in Verdict
    BY <1>0 DEF Verdict
  <2>2. CASE CheckStarts(h)
    BY <1>0, <1>2, <1>4, <2>1, <2>2 DEF CheckStarts
  <2>3. CASE CheckLands(h)
    BY <1>0, <1>2, <1>4, <2>1, <2>3 DEF CheckLands
  <2>4. CASE CheckRecorded(h) \/ CheckThrows(h)
    BY <1>4, <2>1, <2>4 DEF CheckRecorded, CheckThrows
  <2>. QED BY <2>2, <2>3, <2>4 DEF KeeperStep
<1>. QED BY <1>1, <1>5 DEF keeping, redis, history, Typed, TypeOK, Admitted

LEMMA BeatsTyped ==
    ASSUME Typed, NEW h \in Hosts, PollHost(h) \/ WriteBeat(h)
    PROVE  Typed'
<1>1. UNCHANGED polling
  BY DEF PollHost, WriteBeat
<1>2. reading' \in [Hosts -> Capacity \cup {NoReading}]
  <2>1. CASE PollHost(h)
    <3>1. Cardinality(active[h]) \in Nat /\ Cardinality(active[h]) <= MaxConcurrent
      BY FS_CardinalityType DEF Typed, Admitted
    <3>2. MaxConcurrent - Cardinality(active[h]) \in 0..MaxConcurrent
      BY <3>1, PoolAssumption
    <3>3. health[h] \in [Platforms -> Verdict]
      BY DEF Typed, TypeOK
    <3>4. Capacities(h) \in Capacity
      BY <3>2, <3>3 DEF Capacities, Capacity
    <3>. QED BY <2>1, <3>4 DEF PollHost, Typed, TypeOK
  <2>2. CASE WriteBeat(h)
    BY <2>2 DEF WriteBeat, Typed, TypeOK
  <2>. QED BY <2>1, <2>2
<1>3. beat' \in [Hosts -> Beat \cup {NoBeat}]
  <2>1. CASE PollHost(h)
    BY <2>1 DEF PollHost, Typed, TypeOK
  <2>2. CASE WriteBeat(h)
    <3>1. reading[h] \in Capacity
      BY <2>2 DEF WriteBeat, Typed, TypeOK
    <3>2. 0 \in 0..TTL + 1
      BY PoolAssumption
    <3>3. [available |-> reading[h].available, auth |-> reading[h].auth, age |-> 0] \in Beat
      BY <3>1, <3>2 DEF Capacity, Beat
    <3>. QED BY <2>2, <3>3 DEF WriteBeat, Typed, TypeOK
  <2>. QED BY <2>1, <2>2
<1>. QED BY <1>1, <1>2, <1>3 DEF polling, history, Typed, TypeOK, Admitted

LEMMA TickTyped == Typed /\ Tick => Typed'
<1>. SUFFICES ASSUME Typed, Tick PROVE Typed'
  OBVIOUS
<1>1. UNCHANGED <<pool, platform, up, active, cred, health, keeper, reading, job, orphans, spent, faults, expiries>>
  BY DEF Tick
<1>2. silent' \in [Hosts -> 0..TTL + 1]
  <2>1. ASSUME NEW h \in Hosts
        PROVE  silent[h] \in 0..TTL + 1 /\ (~(silent[h] > TTL) => silent[h] + 1 \in 0..TTL + 1)
    <3>1. silent[h] \in 0..TTL + 1
      BY DEF Typed, TypeOK
    <3>. QED BY <3>1, PoolAssumption
  <2>. QED BY <2>1 DEF Tick
<1>3. beat' \in [Hosts -> Beat \cup {NoBeat}]
  <2>1. ASSUME NEW h \in Hosts, beat[h] \in Beat, ~(beat[h].age > TTL)
        PROVE  [beat[h] EXCEPT !.age = @ + 1] \in Beat
    <3>1. beat[h].age + 1 \in 0..TTL + 1
      BY <2>1, PoolAssumption DEF Beat
    <3>. QED BY <2>1, <3>1 DEF Beat
  <2>. QED BY <2>1 DEF Tick, Typed, TypeOK
<1>4. reserved' \in [Hosts -> Key]
  <2>1. NoKey \in Key
    BY LivesTyped DEF NoKey, Key
  <2>2. ASSUME NEW h \in Hosts, reserved[h].left # 0
        PROVE  [reserved[h] EXCEPT !.left = @ - 1] \in Key
    <3>1. reserved[h] \in Key /\ reserved[h].left \in 0..Forever
      BY DEF Typed, TypeOK, Key
    <3>2. reserved[h].left - 1 \in 0..Forever
      BY <2>2, <3>1, LivesTyped
    <3>. QED BY <3>1, <3>2 DEF Key
  <2>. QED BY <2>1, <2>2 DEF Tick, Typed, TypeOK, Key
<1>5. lapsed' \subseteq Meetings
  BY DEF Tick, Counted, Typed, TypeOK
<1>. QED BY <1>1, <1>2, <1>3, <1>4, <1>5 DEF Typed, TypeOK, Admitted, Key

LEMMA FaultsTyped ==
    ASSUME Typed,
           \/ WorkerDies
           \/ \E h \in Hosts : HostStops(h) \/ HostStarts(h)
           \/ \E h \in Hosts, p \in Platforms : SignInChanges(h, p)
    PROVE  Typed'
<1>0. job \in [Meetings -> Job] /\ \A n \in Meetings : job[n] \in Job /\ Named(job[n])
  BY DEF Typed
<1>1. CASE WorkerDies
  <2>1. job' \in [Meetings -> Job] /\ \A n \in Meetings : Named(job'[n])
    BY <1>0, <1>1, WaitingTyped DEF WorkerDies
  <2>2. \A n \in Meetings : job'[n] \in Job
    BY <2>1
  <2>3. orphans' \subseteq Hosts
    BY <1>1 DEF WorkerDies, Typed, TypeOK
  <2>4. faults' \in 0..MaxFaults
    BY <1>1, BoundsTyped DEF WorkerDies
  <2>5. reading' \in [Hosts -> Capacity \cup {NoReading}]
    BY <1>1 DEF WorkerDies
  <2>6. UNCHANGED <<pool, platform, up, silent, active, cred, health, keeper, beat, reserved, lapsed, spent, expiries>>
    BY <1>1 DEF WorkerDies
  <2>. QED BY <2>1, <2>2, <2>3, <2>4, <2>5, <2>6, JobTyped DEF Typed, TypeOK, Admitted, Choosing, Holding
<1>2. ASSUME NEW h \in Hosts, HostStops(h)
      PROVE  Typed'
  <2>1. job' \in [Meetings -> Job] /\ \A n \in Meetings : Named(job'[n])
    BY <1>0, <1>2, EndedTyped DEF HostStops
  <2>2. \A n \in Meetings : job'[n] \in Job
    BY <2>1
  <2>3. faults' \in 0..MaxFaults
    BY <1>2, BoundsTyped DEF HostStops
  <2>4. active' \in [Hosts -> SUBSET Meetings] /\ Admitted'
    <3>1. IsFiniteSet({}) /\ Cardinality({}) = 0 /\ 0 <= MaxConcurrent
      BY FS_EmptySet, PoolAssumption
    <3>2. active' = [active EXCEPT ![h] = {}]
      BY <1>2 DEF HostStops
    <3>. QED BY <3>1, <3>2 DEF Typed, TypeOK, Admitted
  <2>5. up' \in [Hosts -> BOOLEAN] /\ health' \in [Hosts -> [Platforms -> Verdict]]
    BY <1>2 DEF HostStops, Verdict, Typed, TypeOK
  <2>6. keeper' \in [Hosts -> [platform: Platforms, stage: {"idle", "launched", "signed in"}]]
    <3>1. Idle \in [platform: Platforms, stage: {"idle", "launched", "signed in"}]
      BY DEF Idle, Platforms
    <3>. QED BY <1>2, <3>1 DEF HostStops, Typed, TypeOK
  <2>7. UNCHANGED <<pool, platform, silent, cred, redis, expiries>>
    BY <1>2 DEF HostStops
  <2>. QED BY <2>1, <2>2, <2>3, <2>4, <2>5, <2>6, <2>7, JobTyped DEF redis, history, Typed, TypeOK, Choosing, Holding
<1>3. ASSUME NEW h \in Hosts, HostStarts(h)
      PROVE  Typed'
  <2>1. up' \in [Hosts -> BOOLEAN] /\ silent' \in [Hosts -> 0..TTL + 1]
    <3>1. 0 \in 0..TTL + 1
      BY PoolAssumption
    <3>2. silent' \in [Hosts -> 0..TTL + 1]
      BY <1>3, <3>1 DEF HostStarts, Typed, TypeOK
    <3>3. up' \in [Hosts -> BOOLEAN]
      BY <1>3 DEF HostStarts, Typed, TypeOK
    <3>. QED BY <3>2, <3>3
  <2>2. UNCHANGED <<pool, platform, active, cred, health, keeper, redis, job, faults, expiries>>
    BY <1>3 DEF HostStarts
  <2>. QED BY <2>1, <2>2 DEF redis, history, Typed, TypeOK, Admitted
<1>4. ASSUME NEW h \in Hosts, NEW p \in Platforms, SignInChanges(h, p)
      PROVE  Typed'
  <2>1. cred' \in [Hosts -> [Platforms -> {"good", "dead", "unreadable"}]]
    <3>. DEFINE C == {"good", "dead", "unreadable"}
    <3>1. cred \in [Hosts -> [Platforms -> C]]
      BY DEF Typed, TypeOK
    <3>2. PICK c \in C : cred' = [cred EXCEPT ![h][p] = c]
      BY <1>4 DEF SignInChanges
    <3>. HIDE DEF C
    <3>3. [cred[h] EXCEPT ![p] = c] \in [Platforms -> C]
      BY <3>1
    <3>4. cred' \in [Hosts -> [Platforms -> C]]
      BY <3>1, <3>2, <3>3
    <3>. QED BY <3>4 DEF C
  <2>2. expiries' \in 0..MaxExpiries
    BY <1>4, BoundsTyped DEF SignInChanges
  <2>3. UNCHANGED <<pool, platform, up, silent, active, health, keeper, redis, job, faults>>
    BY <1>4 DEF SignInChanges
  <2>. QED BY <2>1, <2>2, <2>3 DEF redis, history, Typed, TypeOK, Admitted
<1>. QED BY <1>1, <1>2, <1>3, <1>4

LEMMA NextTyped == Typed /\ [Next]_vars => Typed'
<1>. SUFFICES ASSUME Typed, [Next]_vars PROVE Typed'
  OBVIOUS
<1>1. CASE UNCHANGED vars
  BY <1>1 DEF vars, Typed, TypeOK, Admitted
<1>. QED BY <1>1, DispatchTyped, SessionTyped, KeeperTyped, BeatsTyped, TickTyped, FaultsTyped DEF Next

LEMMA InitTyped == Init => Typed
<1>. SUFFICES ASSUME Init PROVE Typed
  OBVIOUS
<1>1. job \in [Meetings -> Job] /\ \A m \in Meetings : job[m] \in Job /\ Named(job[m])
  BY WaitingTyped DEF Init
<1>2. Admitted /\ active \in [Hosts -> SUBSET Meetings]
  BY FS_EmptySet, PoolAssumption DEF Init, Admitted
<1>3. reserved \in [Hosts -> Key] /\ silent \in [Hosts -> 0..TTL + 1]
      /\ faults \in 0..MaxFaults /\ expiries \in 0..MaxExpiries
  BY PoolAssumption, LivesTyped DEF Init, NoKey, Key
<1>4. keeper \in [Hosts -> [platform: Platforms, stage: {"idle", "launched", "signed in"}]]
      /\ up \in [Hosts -> BOOLEAN] /\ health \in [Hosts -> [Platforms -> Verdict]]
      /\ cred \in [Hosts -> [Platforms -> {"good", "dead", "unreadable"}]]
  BY DEF Init, Idle, Platforms, Verdict
<1>5. pool \subseteq Hosts /\ platform \in [Meetings -> Platforms] /\ lapsed \subseteq Meetings
      /\ orphans \subseteq Hosts /\ spent \subseteq Hosts
      /\ reading \in [Hosts -> Capacity \cup {NoReading}] /\ beat \in [Hosts -> Beat \cup {NoBeat}]
  BY DEF Init
<1>. QED BY <1>1, <1>2, <1>3, <1>4, <1>5, JobTyped DEF Typed, TypeOK, Key, Choosing, Holding

-----------------------------------------------------------------------------
(* Slots.                                                                  *)

HostOf(m) == job[m].host

\* What one command of a dispatch makes of its state and its recorder.
LEMMA DispatchSays ==
    ASSUME Typed, NEW m \in Meetings, DispatchStep(m) \/ ClaimLost(m)
    PROVE  /\ \A n \in Meetings \ {m} : job'[n] = job[n]
           /\ \/ /\ job[m].pc \in Choosing /\ HostOf(m) = NoHost /\ HostOf(m)' = NoHost /\ job'[m].pc \in Choosing
                 /\ UNCHANGED <<reserved, lapsed, orphans, spent>>
              \/ \E c \in Ranked :
                 /\ Count(m, c) /\ HostOf(m) = NoHost /\ job[m].pc = "ranked"
                 /\ HostOf(m)' = c.host
                 /\ job'[m].pc = IF reserved[c.host].n + 1 > c.available THEN "full" ELSE "counted"
              \/ Expire(m) /\ job[m].pc = "counted" /\ HostOf(m) \in Hosts /\ job'[m].pc = "granted" /\ HostOf(m)' = HostOf(m)
              \/ Expire(m) /\ job[m].pc = "full" /\ HostOf(m) \in Hosts /\ job'[m].pc = "excess" /\ HostOf(m)' = HostOf(m)
              \/ TakeBack(m) /\ HostOf(m) \in Hosts /\ job'[m].pc = "ranked" /\ HostOf(m)' = NoHost
              \/ /\ job[m].pc = "granted" /\ job'[m].pc \in {"releasing", "accepted"} /\ HostOf(m)' = HostOf(m)
                 /\ UNCHANGED <<reserved, lapsed, orphans, spent>>
              \/ /\ Release(m) /\ HostOf(m) \in Hosts /\ reserved[HostOf(m)].n <= 0
                 /\ job'[m].pc = "negative" /\ HostOf(m)' = HostOf(m)
              \/ /\ Release(m) /\ HostOf(m) \in Hosts /\ ~(reserved[HostOf(m)].n <= 0)
                 /\ job'[m].pc \in {"waiting", "ended"} /\ HostOf(m)' = NoHost
              \/ /\ DeleteNegative(m) /\ HostOf(m) \in Hosts
                 /\ job'[m].pc \in {"waiting", "ended"} /\ HostOf(m)' = NoHost
<1>0. /\ job[m] \in Job /\ job \in [Meetings -> Job]
      /\ job[m].pc \in Choosing => HostOf(m) = NoHost
      /\ job[m].pc \in Holding => HostOf(m) \in Hosts
  BY DEF Typed, Named, HostOf
<1>1. \A n \in Meetings \ {m} : job'[n] = job[n]
  BY <1>0, DispatchMoves DEF Becomes
<1>2. CASE ListHosts(m) \/ RankHosts(m)
  <2>1. job'[m].host = job[m].host /\ job[m].pc \in Choosing /\ job'[m].pc \in Choosing
    <3>1. CASE ListHosts(m)
      <4>. DEFINE v == [job[m] EXCEPT !.pc = "listed", !.seen = SeenBy(m)]
      <4>1. v.pc = "listed" /\ v.host = job[m].host
        BY <1>0 DEF Job
      <4>2. job[m].pc = "waiting" /\ job' = [job EXCEPT ![m] = v]
        BY <3>1 DEF ListHosts
      <4>. HIDE DEF v
      <4>. QED BY <1>0, <4>1, <4>2 DEF Choosing
    <3>2. CASE RankHosts(m)
      <4>. DEFINE R == {[host |-> s.host, available |-> s.available,
                         headroom |-> s.available - reserved[s.host].n]: s \in job[m].seen}
                  v == [job[m] EXCEPT !.pc = "ranked", !.seen = {}, !.ranked = R]
      <4>1. job[m].pc = "listed" /\ job' = [job EXCEPT ![m] = v]
        BY <3>2 DEF RankHosts
      <4>. HIDE DEF R
      <4>2. v.pc = "ranked" /\ v.host = job[m].host
        BY <1>0 DEF Job
      <4>. HIDE DEF v
      <4>. QED BY <1>0, <4>1, <4>2 DEF Choosing
    <3>. QED BY <1>2, <3>1, <3>2
  <2>2. UNCHANGED <<reserved, lapsed, orphans, spent>>
    BY <1>2 DEF ListHosts, RankHosts, history
  <2>. QED BY <1>0, <1>1, <2>1, <2>2 DEF HostOf
<1>3. CASE EveryoneBusy(m)
  BY <1>0, <1>1, <1>3, WaitingTyped DEF EveryoneBusy, Choosing, HostOf, history
<1>4. ASSUME NEW c \in job[m].ranked, Count(m, c)
      PROVE  /\ c \in Ranked /\ HostOf(m) = NoHost /\ job[m].pc = "ranked" /\ HostOf(m)' = c.host
             /\ job'[m].pc = IF reserved[c.host].n + 1 > c.available THEN "full" ELSE "counted"
  <2>1. c \in Ranked
    BY <1>0, JobTyped
  <2>2. job[m].pc = "ranked" /\ job[m].pc \in Choosing
    BY <1>4 DEF Count, Choosing
  <2>. DEFINE pc == IF reserved[c.host].n + 1 > c.available THEN "full" ELSE "counted"
              v == [job[m] EXCEPT !.pc = pc, !.host = c.host, !.ranked = job[m].ranked \ {c}]
  <2>3. job' = [job EXCEPT ![m] = v]
    BY <1>4, Zenon DEF Count
  <2>4. v.pc = pc /\ v.host = c.host
    BY <1>0 DEF Job
  <2>5. job'[m].pc = pc /\ job'[m].host = c.host
    <3>. HIDE DEF v, pc
    <3>. QED BY <1>0, <2>3, <2>4
  <2>. QED BY <1>0, <2>1, <2>2, <2>5 DEF HostOf
<1>5. CASE Expire(m)
  <2>0. job[m].pc \in {"counted", "full"} /\ job' = [job EXCEPT ![m] = AfterExpire(m)]
    BY <1>5 DEF Expire
  <2>1. CASE job[m].pc = "counted"
    <3>. DEFINE v == [Waiting EXCEPT !.pc = "granted", !.host = job[m].host]
    <3>1. v.pc = "granted" /\ v.host = job[m].host
      BY WaitingTyped DEF Job
    <3>2. job' = [job EXCEPT ![m] = v]
      BY <2>0, <2>1 DEF AfterExpire
    <3>. HIDE DEF v
    <3>. QED BY <1>0, <1>1, <1>5, <2>1, <3>1, <3>2 DEF HostOf, Holding
  <2>2. CASE job[m].pc = "full"
    <3>. DEFINE v == [job[m] EXCEPT !.pc = "excess"]
    <3>1. v.pc = "excess" /\ v.host = job[m].host
      BY <1>0 DEF Job
    <3>2. job' = [job EXCEPT ![m] = v]
      BY <2>0, <2>2 DEF AfterExpire
    <3>. HIDE DEF v
    <3>. QED BY <1>0, <1>1, <1>5, <2>2, <3>1, <3>2 DEF HostOf, Holding
  <2>. QED BY <2>0, <2>1, <2>2
<1>6. CASE TakeBack(m)
  <2>. DEFINE v == [job[m] EXCEPT !.pc = "ranked", !.host = NoHost]
  <2>1. v.pc = "ranked" /\ v.host = NoHost
    BY <1>0 DEF Job
  <2>2. job' = [job EXCEPT ![m] = v] /\ job[m].pc = "excess"
    BY <1>6 DEF TakeBack
  <2>. HIDE DEF v
  <2>. QED BY <1>0, <1>1, <1>6, <2>1, <2>2 DEF HostOf, Holding
<1>7. ASSUME NEW pc \in {"releasing", "accepted", "negative"}, job' = [job EXCEPT ![m].pc = pc]
      PROVE  job'[m].pc = pc /\ HostOf(m)' = HostOf(m)
  BY <1>0, <1>7 DEF Job, HostOf
<1>8. CASE Refused(m) \/ Accepted(m)
  <2>1. /\ job[m].pc = "granted" /\ UNCHANGED <<reserved, lapsed, orphans, spent>>
        /\ \E pc \in {"releasing", "accepted"} : job' = [job EXCEPT ![m].pc = pc]
    BY <1>8 DEF Refused, Accepted, redis, history
  <2>. QED BY <1>1, <1>7, <2>1
<1>9. CASE ClaimLost(m)
  <2>1. job'[m].pc = "releasing" /\ HostOf(m)' = HostOf(m)
    BY <1>0, <1>9 DEF ClaimLost, Job, HostOf
  <2>. QED BY <1>1, <1>9, <2>1 DEF ClaimLost, history
<1>10. ASSUME job' = [job EXCEPT ![m] = AfterRelease(m)]
      PROVE  job'[m].pc \in {"waiting", "ended"} /\ HostOf(m)' = NoHost
  <2>1. AfterRelease(m).pc \in {"waiting", "ended"} /\ AfterRelease(m).host = NoHost
    BY WaitingTyped DEF AfterRelease
  <2>. QED BY <1>0, <1>10, <2>1 DEF HostOf
<1>11. CASE Release(m)
  <2>1. HostOf(m) \in Hosts
    BY <1>0, <1>11 DEF Release, Holding
  <2>2. CASE reserved[HostOf(m)].n <= 0
    <3>1. job' = [job EXCEPT ![m].pc = "negative"]
      BY <1>11, <2>2 DEF Release, HostOf
    <3>. QED BY <1>1, <1>7, <1>11, <2>1, <2>2, <3>1
  <2>3. CASE ~(reserved[HostOf(m)].n <= 0)
    <3>1. job' = [job EXCEPT ![m] = AfterRelease(m)]
      BY <1>11, <2>3 DEF Release, HostOf
    <3>. QED BY <1>1, <1>10, <1>11, <2>1, <2>3, <3>1
  <2>. QED BY <2>2, <2>3
<1>12. CASE DeleteNegative(m)
  <2>1. HostOf(m) \in Hosts /\ job' = [job EXCEPT ![m] = AfterRelease(m)]
    BY <1>0, <1>12 DEF DeleteNegative, Holding
  <2>. QED BY <1>1, <1>10, <1>12, <2>1
<1>. QED BY <1>1, <1>2, <1>3, <1>4, <1>5, <1>6, <1>8, <1>9, <1>11, <1>12 DEF DispatchStep

\* A recorder's reservations: those that still count are in its counter, and as
\* many of them as it has slots were granted one.
Slot(h) ==
    /\ IsFiniteSet(Counted(h))
    /\ Counted(h) = {} \/ Cardinality(Counted(h)) <= reserved[h].n
    /\ Cardinality(Granted(h)) <= MaxConcurrent

LEMMA SlotShrinks ==
    ASSUME Typed, NEW h \in Hosts, Slot(h), Counted(h)' \subseteq Counted(h), Granted(h)' \subseteq Granted(h),
           Counted(h)' = {} \/ reserved'[h].n = reserved[h].n
    PROVE  Slot(h)'
<1>0. reserved[h].n \in Int /\ MaxConcurrent \in Nat
  BY PoolAssumption DEF Typed, TypeOK
<1>1. IsFiniteSet(Counted(h)) /\ IsFiniteSet(Granted(h))
  <2>1. Granted(h) \in SUBSET Counted(h)
    BY DEF Granted
  <2>. QED BY <2>1, FS_Subset DEF Slot
<1>2. /\ IsFiniteSet(Counted(h)') /\ Cardinality(Counted(h)') <= Cardinality(Counted(h))
      /\ Cardinality(Granted(h)') <= Cardinality(Granted(h))
      /\ IsFiniteSet(Granted(h)')
  BY <1>1, FS_Subset
<1>3. /\ Cardinality(Counted(h)) \in Nat /\ Cardinality(Granted(h)) \in Nat
      /\ Cardinality(Counted(h)') \in Nat /\ Cardinality(Granted(h)') \in Nat
  BY <1>1, <1>2, FS_CardinalityType
<1>4. Cardinality(Granted(h)') <= MaxConcurrent
  BY <1>0, <1>2, <1>3 DEF Slot
<1>5. Counted(h)' = {} \/ Cardinality(Counted(h)') <= reserved'[h].n
  BY <1>0, <1>2, <1>3 DEF Slot
<1>. QED BY <1>2, <1>4, <1>5 DEF Slot

\* A DECR takes back one reservation, or the key was new and none counts any more.
LEMMA SlotReleased ==
    ASSUME Typed, NEW h \in Hosts, Slot(h), NEW m \in Meetings,
           \A n \in Meetings \ {m} : job'[n] = job[n],
           m \notin Counted(h)', HostOf(m) = h, job[m].pc \notin {"waiting", "negative"},
           lapsed \ {m} \subseteq lapsed', m \in lapsed => Counted(h) \ {m} \subseteq lapsed',
           reserved'[h].n = reserved[h].n - 1
    PROVE  Slot(h)'
<1>0. reserved[h].n \in Int /\ MaxConcurrent \in Nat
  BY PoolAssumption DEF Typed, TypeOK
<1>1. Counted(h)' \subseteq Counted(h) /\ Granted(h)' \subseteq Granted(h)
  BY DEF Counted, Granted
<1>2. CASE m \in lapsed
  <2>1. Counted(h)' = {}
    <3>1. \A n \in Counted(h)' : n \notin lapsed'
      BY DEF Counted
    <3>. QED BY <1>1, <1>2, <3>1
  <2>. QED BY <1>1, <2>1, SlotShrinks
<1>3. CASE m \notin lapsed
  <2>1. m \in Counted(h)
    BY <1>3 DEF Counted, HostOf
  <2>2. IsFiniteSet(Counted(h)) /\ Cardinality(Counted(h)) <= reserved[h].n
    BY <2>1 DEF Slot
  <2>3. /\ IsFiniteSet(Counted(h) \ {m}) /\ Cardinality(Counted(h) \ {m}) = Cardinality(Counted(h)) - 1
        /\ Cardinality(Counted(h)) \in Nat
    BY <2>1, <2>2, FS_RemoveElement, FS_CardinalityType
  <2>4. Counted(h)' \in SUBSET (Counted(h) \ {m})
    BY <1>1
  <2>5. IsFiniteSet(Counted(h)') /\ Cardinality(Counted(h)') <= Cardinality(Counted(h) \ {m})
        /\ Cardinality(Counted(h)') \in Nat
    BY <2>3, <2>4, FS_Subset, FS_CardinalityType
  <2>6. Cardinality(Counted(h)') <= reserved'[h].n
    BY <1>0, <2>2, <2>3, <2>5
  <2>7. Cardinality(Granted(h)') <= MaxConcurrent
    <3>1. IsFiniteSet(Granted(h)) /\ Granted(h)' \in SUBSET Granted(h)
      BY <1>1, <2>2, FS_Subset DEF Granted
    <3>2. /\ Cardinality(Granted(h)') <= Cardinality(Granted(h)) /\ Cardinality(Granted(h)) <= MaxConcurrent
          /\ Cardinality(Granted(h)') \in Nat /\ Cardinality(Granted(h)) \in Nat
      BY <3>1, FS_Subset, FS_CardinalityType DEF Slot
    <3>. QED BY <1>0, <3>2
  <2>. QED BY <2>5, <2>6, <2>7 DEF Slot
<1>. QED BY <1>2, <1>3

\* An INCR takes a slot of those the last heartbeat showed, or finds them taken.
LEMMA SlotTaken ==
    ASSUME Typed, NEW h \in Hosts, Slot(h), NEW m \in Meetings, NEW available \in 0..MaxConcurrent,
           \A n \in Meetings \ {m} : job'[n] = job[n],
           HostOf(m) = NoHost, HostOf(m)' = h,
           job'[m].pc = IF reserved[h].n + 1 > available THEN "full" ELSE "counted",
           reserved'[h].n = reserved[h].n + 1,
           lapsed' = IF reserved[h].n + 1 <= 0 THEN lapsed \cup {m} ELSE lapsed \ {m}
    PROVE  Slot(h)'
<1>0. /\ reserved[h].n \in Int /\ MaxConcurrent \in Nat /\ available \in Nat /\ available <= MaxConcurrent
      /\ m \notin Counted(h)
  <2>1. reserved[h].n \in Int
    BY DEF Typed, TypeOK
  <2>2. m \notin Counted(h)
    BY PoolAssumption DEF Counted, HostOf
  <2>. QED BY <2>1, <2>2, PoolAssumption
<1>1. IsFiniteSet(Counted(h)) /\ Cardinality(Counted(h)) \in Nat
  BY FS_CardinalityType DEF Slot
<1>2. CASE reserved[h].n + 1 <= 0
  <2>1. Counted(h)' \subseteq Counted(h) /\ Granted(h)' \subseteq Granted(h)
    BY <1>2 DEF Counted, Granted
  <2>2. Counted(h) = {}
    BY <1>0, <1>1, <1>2 DEF Slot
  <2>. QED BY <2>1, <2>2, SlotShrinks
<1>3. CASE ~(reserved[h].n + 1 <= 0)
  <2>1. Counted(h)' \subseteq Counted(h) \cup {m}
    BY <1>3 DEF Counted
  <2>2. /\ IsFiniteSet(Counted(h) \cup {m}) /\ Cardinality(Counted(h) \cup {m}) = Cardinality(Counted(h)) + 1
    BY <1>0, <1>1, FS_AddElement
  <2>3. /\ IsFiniteSet(Counted(h)') /\ Cardinality(Counted(h)') <= Cardinality(Counted(h)) + 1
        /\ Cardinality(Counted(h)') \in Nat
    BY <2>1, <2>2, FS_Subset, FS_CardinalityType
  <2>4. Cardinality(Counted(h)) <= reserved[h].n \/ (Cardinality(Counted(h)) = 0 /\ 0 <= reserved[h].n)
    BY <1>0, <1>3, FS_EmptySet DEF Slot
  <2>5. Cardinality(Counted(h)') <= reserved'[h].n
    BY <1>0, <1>1, <2>3, <2>4
  <2>6. Cardinality(Granted(h)') <= MaxConcurrent
    <3>1. CASE reserved[h].n + 1 > available
      <4>1. Granted(h)' \subseteq Granted(h) /\ Granted(h) \subseteq Counted(h)
        BY <1>3, <3>1 DEF Granted, Counted
      <4>2. /\ IsFiniteSet(Granted(h)) /\ Cardinality(Granted(h)') <= Cardinality(Granted(h))
            /\ IsFiniteSet(Granted(h)')
        BY <1>1, <4>1, FS_Subset
      <4>3. Cardinality(Granted(h)) \in Nat /\ Cardinality(Granted(h)') \in Nat
        BY <4>2, FS_CardinalityType
      <4>. QED BY <1>0, <4>2, <4>3 DEF Slot
    <3>2. CASE ~(reserved[h].n + 1 > available)
      <4>1. Granted(h)' \in SUBSET Counted(h)'
        BY DEF Granted
      <4>2. /\ Cardinality(Granted(h)') <= Cardinality(Counted(h)')
            /\ Cardinality(Granted(h)') \in Nat
        BY <2>3, <4>1, FS_Subset, FS_CardinalityType
      <4>. QED BY <1>0, <2>3, <2>5, <3>2, <4>2
    <3>. QED BY <3>1, <3>2
  <2>. QED BY <2>3, <2>5, <2>6 DEF Slot
<1>. QED BY <1>2, <1>3

\* The step of a dispatch, for the reservations of any recorder.
LEMMA DispatchSlot ==
    ASSUME Typed, NEW h \in Hosts, Slot(h), NEW m \in Meetings, DispatchStep(m) \/ ClaimLost(m)
    PROVE  Slot(h)'
<1>0. (\A n \in Meetings \ {m} : job'[n] = job[n]) /\ h # NoHost /\ -1 \in Int
  BY DispatchSays, PoolAssumption
<1>1. ASSUME m \notin Counted(h)' \/ (m \in Counted(h) /\ (m \in Granted(h)' => m \in Granted(h))),
             lapsed \ {m} \subseteq lapsed',
             Counted(h)' = {} \/ reserved'[h].n = reserved[h].n
      PROVE  Slot(h)'
  <2>1. Counted(h)' \subseteq Counted(h) /\ Granted(h)' \subseteq Granted(h)
    BY <1>0, <1>1 DEF Counted, Granted
  <2>. QED BY <1>1, <2>1, SlotShrinks
<1>2. CASE HostOf(m)' = NoHost /\ UNCHANGED <<reserved, lapsed>>
  BY <1>0, <1>1, <1>2 DEF Counted, HostOf
<1>3. ASSUME NEW c \in Ranked, Count(m, c), HostOf(m) = NoHost, HostOf(m)' = c.host,
             job'[m].pc = IF reserved[c.host].n + 1 > c.available THEN "full" ELSE "counted"
      PROVE  Slot(h)'
  <2>1. /\ c.available \in 0..MaxConcurrent /\ c.host \in Hosts
        /\ lapsed' = IF reserved[c.host].n + 1 <= 0 THEN lapsed \cup {m} ELSE lapsed \ {m}
        /\ Adds(c.host, 1)
    BY <1>3 DEF Count, Ranked
  <2>2. CASE c.host = h
    <3>1. reserved'[h].n = reserved[h].n + 1
      BY <2>1, <2>2, AddsTo
    <3>. QED BY <1>0, <1>3, <2>1, <2>2, <3>1, SlotTaken
  <2>3. CASE c.host # h
    <3>1. reserved'[h] = reserved[h]
      BY <2>1, <2>3, AddsTo
    <3>2. m \notin Counted(h)' /\ lapsed \ {m} \subseteq lapsed'
      BY <1>0, <1>3, <2>1, <2>3 DEF Counted, HostOf
    <3>. QED BY <1>1, <3>1, <3>2
  <2>. QED BY <2>2, <2>3
<1>4. ASSUME Expire(m), HostOf(m) \in Hosts, HostOf(m)' = HostOf(m),
             \/ job[m].pc = "counted" /\ job'[m].pc = "granted"
             \/ job[m].pc = "full" /\ job'[m].pc = "excess"
      PROVE  Slot(h)'
  <2>1. lapsed' = lapsed /\ reserved' = [reserved EXCEPT ![HostOf(m)].left = IF @ = 0 THEN 0 ELSE ReserveFor]
    BY <1>4 DEF Expire, HostOf
  <2>2. reserved'[h].n = reserved[h].n
    <3>1. CASE HostOf(m) = h
      BY <2>1, <3>1, EndsAt
    <3>2. CASE HostOf(m) # h
      <4>1. reserved'[h] = reserved[h]
        BY <1>4, <2>1, <3>2, EndsAt
      <4>. QED BY <4>1
    <3>. QED BY <3>1, <3>2
  <2>3. m \in Counted(h)' => m \in Counted(h) /\ (m \in Granted(h)' => m \in Granted(h))
    BY <1>4, <2>1 DEF Counted, Granted, HostOf
  <2>. QED BY <1>1, <2>1, <2>2, <2>3
<1>5. ASSUME reserved'[h] = reserved[h], m \notin Counted(h)' \/ (HostOf(m) # h /\ HostOf(m)' = HostOf(m)),
             lapsed \ {m} \subseteq lapsed'
      PROVE  Slot(h)'
  BY <1>1, <1>5 DEF Counted, HostOf
<1>6. CASE job[m].pc = "granted" /\ job'[m].pc \in {"releasing", "accepted"} /\ HostOf(m)' = HostOf(m)
           /\ UNCHANGED <<reserved, lapsed>>
  <2>1. m \in Counted(h)' => m \in Counted(h) /\ m \in Granted(h)
    BY <1>6 DEF Counted, Granted, HostOf
  <2>. QED BY <1>1, <1>6, <2>1
<1>7. ASSUME TakeBack(m) \/ Release(m), HostOf(m) \in Hosts, HostOf(m)' = NoHost \/ job'[m].pc = "negative"
      PROVE  Slot(h)'
  <2>1. /\ lapsed' = IF m \in lapsed THEN (lapsed \cup Counted(HostOf(m))) \ {m} ELSE lapsed
        /\ Adds(HostOf(m), -1)
        /\ job[m].pc \in {"excess", "releasing"}
    BY <1>7 DEF TakeBack, Release, HostOf
  <2>2. m \notin Counted(h)'
    BY <1>0, <1>7 DEF Counted, HostOf
  <2>3. CASE HostOf(m) = h
    <3>1. reserved'[h].n = reserved[h].n + (-1) /\ reserved[h].n \in Int
      BY <1>0, <2>1, <2>3, AddsTo DEF Typed, TypeOK
    <3>2. reserved'[h].n = reserved[h].n - 1
      BY <3>1
    <3>. QED BY <1>0, <2>1, <2>2, <2>3, <3>2, SlotReleased
  <2>4. CASE HostOf(m) # h
    <3>1. reserved'[h] = reserved[h]
      BY <1>0, <1>7, <2>1, <2>4, AddsTo
    <3>. QED BY <1>0, <1>5, <2>1, <2>2, <3>1
  <2>. QED BY <2>3, <2>4
<1>8. CASE DeleteNegative(m) /\ HostOf(m) \in Hosts /\ HostOf(m)' = NoHost
  <2>1. lapsed' = lapsed \cup Counted(HostOf(m)) /\ reserved' = [reserved EXCEPT ![HostOf(m)] = NoKey]
    BY <1>8 DEF DeleteNegative, HostOf
  <2>2. m \notin Counted(h)'
    BY <1>0, <1>8 DEF Counted, HostOf
  <2>3. CASE HostOf(m) = h
    <3>1. Counted(h)' \subseteq Counted(h)
      BY <1>0, <2>1, <2>2 DEF Counted
    <3>2. \A n \in Counted(h)' : n \notin lapsed'
      BY DEF Counted
    <3>3. Counted(h)' = {}
      BY <2>1, <2>3, <3>1, <3>2
    <3>. QED BY <1>1, <2>1, <2>2, <3>3
  <2>4. CASE HostOf(m) # h
    <3>1. reserved'[h] = reserved[h]
      BY <1>8, <2>1, <2>4, DeletedKey
    <3>. QED BY <1>0, <1>5, <2>1, <2>2, <3>1
  <2>. QED BY <2>3, <2>4
<1>. QED BY <1>2, <1>3, <1>4, <1>6, <1>7, <1>8, DispatchSays

Slots == \A h \in Hosts : Slot(h)

\* Steps that leave the reservations and their users alone, but for sessions that end.
LEMMA SlotsStand ==
    ASSUME Typed, Slots, UNCHANGED <<reserved, lapsed>>,
           \A n \in Meetings :
             \/ job'[n] = job[n]
             \/ job'[n] = Waiting
             \/ job[n].pc = "accepted" /\ job'[n].pc = "ended" /\ job'[n].host = job[n].host
    PROVE  Slots'
<1>. SUFFICES ASSUME NEW h \in Hosts PROVE Slot(h)'
  BY DEF Slots
<1>1. Slot(h) /\ h # NoHost
  BY PoolAssumption DEF Slots
<1>2. Counted(h)' \subseteq Counted(h) /\ Granted(h)' \subseteq Granted(h)
  BY <1>1, WaitingTyped DEF Counted, Granted
<1>. QED BY <1>1, <1>2, SlotShrinks

LEMMA SlotsKept == Typed /\ Slots /\ [Next]_vars => Slots'
<1>. SUFFICES ASSUME Typed, Slots, [Next]_vars PROVE Slots'
  OBVIOUS
<1>0. job \in [Meetings -> Job] /\ \A n \in Meetings : job[n] \in Job /\ Named(job[n])
  BY DEF Typed
<1>1. ASSUME NEW m \in Meetings, DispatchStep(m) \/ ClaimLost(m)
      PROVE  Slots'
  BY <1>1, DispatchSlot DEF Slots
<1>2. CASE Tick
  <2>. SUFFICES ASSUME NEW h \in Hosts PROVE Slot(h)'
    BY DEF Slots
  <2>1. Counted(h)' \subseteq Counted(h) /\ Granted(h)' \subseteq Granted(h)
    BY <1>2 DEF Tick, Counted, Granted
  <2>2. CASE reserved[h].left = 1
    <3>1. Counted(h) \subseteq lapsed'
      BY <1>2, <2>2 DEF Tick
    <3>2. \A n \in Counted(h)' : n \notin lapsed'
      BY DEF Counted
    <3>3. Counted(h)' = {}
      BY <2>1, <3>1, <3>2
    <3>. QED BY <2>1, <3>3, SlotShrinks DEF Slots
  <2>3. CASE reserved[h].left # 1
    <3>1. reserved'[h] = IF reserved[h].left \in {0, Forever} THEN reserved[h]
                         ELSE [reserved[h] EXCEPT !.left = reserved[h].left - 1]
      BY <1>2, <2>3 DEF Tick
    <3>2. reserved'[h].n = reserved[h].n
      BY <3>1 DEF Typed, TypeOK
    <3>. QED BY <2>1, <3>2, SlotShrinks DEF Slots
  <2>. QED BY <2>2, <2>3
<1>3. CASE WorkerDies
  <2>1. UNCHANGED <<reserved, lapsed>> /\ \A n \in Meetings : job'[n] \in {job[n], Waiting}
    BY <1>3 DEF WorkerDies
  <2>. QED BY <2>1, SlotsStand
<1>4. ASSUME NEW h \in Hosts, NEW m \in Meetings, SessionEnds(h, m) \/ JoinFindsSignedOut(h, m)
      PROVE  Slots'
  <2>1. UNCHANGED <<reserved, lapsed>> /\ job' = [job EXCEPT ![m] =
          IF job[m].pc = "accepted" THEN [job[m] EXCEPT !.pc = "ended"] ELSE job[m]]
    BY <1>4 DEF SessionEnds, JoinFindsSignedOut, redis, history
  <2>2. \A n \in Meetings \ {m} : job'[n] = job[n]
    BY <1>0, <2>1
  <2>3. job'[m] = IF job[m].pc = "accepted" THEN [job[m] EXCEPT !.pc = "ended"] ELSE job[m]
    BY <1>0, <2>1
  <2>4. /\ [job[m] EXCEPT !.pc = "ended"].pc = "ended"
        /\ [job[m] EXCEPT !.pc = "ended"].host = job[m].host
    BY <1>0, EndedTyped
  <2>5. job'[m] = job[m] \/ (job[m].pc = "accepted" /\ job'[m].pc = "ended" /\ job'[m].host = job[m].host)
    BY <2>3, <2>4, Zenon
  <2>6. ASSUME NEW n \in Meetings
        PROVE  job'[n] = job[n] \/ (job[n].pc = "accepted" /\ job'[n].pc = "ended" /\ job'[n].host = job[n].host)
    BY <2>2, <2>5
  <2>. QED BY <2>1, <2>6, SlotsStand
<1>5. ASSUME NEW h \in Hosts, HostStops(h)
      PROVE  Slots'
  <2>1. UNCHANGED <<reserved, lapsed>> /\ \A n \in Meetings :
          job'[n] = IF n \in active[h] /\ job[n].pc = "accepted" THEN [job[n] EXCEPT !.pc = "ended"] ELSE job[n]
    BY <1>5 DEF HostStops, redis, history
  <2>2. ASSUME NEW n \in Meetings
        PROVE  job'[n] = job[n] \/ (job[n].pc = "accepted" /\ job'[n].pc = "ended" /\ job'[n].host = job[n].host)
    <3>1. /\ [job[n] EXCEPT !.pc = "ended"].pc = "ended"
          /\ [job[n] EXCEPT !.pc = "ended"].host = job[n].host
      BY <1>0, EndedTyped
    <3>2. job'[n] = IF n \in active[h] /\ job[n].pc = "accepted" THEN [job[n] EXCEPT !.pc = "ended"] ELSE job[n]
      BY <2>1
    <3>. QED BY <3>1, <3>2, Zenon
  <2>. QED BY <2>1, <2>2, SlotsStand
<1>6. ASSUME NEW h \in Hosts,
             \/ KeeperStep(h) \/ CheckThrows(h) \/ PollHost(h) \/ WriteBeat(h) \/ HostStarts(h)
             \/ \E p \in Platforms : SignInChanges(h, p)
      PROVE  UNCHANGED <<reserved, lapsed, job>>
  BY <1>6 DEF KeeperStep, CheckStarts, CheckLands, CheckRecorded, CheckThrows, PollHost, WriteBeat, HostStarts,
              SignInChanges, keeping, polling, redis, history
<1>7. CASE UNCHANGED vars
  BY <1>7, SlotsStand DEF vars, history
<1>. QED BY <1>1, <1>2, <1>3, <1>4, <1>5, <1>6, <1>7, SlotsStand DEF Next

LEMMA SlotsMean == Slots => NoSlotTwice
BY DEF Slots, Slot, NoSlotTwice

-----------------------------------------------------------------------------
(* Expiries.                                                               *)

\* A job is between two of its commands to the counter of h.
Between(m, h) == HostOf(m) = h /\ job[m].pc \in {"counted", "full", "negative"}

\* Why the counter of h may have no expiry.
Excused(h) ==
    \/ \E m \in Meetings : Between(m, h)
    \/ h \in orphans
    \/ h \in spent /\ reserved[h].n < 0

\* KeysExpire of one recorder, and that there is no value without a key: it is what
\* makes a DECR that creates one leave it below zero.
Expires(h) ==
    /\ reserved[h].left = 0 => reserved[h].n = 0
    /\ reserved[h].left = Forever => Excused(h)

LEMMA DispatchExpires ==
    ASSUME Typed, NEW h \in Hosts, Expires(h), NEW m \in Meetings, DispatchStep(m) \/ ClaimLost(m)
    PROVE  Expires(h)'
<1>0. /\ \A n \in Meetings \ {m} : job'[n] = job[n]
      /\ reserved[h].n \in Int /\ -1 \in Int
  <2>1. reserved[h].n \in Int
    BY DEF Typed, TypeOK
  <2>. QED BY <2>1, DispatchSays
<1>1. ASSUME reserved'[h] = reserved[h], h \in orphans => h \in orphans', h \in spent => h \in spent',
             Between(m, h) => Between(m, h)'
      PROVE  Expires(h)'
  <2>1. Excused(h) => Excused(h)'
    BY <1>0, <1>1 DEF Excused, Between, HostOf
  <2>. QED BY <1>1, <2>1 DEF Expires
<1>2. ASSUME UNCHANGED <<reserved, orphans, spent>>, ~Between(m, h)
      PROVE  Expires(h)'
  BY <1>1, <1>2
<1>3. ASSUME NEW g \in Hosts \ {h}, HostOf(m) = g, orphans \ {g} \subseteq orphans', spent \ {g} \subseteq spent',
             reserved'[h] = reserved[h]
      PROVE  Expires(h)'
  BY <1>1, <1>3 DEF Between
<1>4. ASSUME Excused(h)', reserved'[h].left # 0
      PROVE  Expires(h)'
  BY <1>4 DEF Expires
<1>5. CASE job[m].pc \in Choosing \cup {"granted"} /\ UNCHANGED <<reserved, orphans, spent>>
  BY <1>2, <1>5 DEF Between, Choosing
<1>6. ASSUME NEW c \in Ranked, Count(m, c), job[m].pc = "ranked", HostOf(m)' = c.host,
             job'[m].pc = IF reserved[c.host].n + 1 > c.available THEN "full" ELSE "counted"
      PROVE  Expires(h)'
  <2>1. c.host \in Hosts /\ Adds(c.host, 1) /\ UNCHANGED <<orphans, spent>>
    BY <1>6 DEF Count, Ranked
  <2>2. CASE c.host = h
    <3>1. reserved'[h].left # 0
      BY <2>1, <2>2, AddsTo, LivesTyped
    <3>2. Excused(h)'
      BY <1>6, <2>2 DEF Excused, Between
    <3>. QED BY <1>4, <3>1, <3>2
  <2>3. CASE c.host # h
    <3>1. reserved'[h] = reserved[h] /\ ~Between(m, h)
      BY <1>6, <2>1, <2>3, AddsTo DEF Between
    <3>. QED BY <1>1, <2>1, <3>1
  <2>. QED BY <2>2, <2>3
<1>7. CASE Expire(m) /\ HostOf(m) \in Hosts
  <2>1. /\ reserved' = [reserved EXCEPT ![HostOf(m)].left = IF @ = 0 THEN 0 ELSE ReserveFor]
        /\ orphans' = orphans \ {HostOf(m)} /\ spent' = spent \ {HostOf(m)}
    BY <1>7 DEF Expire, HostOf
  <2>2. CASE HostOf(m) = h
    <3>1. reserved'[h].n = reserved[h].n /\ reserved'[h].left = IF reserved[h].left = 0 THEN 0 ELSE ReserveFor
      BY <2>1, <2>2, EndsAt
    <3>. QED BY <3>1, LivesTyped DEF Expires
  <2>3. CASE HostOf(m) # h
    <3>1. reserved'[h] = reserved[h]
      BY <1>7, <2>1, <2>3, EndsAt
    <3>. QED BY <1>3, <1>7, <2>1, <2>3, <3>1
  <2>. QED BY <2>2, <2>3
<1>8. CASE TakeBack(m) /\ HostOf(m) \in Hosts
  <2>1. /\ Adds(HostOf(m), -1) /\ UNCHANGED orphans /\ job[m].pc = "excess"
        /\ spent' = IF reserved[HostOf(m)].left = 0 THEN spent \cup {HostOf(m)} ELSE spent
    BY <1>8 DEF TakeBack, HostOf
  <2>2. CASE HostOf(m) = h
    <3>1. /\ reserved'[h].n = reserved[h].n + (-1)
          /\ reserved'[h].left = IF reserved[h].left = 0 THEN Forever ELSE reserved[h].left
          /\ reserved'[h].left # 0
      BY <1>0, <2>1, <2>2, AddsTo, LivesTyped
    <3>2. CASE reserved[h].left = 0
      <4>1. reserved'[h].n < 0 /\ h \in spent'
        BY <2>1, <2>2, <3>1, <3>2 DEF Expires
      <4>. QED BY <1>4, <3>1, <4>1 DEF Excused
    <3>3. CASE reserved[h].left # 0
      <4>1. reserved'[h].left = reserved[h].left /\ spent' = spent /\ (reserved[h].n < 0 => reserved'[h].n < 0)
        BY <1>0, <2>1, <2>2, <3>1, <3>3
      <4>2. Excused(h) => Excused(h)'
        BY <1>0, <2>1, <4>1 DEF Excused, Between, HostOf
      <4>. QED BY <3>1, <4>1, <4>2 DEF Expires
    <3>. QED BY <3>2, <3>3
  <2>3. CASE HostOf(m) # h
    <3>1. reserved'[h] = reserved[h]
      BY <1>0, <1>8, <2>1, <2>3, AddsTo
    <3>. QED BY <1>3, <1>8, <2>1, <2>3, <3>1
  <2>. QED BY <2>2, <2>3
<1>9. ASSUME Release(m), HostOf(m) \in Hosts,
             (job'[m].pc = "negative" /\ HostOf(m)' = HostOf(m)) \/ ~(reserved[HostOf(m)].n <= 0)
      PROVE  Expires(h)'
  <2>1. Adds(HostOf(m), -1) /\ UNCHANGED <<orphans, spent>> /\ job[m].pc = "releasing"
    BY <1>9 DEF Release, HostOf
  <2>2. CASE HostOf(m) = h
    <3>1. /\ reserved'[h].n = reserved[h].n + (-1)
          /\ reserved'[h].left = IF reserved[h].left = 0 THEN Forever ELSE reserved[h].left
          /\ reserved'[h].left # 0
      BY <1>0, <2>1, <2>2, AddsTo, LivesTyped
    <3>2. CASE job'[m].pc = "negative" /\ HostOf(m)' = HostOf(m)
      <4>1. Excused(h)'
        BY <2>2, <3>2 DEF Excused, Between
      <4>. QED BY <1>4, <3>1, <4>1
    <3>3. CASE ~(reserved[h].n <= 0)
      <4>1. reserved[h].left # 0 /\ ~(reserved[h].n < 0)
        BY <1>0, <3>3 DEF Expires
      <4>2. reserved'[h].left = reserved[h].left
        BY <3>1, <4>1
      <4>3. Excused(h) => Excused(h)'
        BY <1>0, <2>1, <4>1 DEF Excused, Between, HostOf
      <4>. QED BY <3>1, <4>2, <4>3 DEF Expires
    <3>. QED BY <1>9, <2>2, <3>2, <3>3
  <2>3. CASE HostOf(m) # h
    <3>1. reserved'[h] = reserved[h]
      BY <1>0, <1>9, <2>1, <2>3, AddsTo
    <3>. QED BY <1>3, <1>9, <2>1, <2>3, <3>1
  <2>. QED BY <2>2, <2>3
<1>10. CASE DeleteNegative(m) /\ HostOf(m) \in Hosts
  <2>1. /\ reserved' = [reserved EXCEPT ![HostOf(m)] = NoKey]
        /\ orphans' = orphans \ {HostOf(m)} /\ spent' = spent \ {HostOf(m)}
    BY <1>10 DEF DeleteNegative, HostOf
  <2>2. CASE HostOf(m) = h
    <3>1. reserved'[h].n = 0 /\ reserved'[h].left = 0
      BY <2>1, <2>2, DeletedKey
    <3>. QED BY <3>1, LivesTyped DEF Expires
  <2>3. CASE HostOf(m) # h
    <3>1. reserved'[h] = reserved[h]
      BY <1>10, <2>1, <2>3, DeletedKey
    <3>. QED BY <1>3, <1>10, <2>1, <2>3, <3>1
  <2>. QED BY <2>2, <2>3
<1>. QED BY <1>5, <1>6, <1>7, <1>8, <1>9, <1>10, DispatchSays

Keys == \A h \in Hosts : Expires(h)

LEMMA KeysMean == Keys => KeysExpire
BY DEF Keys, Expires, Excused, Between, HostOf, KeysExpire, InUse

LEMMA ExpiresStands ==
    ASSUME NEW h \in Hosts, Expires(h), reserved'[h] = reserved[h], UNCHANGED <<orphans, spent>>,
           \A n \in Meetings : job'[n] = job[n] \/ job[n].pc = "accepted"
    PROVE  Expires(h)'
BY DEF Expires, Excused, Between, HostOf

LEMMA KeysKept == Typed /\ Keys /\ [Next]_vars => Keys'
<1>. SUFFICES ASSUME Typed, Keys, [Next]_vars, NEW h \in Hosts PROVE Expires(h)'
  BY DEF Keys
<1>0. job \in [Meetings -> Job] /\ reserved[h] \in Key /\ Expires(h)
  BY DEF Typed, TypeOK, Key, Keys
<1>1. ASSUME NEW m \in Meetings, DispatchStep(m) \/ ClaimLost(m)
      PROVE  Expires(h)'
  BY <1>0, <1>1, DispatchExpires
<1>2. CASE Tick
  <2>0. reserved'[h] = IF reserved[h].left = 1 THEN NoKey
                       ELSE IF reserved[h].left \in {0, Forever} THEN reserved[h]
                       ELSE [reserved[h] EXCEPT !.left = reserved[h].left - 1]
    BY <1>2 DEF Tick
  <2>1. UNCHANGED <<job, orphans, spent>>
    BY <1>2 DEF Tick
  <2>2. CASE reserved[h].left = 1
    <3>1. reserved'[h].n = 0 /\ reserved'[h].left = 0
      BY <2>0, <2>2 DEF NoKey
    <3>. QED BY <3>1, LivesTyped DEF Expires
  <2>3. CASE reserved[h].left \in {0, Forever}
    <3>1. reserved'[h] = reserved[h]
      BY <2>0, <2>3, LivesTyped
    <3>. QED BY <1>0, <2>1, <3>1, ExpiresStands
  <2>4. CASE reserved[h].left \notin {0, 1, Forever}
    <3>1. reserved'[h].left = reserved[h].left - 1
      BY <1>0, <2>0, <2>4 DEF Key
    <3>2. reserved'[h].left # 0 /\ reserved'[h].left # Forever
      BY <1>0, <2>4, <3>1, PoolAssumption DEF Key, Forever
    <3>. QED BY <3>2 DEF Expires
  <2>. QED BY <2>2, <2>3, <2>4
<1>3. CASE WorkerDies
  <2>1. UNCHANGED <<reserved, spent>>
    BY <1>3 DEF WorkerDies
  <2>2. /\ h \in orphans => h \in orphans'
        /\ reserved[h].left = Forever /\ (\E m \in Meetings : Between(m, h)) => h \in orphans'
    BY <1>3 DEF WorkerDies, Between, HostOf, InUse
  <2>. QED BY <1>0, <2>1, <2>2 DEF Expires, Excused
<1>4. ASSUME NEW g \in Hosts, NEW m \in Meetings, SessionEnds(g, m) \/ JoinFindsSignedOut(g, m)
      PROVE  Expires(h)'
  <2>1. UNCHANGED <<reserved, orphans, spent>> /\ job' = [job EXCEPT ![m] =
          IF job[m].pc = "accepted" THEN [job[m] EXCEPT !.pc = "ended"] ELSE job[m]]
    BY <1>4 DEF SessionEnds, JoinFindsSignedOut, redis, history
  <2>2. \A n \in Meetings : job'[n] = job[n] \/ job[n].pc = "accepted"
    BY <1>0, <2>1
  <2>. QED BY <1>0, <2>1, <2>2, ExpiresStands
<1>5. ASSUME NEW g \in Hosts, HostStops(g)
      PROVE  Expires(h)'
  <2>1. UNCHANGED <<reserved, orphans, spent>> /\ \A n \in Meetings : job'[n] = job[n] \/ job[n].pc = "accepted"
    BY <1>5 DEF HostStops, redis, history
  <2>. QED BY <1>0, <2>1, ExpiresStands
<1>6. ASSUME NEW g \in Hosts,
             \/ KeeperStep(g) \/ CheckThrows(g) \/ PollHost(g) \/ WriteBeat(g) \/ HostStarts(g)
             \/ \E p \in Platforms : SignInChanges(g, p)
      PROVE  UNCHANGED <<reserved, orphans, spent, job>>
  BY <1>6 DEF KeeperStep, CheckStarts, CheckLands, CheckRecorded, CheckThrows, PollHost, WriteBeat, HostStarts,
              SignInChanges, keeping, polling, redis, history
<1>7. CASE UNCHANGED vars
  BY <1>0, <1>7, ExpiresStands DEF vars
<1>. QED BY <1>0, <1>1, <1>2, <1>3, <1>4, <1>5, <1>6, <1>7, ExpiresStands DEF Next

-----------------------------------------------------------------------------
(* Heartbeats.                                                             *)

\* A heartbeat is no younger than the recorder's silence, and an answer on its way
\* was given within this tick.
Heard ==
    \A h \in Hosts :
      /\ up[h] => silent[h] = 0
      /\ reading[h] # NoReading => silent[h] = 0 /\ h \in pool
      /\ beat[h] # NoBeat => silent[h] <= beat[h].age

LEMMA HeardKept == Typed /\ Heard /\ [Next]_vars => Heard'
<1>. SUFFICES ASSUME Typed, Heard, [Next]_vars PROVE Heard'
  OBVIOUS
<1>0. /\ TTL \in Nat /\ reading \in [Hosts -> Capacity \cup {NoReading}] /\ beat \in [Hosts -> Beat \cup {NoBeat}]
      /\ \A h \in Hosts : silent[h] \in Nat /\ silent[h] <= TTL + 1
      /\ \A h \in Hosts : beat[h] # NoBeat => beat[h] \in Beat /\ beat[h].age \in Nat /\ beat[h].age <= TTL + 1
  <2>1. /\ reading \in [Hosts -> Capacity \cup {NoReading}] /\ beat \in [Hosts -> Beat \cup {NoBeat}]
        /\ silent \in [Hosts -> 0..TTL + 1]
    BY DEF Typed, TypeOK
  <2>2. TTL \in Nat
    BY PoolAssumption
  <2>3. \A b \in Beat : b.age \in 0..TTL + 1
    BY DEF Beat
  <2>4. \A n \in 0..TTL + 1 : n \in Nat /\ n <= TTL + 1
    BY <2>2
  <2>5. ASSUME NEW h \in Hosts PROVE silent[h] \in 0..TTL + 1 /\ (beat[h] # NoBeat => beat[h] \in Beat)
    BY <2>1
  <2>6. ASSUME NEW h \in Hosts, beat[h] # NoBeat PROVE beat[h] \in Beat /\ beat[h].age \in 0..TTL + 1
    BY <2>3, <2>5, <2>6
  <2>. QED BY <2>1, <2>2, <2>4, <2>5, <2>6
<1>1. CASE UNCHANGED <<pool, up, silent, reading, beat>>
  BY <1>1 DEF Heard
<1>2. CASE Tick
  <2>. SUFFICES ASSUME NEW h \in Hosts
                PROVE  /\ up'[h] => silent'[h] = 0
                       /\ reading'[h] # NoReading => silent'[h] = 0 /\ h \in pool'
                       /\ beat'[h] # NoBeat => silent'[h] <= beat'[h].age
    BY DEF Heard
  <2>1. /\ UNCHANGED <<pool, up, reading>> /\ (h \in pool => reading[h] = NoReading)
        /\ silent'[h] = IF h \notin pool \/ up[h] \/ silent[h] > TTL THEN silent[h] ELSE silent[h] + 1
        /\ beat'[h] = IF beat[h] = NoBeat \/ beat[h].age > TTL THEN beat[h]
                      ELSE [beat[h] EXCEPT !.age = beat[h].age + 1]
    BY <1>2 DEF Tick
  <2>2. beat'[h] # NoBeat => silent'[h] <= beat'[h].age
    <3>1. CASE beat[h] = NoBeat
      BY <2>1, <3>1
    <3>2. CASE beat[h] # NoBeat /\ beat[h].age > TTL
      <4>1. beat'[h] = beat[h] /\ beat[h].age = TTL + 1
        BY <1>0, <2>1, <3>2
      <4>. QED BY <1>0, <2>1, <4>1
    <3>3. CASE beat[h] # NoBeat /\ ~(beat[h].age > TTL)
      <4>1. beat'[h].age = beat[h].age + 1
        BY <1>0, <2>1, <3>3 DEF Beat
      <4>2. silent[h] <= beat[h].age
        BY <3>3 DEF Heard
      <4>. QED BY <1>0, <2>1, <4>1, <4>2
    <3>. QED BY <3>1, <3>2, <3>3
  <2>. QED BY <2>1, <2>2 DEF Heard
<1>3. ASSUME NEW h \in Hosts, PollHost(h)
      PROVE  Heard'
  BY <1>0, <1>3 DEF PollHost, polling, Heard
<1>4. ASSUME NEW h \in Hosts, WriteBeat(h)
      PROVE  Heard'
  <2>. DEFINE b == [available |-> reading[h].available, auth |-> reading[h].auth, age |-> 0]
  <2>1. b.age = 0
    OBVIOUS
  <2>2. reading[h] # NoReading /\ beat' = [beat EXCEPT ![h] = b] /\ reading' = [reading EXCEPT ![h] = NoReading]
        /\ UNCHANGED <<pool, up, silent>>
    BY <1>4 DEF WriteBeat, polling
  <2>. HIDE DEF b
  <2>. QED BY <1>0, <2>1, <2>2 DEF Heard
<1>5. ASSUME NEW h \in Hosts, HostStops(h)
      PROVE  Heard'
  BY <1>5 DEF HostStops, redis, Heard, Typed, TypeOK
<1>6. ASSUME NEW h \in Hosts, HostStarts(h)
      PROVE  Heard'
  <2>1. /\ up' = [up EXCEPT ![h] = TRUE] /\ silent' = [silent EXCEPT ![h] = 0]
        /\ UNCHANGED <<pool, reading, beat>> /\ silent \in [Hosts -> 0..TTL + 1] /\ up \in [Hosts -> BOOLEAN]
    BY <1>6 DEF HostStarts, redis, Typed, TypeOK
  <2>2. \A g \in Hosts : silent'[g] = IF g = h THEN 0 ELSE silent[g]
    BY <2>1
  <2>3. \A g \in Hosts \ {h} : up'[g] = up[g]
    BY <2>1
  <2>. QED BY <1>0, <2>1, <2>2, <2>3 DEF Heard
<1>7. CASE WorkerDies
  BY <1>7 DEF WorkerDies, Heard
<1>8. ASSUME NEW m \in Meetings, DispatchStep(m) \/ ClaimLost(m)
      PROVE  UNCHANGED <<pool, up, silent, reading, beat>>
  BY <1>8 DEF DispatchStep, ListHosts, RankHosts, EveryoneBusy, Count, Expire, TakeBack, Refused, Accepted, Release,
         DeleteNegative, ClaimLost, claiming, redis
<1>9. ASSUME NEW h \in Hosts,
             \/ KeeperStep(h) \/ CheckThrows(h)
             \/ \E m \in Meetings : SessionEnds(h, m) \/ JoinFindsSignedOut(h, m)
             \/ \E p \in Platforms : SignInChanges(h, p)
      PROVE  UNCHANGED <<pool, up, silent, reading, beat>>
  BY <1>9 DEF KeeperStep, CheckStarts, CheckLands, CheckRecorded, CheckThrows, SessionEnds, JoinFindsSignedOut,
              SignInChanges, keeping, redis
<1>10. CASE UNCHANGED vars
  BY <1>1, <1>10 DEF vars
<1>. QED BY <1>1, <1>2, <1>3, <1>4, <1>5, <1>6, <1>7, <1>8, <1>9, <1>10 DEF Next

\* Only ListHosts adds to what a dispatch has seen.
LEMMA SeenSteps ==
    ASSUME Typed, [Next]_vars, NEW m \in Meetings
    PROVE  job'[m].seen \subseteq job[m].seen \/ (ListHosts(m) /\ job'[m].seen = SeenBy(m))
<1>0. /\ job \in [Meetings -> Job] /\ \A n \in Meetings : job[n] \in Job /\ Named(job[n])
      /\ Waiting.seen = {} /\ Ended.seen = {}
  BY WaitingTyped DEF Typed
<1>1. ASSUME NEW n \in Meetings, DispatchStep(n) \/ ClaimLost(n), n # m
      PROVE  job'[m] = job[m]
  BY <1>0, <1>1, DispatchSays
<1>2. CASE ListHosts(m)
  <2>. DEFINE s == SeenBy(m)
  <2>1. job' = [job EXCEPT ![m] = [job[m] EXCEPT !.pc = "listed", !.seen = s]]
    BY <1>2 DEF ListHosts
  <2>. HIDE DEF s
  <2>2. job'[m].seen = s
    BY <1>0, <2>1 DEF Job
  <2>. QED BY <1>2, <2>2 DEF s
<1>3. CASE RankHosts(m)
  <2>. DEFINE R == {[host |-> s.host, available |-> s.available,
                     headroom |-> s.available - reserved[s.host].n]: s \in job[m].seen}
  <2>1. job' = [job EXCEPT ![m] = [job[m] EXCEPT !.pc = "ranked", !.seen = {}, !.ranked = R]]
    BY <1>3 DEF RankHosts
  <2>. HIDE DEF R
  <2>2. job'[m].seen = {}
    BY <1>0, <2>1 DEF Job
  <2>. QED BY <2>2
<1>4. CASE EveryoneBusy(m)
  BY <1>0, <1>4 DEF EveryoneBusy
<1>5. ASSUME NEW c \in job[m].ranked, Count(m, c)
      PROVE  job'[m].seen = job[m].seen
  <2>. DEFINE pc == IF reserved[c.host].n + 1 > c.available THEN "full" ELSE "counted"
              v == [job[m] EXCEPT !.pc = pc, !.host = c.host, !.ranked = job[m].ranked \ {c}]
  <2>1. job' = [job EXCEPT ![m] = v]
    BY <1>5, Zenon DEF Count
  <2>2. v.seen = job[m].seen
    BY <1>0 DEF Job
  <2>. HIDE DEF v
  <2>. QED BY <1>0, <2>1, <2>2
<1>6. CASE Expire(m)
  <2>1. job' = [job EXCEPT ![m] = AfterExpire(m)]
    BY <1>6 DEF Expire
  <2>2. [Waiting EXCEPT !.pc = "granted", !.host = job[m].host].seen = {}
    BY DEF Waiting
  <2>3. [job[m] EXCEPT !.pc = "excess"].seen = job[m].seen
    BY <1>0 DEF Job
  <2>4. AfterExpire(m).seen \subseteq job[m].seen
    BY <2>2, <2>3, Zenon DEF AfterExpire
  <2>. QED BY <1>0, <2>1, <2>4
<1>7. CASE TakeBack(m)
  BY <1>0, <1>7 DEF TakeBack, Job
<1>8. ASSUME NEW pc, job' = [job EXCEPT ![m].pc = pc]
      PROVE  job'[m].seen = job[m].seen
  BY <1>0, <1>8 DEF Job
<1>9. CASE Refused(m) \/ Accepted(m)
  <2>1. \E pc : job' = [job EXCEPT ![m].pc = pc]
    BY <1>9 DEF Refused, Accepted
  <2>. QED BY <1>8, <2>1
<1>10. CASE ClaimLost(m)
  BY <1>0, <1>10 DEF ClaimLost, Job
<1>11. CASE Release(m) \/ DeleteNegative(m)
  <2>1. \/ job' = [job EXCEPT ![m].pc = "negative"]
        \/ job' = [job EXCEPT ![m] = AfterRelease(m)]
    BY <1>11 DEF Release, DeleteNegative
  <2>2. AfterRelease(m).seen = {}
    BY <1>0 DEF AfterRelease
  <2>. QED BY <1>0, <1>8, <2>1, <2>2
<1>12. ASSUME NEW h \in Hosts, NEW n \in Meetings, SessionEnds(h, n) \/ JoinFindsSignedOut(h, n)
       PROVE  job'[m].seen = job[m].seen
  <2>1. job' = [job EXCEPT ![n] = IF job[n].pc = "accepted" THEN [job[n] EXCEPT !.pc = "ended"] ELSE job[n]]
    BY <1>12 DEF SessionEnds, JoinFindsSignedOut
  <2>2. [job[n] EXCEPT !.pc = "ended"].seen = job[n].seen
    BY <1>0, EndedTyped
  <2>. QED BY <1>0, <2>1, <2>2
<1>13. ASSUME NEW h \in Hosts, HostStops(h)
       PROVE  job'[m].seen = job[m].seen
  <2>1. job'[m] = job[m] \/ job'[m] = [job[m] EXCEPT !.pc = "ended"]
    BY <1>13 DEF HostStops
  <2>. QED BY <1>0, <2>1, EndedTyped
<1>14. CASE WorkerDies
  BY <1>0, <1>14 DEF WorkerDies
<1>15. ASSUME NEW h \in Hosts,
             \/ KeeperStep(h) \/ CheckThrows(h) \/ PollHost(h) \/ WriteBeat(h) \/ HostStarts(h)
             \/ \E p \in Platforms : SignInChanges(h, p)
      PROVE  UNCHANGED job
  BY <1>15 DEF KeeperStep, CheckStarts, CheckLands, CheckRecorded, CheckThrows, PollHost, WriteBeat, HostStarts,
              SignInChanges, keeping, polling, redis, history
<1>16. CASE Tick \/ UNCHANGED vars
  BY <1>16 DEF Tick, vars
<1>. QED BY <1>1, <1>2, <1>3, <1>4, <1>5, <1>6, <1>7, <1>9, <1>10, <1>11, <1>12, <1>13, <1>14, <1>15, <1>16
         DEF Next, DispatchStep

LEMMA DeadAreSkipped ==
    ASSUME Typed, Heard, [Next]_vars, NEW m \in Meetings, NEW s \in job'[m].seen \ job[m].seen
    PROVE  up[s.host] \/ silent[s.host] <= TTL
<1>1. s \in SeenBy(m)
  BY SeenSteps
<1>2. PICK h \in pool : Fresh(h) /\ s = [host |-> h, available |-> beat[h].available]
  BY <1>1 DEF SeenBy
<1>3. h \in Hosts /\ s.host = h /\ beat[h] # NoBeat /\ beat[h].age <= TTL
  BY <1>2 DEF Fresh, Typed, TypeOK
<1>4. silent[h] <= beat[h].age /\ silent[h] \in Nat /\ beat[h].age \in Nat /\ TTL \in Nat
  <2>1. beat \in [Hosts -> Beat \cup {NoBeat}] /\ silent \in [Hosts -> 0..TTL + 1]
    BY DEF Typed, TypeOK
  <2>2. beat[h] \in Beat /\ silent[h] \in 0..TTL + 1
    BY <1>3, <2>1
  <2>3. beat[h].age \in 0..TTL + 1
    BY <2>2 DEF Beat
  <2>4. TTL \in Nat
    BY PoolAssumption
  <2>5. silent[h] <= beat[h].age
    BY <1>3 DEF Heard
  <2>. QED BY <2>2, <2>3, <2>4, <2>5
<1>. QED BY <1>3, <1>4

-----------------------------------------------------------------------------
(* Theorems.                                                               *)

IInv ==
    /\ Typed
    /\ Slots
    /\ Keys
    /\ Heard

LEMMA InitHolds == Init => IInv
<1>. SUFFICES ASSUME Init PROVE IInv
  OBVIOUS
<1>1. Slots
  <2>1. ASSUME NEW h \in Hosts PROVE Counted(h) = {} /\ Granted(h) = {}
    <3>1. \A m \in Meetings : job[m].host = NoHost
      BY WaitingTyped DEF Init
    <3>. QED BY <3>1, PoolAssumption DEF Counted, Granted
  <2>. QED BY <2>1, FS_EmptySet, PoolAssumption DEF Slots, Slot
<1>2. Keys
  BY LivesTyped DEF Init, Keys, Expires, NoKey
<1>3. Heard
  BY DEF Init, Heard
<1>. QED BY <1>1, <1>2, <1>3, InitTyped DEF IInv

LEMMA Invariance == Spec => []IInv
<1>1. IInv /\ [Next]_vars => IInv'
  BY NextTyped, SlotsKept, KeysKept, HeardKept DEF IInv
<1>. QED BY <1>1, InitHolds, PTL DEF Spec

\* Every counter, heartbeat and session list has a value of its type; in particular a
\* recorder admits no more meetings than MAX_CONCURRENT_MEETINGS, so that the free
\* slots it reports are never negative.
THEOREM TypeCorrect == Spec => []TypeOK
<1>1. IInv => TypeOK
  BY DEF IInv, Typed
<1>. QED BY <1>1, Invariance, PTL

\* Of the meetings granted a slot of a recorder, no more have a reservation that
\* still counts than it has slots, and each of those is in the counter
\* (bot_registry.py:417-423).
THEOREM SlotsGrantedOnce == Spec => []NoSlotTwice
<1>1. IInv => NoSlotTwice
  BY SlotsMean DEF IInv
<1>. QED BY <1>1, Invariance, PTL

\* A counter has an expiry, unless a job is between the command that made it and the
\* one that sees to its end, or a worker died or Redis failed there; or, with no
\* failure, it ran out before the DECR of a dispatch that found the recorder full and
\* is below zero (bot_registry.py:417-418, 493-496).
THEOREM ReservationsExpire == Spec => []KeysExpire
<1>1. IInv => KeysExpire
  BY KeysMean DEF IInv
<1>. QED BY <1>1, Invariance, PTL

\* No dispatch considers a recorder that has been stopped for longer than the
\* heartbeat TTL (bot_registry.py:381-388).
THEOREM DeadHostsSkipped == Spec => DeadHostSkipped
<1>1. IInv /\ [Next]_vars =>
        [\A m \in Meetings : \A s \in job'[m].seen \ job[m].seen : up[s.host] \/ silent[s.host] <= TTL]_vars
  BY DeadAreSkipped DEF IInv
<1>. QED BY <1>1, Invariance, PTL DEF Spec, DeadHostSkipped
=============================================================================
