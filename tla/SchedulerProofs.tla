-------------------------- MODULE SchedulerProofs --------------------------
(***************************************************************************)
(* The scheduler for any number of replicas, meetings, events and edits:   *)
(* types, the exclusive claim, one request for a bot, stops that hold, one *)
(* live row per event, claims with work behind them, and bots asked for in *)
(* time.  AskedOnce is not inductive: a row that is still, or again,       *)
(* "scheduled" must have no bot asked for, and no sweep holding it, which  *)
(* rests on the claim being one UPDATE that tests the status it overwrites.*)
(***************************************************************************)
EXTENDS Scheduler, FiniteSetTheorems, TLAPS

OWNING == {"claimed", "verified", "failing", "moved", "changed", "joining"}
UNCLAIMED == {"none", "scheduled"}

\* What is listed by time was booked, and so has an event to look up.
TimedIsBooked == \A m \in Meetings : row[m].at # NoTime => row[m].event \in Events

RequestsFetched ==
    \A q \in Requests : request[q].pc \in {"fetched", "checked"} => request[q].event \in Events

ListedIsBooked ==
    \A r \in Replicas :
      /\ \A d \in sweep[r].due : row[d.m].event \in Events
      /\ sweep[r].pc \notin {"asleep", "loop"} =>
           sweep[r].m \in Meetings /\ row[sweep[r].m].event \in Events

ClaimTaken ==
    \A r \in Replicas, m \in Meetings :
      Owns(r, m) => /\ row[m].status \notin UNCLAIMED
                    /\ sweep[r].pc # "failing" => asked[m] = 0

UnclaimedUnasked == \A m \in Meetings : row[m].status \in UNCLAIMED => asked[m] = 0

Safe ==
    /\ TimedIsBooked
    /\ ListedIsBooked
    /\ OneOwner
    /\ ClaimTaken
    /\ UnclaimedUnasked
    /\ AskedOnce

IInv == TypeOK /\ RequestsFetched /\ Safe

-----------------------------------------------------------------------------
(* What a step may do.                                                     *)

\* To a row: it keeps the event of a booking, and does not undo a claim.
Tame(old, new) ==
    /\ new \in Row
    /\ old.event \in Events => new.event \in Events
    /\ old.at # NoTime => old.event \in Events
    /\ new.at # NoTime => new.event \in Events
    /\ new.status \in UNCLAIMED => old.status \in UNCLAIMED

\* A step outside the sweeps.
LEMMA RowsOnly ==
    ASSUME IInv, UNCHANGED <<sweep, asked>>, \A m \in Meetings : Tame(row[m], row'[m])
    PROVE  Safe'
<1>1. TimedIsBooked' /\ UnclaimedUnasked' /\ AskedOnce'
  BY DEF IInv, Safe, TimedIsBooked, UnclaimedUnasked, AskedOnce, Tame
<1>2. ListedIsBooked'
  BY DEF IInv, Safe, ListedIsBooked, Tame, TypeOK, Sweep
<1>3. OneOwner' /\ ClaimTaken'
  BY DEF IInv, Safe, OneOwner, ClaimTaken, Owns, Tame
<1>. QED BY <1>1, <1>2, <1>3 DEF Safe

\* What a step of replica r, after which its sweep is s, may do to a meeting and to
\* the requests for its bot; and when it may have a meeting in its hands after it.
Effect(r, s, m) ==
    /\ row[m].event \in Events => row'[m].event \in Events
    /\ row'[m].at # NoTime => row'[m].event \in Events
    /\ row'[m].status \in UNCLAIMED =>
         \/ row[m].status \in UNCLAIMED /\ asked'[m] = asked[m]
         \/ asked'[m] = 0 /\ Owns(r, m) /\ s.m # m
    /\ \/ asked'[m] = asked[m]
       \/ asked'[m] = 0
       \/ /\ Owns(r, m) /\ sweep[r].pc # "failing" /\ asked'[m] = asked[m] + 1
          /\ s.m = m => s.pc = "failing"
          /\ row'[m].status = row[m].status

Taken(r, s) ==
    s.pc \in OWNING =>
      /\ \/ Owns(r, s.m) /\ (sweep[r].pc = "failing" => s.pc = "failing")
         \/ row[s.m].status = "scheduled" /\ asked'[s.m] = asked[s.m]
      /\ row'[s.m].status \notin UNCLAIMED

\* A step of replica r, after which its sweep is s: it takes a meeting only from
\* the schedule, gives one back only when it held it, and asks only for that.
LEMMA SweepMoves ==
    ASSUME IInv, NEW r \in Replicas, NEW s \in Sweep,
           sweep' = [sweep EXCEPT ![r] = s],
           \A m \in Meetings : Effect(r, s, m),
           \A d \in s.due : row'[d.m].event \in Events,
           s.pc \notin {"asleep", "loop"} => s.m \in Meetings /\ row'[s.m].event \in Events,
           Taken(r, s)
    PROVE  Safe'
<1>1. TimedIsBooked'
  BY DEF TimedIsBooked, Effect
<1>2. ListedIsBooked'
  <2>1. \A p \in Replicas : sweep'[p] = IF p = r THEN s ELSE sweep[p]
    BY DEF IInv, TypeOK
  <2>2. \A p \in Replicas : \A d \in sweep[p].due : d.m \in Meetings
    BY DEF IInv, TypeOK, Sweep
  <2>. QED BY <2>1, <2>2 DEF ListedIsBooked, IInv, Safe, Effect
<1>3. \A p \in Replicas : sweep'[p] = IF p = r THEN s ELSE sweep[p]
  BY DEF IInv, TypeOK
<1>4. OneOwner'
  <2>1. ASSUME NEW m \in Meetings, NEW p \in Replicas, Owns(p, m)', p # r
        PROVE  ~Owns(r, m)'
    BY <1>3, <2>1 DEF IInv, Safe, OneOwner, ClaimTaken, Owns, OWNING, UNCLAIMED, Effect, Taken
  <2>2. ASSUME NEW m \in Meetings, NEW p \in Replicas, NEW q \in Replicas,
               Owns(p, m)', Owns(q, m)', p # r, q # r
        PROVE  p = q
    BY <1>3, <2>2 DEF IInv, Safe, OneOwner, Owns
  <2>. QED BY <2>1, <2>2 DEF OneOwner
<1>5. ClaimTaken'
  <2>1. ASSUME NEW m \in Meetings, Owns(r, m)'
        PROVE  row'[m].status \notin UNCLAIMED /\ (sweep'[r].pc # "failing" => asked'[m] = 0)
    BY <1>3, <2>1 DEF IInv, Safe, ClaimTaken, UnclaimedUnasked, Owns, OWNING, UNCLAIMED, Effect, Taken
  <2>2. ASSUME NEW m \in Meetings, NEW p \in Replicas, Owns(p, m)', p # r
        PROVE  row'[m].status \notin UNCLAIMED /\ (sweep'[p].pc # "failing" => asked'[m] = 0)
    <3>1. Owns(p, m) /\ sweep'[p] = sweep[p] /\ ~Owns(r, m)
      BY <1>3, <2>2 DEF IInv, Safe, OneOwner, Owns
    <3>. QED BY <3>1 DEF IInv, Safe, ClaimTaken, Effect
  <2>. QED BY <2>1, <2>2 DEF ClaimTaken
<1>6. UnclaimedUnasked'
  BY DEF IInv, Safe, UnclaimedUnasked, Effect
<1>7. AskedOnce'
  BY DEF IInv, Safe, AskedOnce, ClaimTaken, TypeOK, Effect
<1>. QED BY <1>1, <1>2, <1>4, <1>5, <1>6, <1>7 DEF Safe

\* A sweep that goes on holds nothing: its next step is the next of its list.
LEMMA Continues ==
    ASSUME TypeOK, NEW r \in Replicas
    PROVE  /\ Continue(sweep[r]) \in Sweep /\ Asleep \in Sweep
           /\ Continue(sweep[r]).pc \in {"asleep", "loop"} /\ Asleep.pc = "asleep"
           /\ Continue(sweep[r]).m = NoMeeting /\ Asleep.m = NoMeeting
           /\ Continue(sweep[r]).due \subseteq sweep[r].due /\ Asleep.due = {}
<1>1. sweep[r] \in Sweep
  BY DEF TypeOK
<1>2. Gone \in Event
  BY DEF Event
<1>3. Asleep \in Sweep /\ Asleep.pc = "asleep" /\ Asleep.m = NoMeeting /\ Asleep.due = {}
  BY <1>2, SchedulerAssumption DEF Asleep, Sweep
<1>4. CASE sweep[r].due = {}
  BY <1>3, <1>4 DEF Continue
<1>5. CASE sweep[r].due # {}
  <2>1. Continue(sweep[r]) = [Asleep EXCEPT !.pc = "loop", !.now = sweep[r].now, !.due = sweep[r].due]
    BY <1>5 DEF Continue
  <2>2. /\ Continue(sweep[r]) \in Sweep
        /\ Continue(sweep[r]).pc = "loop"
        /\ Continue(sweep[r]).m = Asleep.m
        /\ Continue(sweep[r]).due = sweep[r].due
    BY <1>1, <1>3, <2>1 DEF Sweep
  <2>. QED BY <1>3, <2>2
<1>. QED BY <1>3, <1>4, <1>5

-----------------------------------------------------------------------------
(* The calendar, bookings, and what others do to a meeting.                *)

LEMMA OutsideKeeps ==
    ASSUME IInv, Tick \/ ChangeConnection \/ (\E e \in Events : EditEvent(e))
    PROVE  IInv'
<1>1. UNCHANGED outside
  BY DEF Tick, ChangeConnection, EditEvent
<1>2. TypeOK'
  <2>1. CASE Tick
    BY <2>1, SchedulerAssumption DEF Tick, IInv, TypeOK, outside
  <2>2. CASE ChangeConnection
    BY <2>2, SchedulerAssumption DEF ChangeConnection, IInv, TypeOK, outside
  <2>3. ASSUME NEW e \in Events, EditEvent(e) PROVE TypeOK'
    BY <2>3, SchedulerAssumption DEF EditEvent, IInv, TypeOK, outside
  <2>. QED BY <2>1, <2>2, <2>3
<1>3. RequestsFetched'
  BY <1>1 DEF IInv, RequestsFetched, outside
<1>4. \A m \in Meetings : Tame(row[m], row'[m])
  BY <1>1 DEF IInv, Safe, TypeOK, TimedIsBooked, Tame, outside
<1>. QED BY <1>1, <1>2, <1>3, <1>4, RowsOnly DEF IInv, outside

LEMMA EventFields ==
    /\ Gone \in Event
    /\ \A e \in Event : e.start \in Starts \cup {NoTime} /\ e.link \in Links \cup {NoLink}
BY DEF Event, Gone, AllDay, Timed

\* An event that can be booked is one of the owner's.
LEMMA FetchKeeps ==
    ASSUME IInv, NEW q \in Requests, FetchEvent(q) \/ CheckExisting(q)
    PROVE  IInv'
<1>1. PICK v : request' = [request EXCEPT ![q] = v] /\ v \in Request
               /\ (v.pc \in {"fetched", "checked"} => v.event \in Events)
  <2>1. Served \in Request /\ Served.pc = "done"
    BY EventFields DEF Served, NewRequest, Request
  <2>2. request[q] \in Request
    BY DEF IInv, TypeOK
  <2>3. CASE FetchEvent(q)
    <3>1. ASSUME NEW e \in Events,
                 request' = [request EXCEPT ![q] = [pc |-> "fetched", event |-> e, got |-> event[e]]]
          PROVE  [pc |-> "fetched", event |-> e, got |-> event[e]] \in Request
      BY DEF IInv, TypeOK, Request
    <3>. QED BY <2>1, <2>3, <3>1 DEF FetchEvent
  <2>4. CASE CheckExisting(q)
    <3>. DEFINE w == [request[q] EXCEPT !.pc = "checked"]
    <3>1. w \in Request /\ w.event = request[q].event
      BY <2>2 DEF Request
    <3>2. request[q].pc = "fetched" /\ request[q].event \in Events
      BY <2>4 DEF CheckExisting, IInv, RequestsFetched
    <3>3. request' = [request EXCEPT ![q] = w] \/ request' = [request EXCEPT ![q] = Served]
      BY <2>4 DEF CheckExisting
    <3>. HIDE DEF w
    <3>. QED BY <2>1, <3>1, <3>2, <3>3
  <2>. QED BY <2>3, <2>4
<1>2. UNCHANGED <<row, asked, booking>>
  BY DEF FetchEvent, CheckExisting
<1>3. TypeOK'
  BY <1>1, <1>2 DEF IInv, TypeOK, booking
<1>4. RequestsFetched'
  BY <1>1 DEF IInv, TypeOK, RequestsFetched
<1>5. \A m \in Meetings : Tame(row[m], row'[m])
  BY <1>2 DEF IInv, Safe, TypeOK, TimedIsBooked, Tame
<1>. QED BY <1>2, <1>3, <1>4, <1>5, RowsOnly DEF IInv, booking

LEMMA BookingKeeps ==
    ASSUME IInv, NEW q \in Requests, InsertBooking(q)
    PROVE  IInv'
<1>1. /\ request[q] \in Request /\ request[q].pc = "checked" /\ request[q].event \in Events
      /\ request' = [request EXCEPT ![q] = Served]
      /\ UNCHANGED <<asked, booking>>
  BY DEF InsertBooking, IInv, TypeOK, RequestsFetched
<1>2. Served \in Request /\ Served.pc = "done"
  BY EventFields DEF Served, NewRequest, Request
<1>3. Booked(q) \in Row /\ Booked(q).event \in Events /\ Booked(q).status = "scheduled"
  BY <1>1, EventFields DEF Booked, Row, Request
<1>4. row' \in [Meetings -> Row] /\ \A m \in Meetings : Tame(row[m], row'[m])
  <2>1. ASSUME NEW m \in Meetings
        PROVE  Tame(row[m], row[m]) /\ (row[m] = None => Tame(row[m], Booked(q)))
    BY <1>3, SchedulerAssumption DEF IInv, Safe, TypeOK, TimedIsBooked, Tame, None, UNCLAIMED
  <2>2. CASE UNCHANGED row
    BY <2>1, <2>2 DEF IInv, TypeOK
  <2>3. ASSUME NEW m \in Meetings, row[m] = None, row' = [row EXCEPT ![m] = Booked(q)]
        PROVE  row' \in [Meetings -> Row] /\ \A n \in Meetings : Tame(row[n], row'[n])
    BY <1>3, <2>1, <2>3 DEF IInv, TypeOK
  <2>. QED BY <2>2, <2>3 DEF InsertBooking
<1>5. TypeOK'
  BY <1>1, <1>2, <1>4 DEF IInv, TypeOK, booking
<1>6. RequestsFetched'
  BY <1>1, <1>2 DEF IInv, TypeOK, RequestsFetched
<1>. QED BY <1>1, <1>4, <1>5, <1>6, RowsOnly DEF IInv, booking

\* One UPDATE of a status.
LEMMA StatusWritten ==
    ASSUME IInv, NEW m \in Meetings, NEW x \in {"queued", "joining", "failed", "deleted"} \cup {row[m].status},
           row' = [row EXCEPT ![m].status = x]
    PROVE  /\ row' \in [Meetings -> Row]
           /\ \A n \in Meetings : Tame(row[n], row'[n])
           /\ row'[m].status = x /\ row'[m].event = row[m].event /\ row'[m].at = row[m].at
<1>1. \A n \in Meetings : row[n] \in Row /\ (row[n].at # NoTime => row[n].event \in Events)
  BY DEF IInv, Safe, TypeOK, TimedIsBooked
<1>. DEFINE w == [row[m] EXCEPT !.status = x]
<1>2. w \in Row /\ w.status = x /\ w.event = row[m].event /\ w.at = row[m].at
  BY <1>1 DEF Row
<1>3. row' = [row EXCEPT ![m] = w]
  BY Zenon
<1>. HIDE DEF w
<1>4. row' \in [Meetings -> Row] /\ \A n \in Meetings : row'[n] = IF n = m THEN w ELSE row[n]
  BY <1>2, <1>3 DEF IInv, TypeOK
<1>. QED BY <1>1, <1>2, <1>4 DEF Tame, UNCLAIMED

LEMMA OthersKeep ==
    ASSUME IInv, NEW m \in Meetings,
           Dispatch(m) \/ Stop(m) \/ Delete(m) \/ SweepQueued(m) \/ SweepUntimed(m)
    PROVE  IInv'
<1>1. row' \in [Meetings -> Row] /\ \A n \in Meetings : Tame(row[n], row'[n])
  <2>1. UNCHANGED row \/ \E x \in {"queued", "joining", "failed", "deleted"} :
                            row' = [row EXCEPT ![m].status = x]
    BY DEF Dispatch, Stop, Delete, SweepQueued, SweepUntimed
  <2>2. CASE UNCHANGED row
    BY <2>2 DEF IInv, Safe, TypeOK, TimedIsBooked, Tame
  <2>. QED BY <2>1, <2>2, StatusWritten
<1>2. UNCHANGED others
  BY DEF Dispatch, Stop, Delete, SweepQueued, SweepUntimed
<1>3. jobs' \in [Meetings -> Nat]
  BY DEF Dispatch, Stop, Delete, SweepQueued, SweepUntimed, IInv, TypeOK
<1>4. told' \subseteq Meetings
  BY DEF Dispatch, Stop, Delete, SweepQueued, SweepUntimed, IInv, TypeOK
<1>5. TypeOK'
  BY <1>1, <1>2, <1>3, <1>4 DEF IInv, TypeOK, others
<1>6. RequestsFetched'
  BY <1>2 DEF IInv, RequestsFetched, others
<1>. QED BY <1>1, <1>2, <1>5, <1>6, RowsOnly DEF IInv, others

-----------------------------------------------------------------------------
(* trigger_due_meetings.                                                   *)

\* What a step of replica r leaves alone, and the parts of TypeOK it may touch.
LEMMA SweepTypes ==
    ASSUME IInv, NEW r \in Replicas, NEW s \in Sweep,
           sweep' = [sweep EXCEPT ![r] = s],
           UNCHANGED <<clock, event, conn, request, edits>>,
           row' \in [Meetings -> Row], jobs' \in [Meetings -> Nat], asked' \in [Meetings -> Nat],
           stale' \in [Replicas -> SUBSET Meetings], told' \subseteq Meetings,
           dropped' \subseteq Meetings, lost' \in 0..MaxLost, crashes' \in 0..MaxCrashes
    PROVE  TypeOK' /\ RequestsFetched'
<1>1. sweep' \in [Replicas -> Sweep]
  BY DEF IInv, TypeOK
<1>. QED BY <1>1 DEF IInv, TypeOK, RequestsFetched

\* A sweep goes on, or is aborted, with no meeting in its hands.
LEMMA LetsGo ==
    ASSUME IInv, NEW r \in Replicas, GoOn(r) \/ Abort(r),
           \A m \in Meetings : Tame(row[m], row'[m]), row' \in [Meetings -> Row],
           UNCHANGED <<clock, event, conn, request, edits>>,
           jobs' \in [Meetings -> Nat], stale' \in [Replicas -> SUBSET Meetings],
           told' \subseteq Meetings, lost' \in 0..MaxLost, crashes' \in 0..MaxCrashes,
           asked' \in [Meetings -> Nat],
           \A m \in Meetings :
              \/ asked'[m] = asked[m]
              \/ /\ Owns(r, m) /\ sweep[r].pc # "failing" /\ asked'[m] = asked[m] + 1
                 /\ row'[m] = row[m]
    PROVE  IInv'
<1>1. PICK s \in Sweep : /\ sweep' = [sweep EXCEPT ![r] = s]
                          /\ s.pc \in {"asleep", "loop"} /\ s.m = NoMeeting
                          /\ s.due \subseteq sweep[r].due
  BY Continues DEF IInv, GoOn, Becomes, Abort
<1>2. dropped' \subseteq Meetings
  BY DEF GoOn, Becomes, Abort, IInv, TypeOK
<1>3. TypeOK' /\ RequestsFetched'
  BY <1>1, <1>2, SweepTypes
<1>4. \A d \in s.due : row'[d.m].event \in Events
  <2>1. \A d \in s.due : d.m \in Meetings /\ row[d.m].event \in Events
    BY <1>1 DEF IInv, Safe, ListedIsBooked, TypeOK, Sweep
  <2>. QED BY <2>1 DEF Tame
<1>5. ASSUME NEW m \in Meetings, row'[m].status \in UNCLAIMED
      PROVE  row[m].status \in UNCLAIMED /\ asked'[m] = asked[m]
  BY <1>5 DEF Tame, IInv, Safe, ClaimTaken
<1>6. Taken(r, s) /\ ~(s.pc \notin {"asleep", "loop"})
  BY <1>1 DEF OWNING, Taken
<1>7. \A m \in Meetings : Effect(r, s, m)
  BY <1>1, <1>5, SchedulerAssumption DEF Effect, Tame
<1>8. Safe'
  BY <1>1, <1>4, <1>6, <1>7, SweepMoves
<1>. QED BY <1>3, <1>8 DEF IInv

\* Nothing but the sweep, and what is counted of it, changes.
LEMMA NoRowWritten ==
    ASSUME IInv, UNCHANGED row
    PROVE  row' \in [Meetings -> Row] /\ \A m \in Meetings : Tame(row[m], row'[m])
BY DEF IInv, Safe, TypeOK, TimedIsBooked, Tame

\* A step inside the list: s is what the sweep becomes.
LEMMA GoesOn ==
    ASSUME IInv, NEW r \in Replicas, NEW s \in Sweep, Becomes(r, s),
           UNCHANGED <<asked, sweeping>>, lost' \in 0..MaxLost,
           jobs' \in [Meetings -> Nat], stale' \in [Replicas -> SUBSET Meetings],
           row' \in [Meetings -> Row], \A m \in Meetings : Tame(row[m], row'[m]),
           s.due \subseteq sweep[r].due \/ \A d \in s.due : row'[d.m].event \in Events,
           s.pc \notin {"asleep", "loop"} => s.m \in Meetings /\ row[s.m].event \in Events,
           s.pc \in OWNING =>
             /\ \/ Owns(r, s.m) /\ (sweep[r].pc = "failing" => s.pc = "failing")
                \/ row[s.m].status = "scheduled"
             /\ row'[s.m].status \notin UNCLAIMED
    PROVE  IInv'
<1>1. sweep' = [sweep EXCEPT ![r] = s] /\ UNCHANGED dropped
  BY DEF Becomes
<1>2. TypeOK' /\ RequestsFetched'
  BY <1>1, SweepTypes DEF sweeping, IInv, TypeOK
<1>3. \A d \in s.due : row'[d.m].event \in Events
  <2>1. \A d \in sweep[r].due : d.m \in Meetings /\ row[d.m].event \in Events
    BY DEF IInv, Safe, ListedIsBooked, TypeOK, Sweep
  <2>. QED BY <2>1 DEF Tame
<1>4. s.pc \notin {"asleep", "loop"} => s.m \in Meetings /\ row'[s.m].event \in Events
  BY DEF Tame
<1>5. Taken(r, s) /\ \A m \in Meetings : Effect(r, s, m)
  BY DEF Tame, Taken, Effect
<1>6. Safe'
  BY <1>1, <1>3, <1>4, <1>5, SweepMoves
<1>. QED BY <1>2, <1>6 DEF IInv

LEMMA Rebooked ==
    ASSUME IInv, NEW r \in Replicas, sweep[r].pc \notin {"asleep", "loop"}
    PROVE  /\ sweep[r] \in Sweep /\ sweep[r].m \in Meetings
           /\ row[sweep[r].m] \in Row /\ row[sweep[r].m].event \in Events
           /\ sweep[r].pc \in OWNING => Owns(r, sweep[r].m) /\ row[sweep[r].m].status \notin UNCLAIMED
BY DEF IInv, Safe, TypeOK, ListedIsBooked, ClaimTaken, Owns, OWNING

\* The sweep keeps its meeting and its list, and knows a little more.
LEMMA SameMeeting ==
    ASSUME IInv, NEW r \in Replicas, sweep[r].pc \in OWNING, NEW s \in Sweep,
           s.m = sweep[r].m, s.due = sweep[r].due, s.pc \in OWNING,
           sweep[r].pc = "failing" => s.pc = "failing",
           Becomes(r, s), UNCHANGED <<row, asked, sweeping>>, lost' \in 0..MaxLost,
           jobs' \in [Meetings -> Nat], stale' \in [Replicas -> SUBSET Meetings]
    PROVE  IInv'
<1>1. sweep[r].pc \notin {"asleep", "loop"}
  BY DEF OWNING
<1>. QED BY <1>1, Rebooked, NoRowWritten, GoesOn

LEMMA Goes ==
    ASSUME IInv, NEW r \in Replicas, NEW pc \in OWNING
    PROVE  LET s == [sweep[r] EXCEPT !.pc = pc]
           IN  s \in Sweep /\ s.pc = pc /\ s.m = sweep[r].m /\ s.due = sweep[r].due
BY DEF IInv, TypeOK, Sweep, OWNING

LEMMA ListKeeps ==
    ASSUME IInv, NEW r \in Replicas, ListDue(r)
    PROVE  IInv'
<1>. DEFINE s == [Asleep EXCEPT !.pc = "loop", !.now = clock, !.due = Due, !.loaded = TRUE]
<1>1. \A d \in Due : d \in [m: Meetings, at: Starts] /\ row[d.m].event \in Events
  BY DEF Due, IInv, Safe, TypeOK, TimedIsBooked, Row
<1>2. Asleep \in Sweep
  BY Continues DEF IInv
<1>3. s \in Sweep /\ s.pc = "loop" /\ s.due = Due
  BY <1>1, <1>2 DEF Sweep, IInv, TypeOK
<1>4. Becomes(r, s) /\ UNCHANGED <<row, jobs, asked, lost, sweeping>>
  BY DEF ListDue
<1>5. stale' \in [Replicas -> SUBSET Meetings] /\ jobs' \in [Meetings -> Nat] /\ lost' \in 0..MaxLost
  BY <1>4 DEF ListDue, IInv, TypeOK
<1>6. s.pc \notin OWNING /\ \A d \in s.due : row'[d.m].event \in Events
  BY <1>1, <1>3, <1>4 DEF OWNING
<1>. HIDE DEF s
<1>. QED BY <1>3, <1>4, <1>5, <1>6, NoRowWritten, GoesOn

LEMMA ConsiderKeeps ==
    ASSUME IInv, NEW r \in Replicas, Consider(r)
    PROVE  IInv'
<1>1. /\ UNCHANGED <<row, jobs, asked, stale, lost, sweeping>>
      /\ jobs' \in [Meetings -> Nat] /\ stale' \in [Replicas -> SUBSET Meetings]
      /\ lost' \in 0..MaxLost
  BY DEF Consider, IInv, TypeOK
<1>2. PICK d \in sweep[r].due :
        \/ Abort(r)
        \/ \E pc \in {"missed", "due"} :
             Becomes(r, [sweep[r] EXCEPT !.pc = pc, !.m = d.m, !.due = @ \ {d}])
  BY DEF Consider
<1>3. CASE Abort(r)
  <2>1. /\ UNCHANGED <<clock, event, conn, request, edits>>
        /\ told' \subseteq Meetings /\ crashes' \in 0..MaxCrashes
        /\ asked' \in [Meetings -> Nat] /\ asked' = asked
    BY <1>1 DEF sweeping, IInv, TypeOK
  <2>. QED BY <1>1, <1>3, <2>1, NoRowWritten, LetsGo
<1>4. ASSUME NEW pc \in {"missed", "due"},
             Becomes(r, [sweep[r] EXCEPT !.pc = pc, !.m = d.m, !.due = @ \ {d}])
      PROVE  IInv'
  <2>. DEFINE s == [sweep[r] EXCEPT !.pc = pc, !.m = d.m, !.due = @ \ {d}]
  <2>1. sweep[r] \in Sweep /\ d.m \in Meetings /\ row[d.m].event \in Events
    BY DEF IInv, Safe, TypeOK, ListedIsBooked, Sweep
  <2>2. s \in Sweep /\ s.pc = pc /\ s.m = d.m /\ s.due \subseteq sweep[r].due
    BY <2>1 DEF Sweep
  <2>3. s.pc \notin OWNING
    BY <2>2 DEF OWNING
  <2>. HIDE DEF s
  <2>4. Becomes(r, s)
    BY <1>4 DEF s
  <2>. QED BY <1>1, <2>1, <2>2, <2>3, <2>4, NoRowWritten, GoesOn
<1>. QED BY <1>2, <1>3, <1>4

\* What LetsGo and GoesOn ask of the variables that no sweep changes.
LEMMA Untouched ==
    ASSUME IInv, UNCHANGED <<jobs, asked, stale, lost, sweeping>>
    PROVE  /\ jobs' \in [Meetings -> Nat] /\ stale' \in [Replicas -> SUBSET Meetings]
           /\ lost' \in 0..MaxLost /\ asked' \in [Meetings -> Nat] /\ asked' = asked
           /\ UNCHANGED <<clock, event, conn, request, edits>>
           /\ told' \subseteq Meetings /\ crashes' \in 0..MaxCrashes
BY DEF sweeping, IInv, TypeOK

LEMMA MissedKeeps ==
    ASSUME IInv, NEW r \in Replicas, FailMissed(r)
    PROVE  IInv'
<1>. DEFINE m == sweep[r].m
            x == IF row[m].status = "scheduled" THEN "failed" ELSE row[m].status
<1>1. m \in Meetings
  BY Rebooked DEF FailMissed
<1>2. row' = [row EXCEPT ![m].status = x]
  BY DEF FailMissed
<1>3. x \in {"queued", "joining", "failed", "deleted"} \cup {row[m].status}
  OBVIOUS
<1>. HIDE DEF m, x
<1>4. row' \in [Meetings -> Row] /\ \A n \in Meetings : Tame(row[n], row'[n])
  BY <1>1, <1>2, <1>3, StatusWritten
<1>5. GoOn(r) /\ UNCHANGED <<jobs, asked, stale, lost, sweeping>>
  BY DEF FailMissed
<1>. QED BY <1>4, <1>5, Untouched, LetsGo

LEMMA ClaimKeeps ==
    ASSUME IInv, NEW r \in Replicas, ClaimDue(r)
    PROVE  IInv'
<1>. DEFINE m == sweep[r].m
            s == [sweep[r] EXCEPT !.pc = "claimed", !.loaded = TRUE]
<1>1. /\ sweep[r] \in Sweep /\ m \in Meetings /\ row[m].event \in Events
      /\ UNCHANGED <<jobs, asked, stale, lost, sweeping>>
  BY Rebooked DEF ClaimDue
<1>2. CASE row[m].status = "scheduled"
  <2>1. row' = [row EXCEPT ![m].status = "queued"] /\ Becomes(r, s)
    BY <1>2 DEF ClaimDue
  <2>2. s \in Sweep /\ s.pc = "claimed" /\ s.m = m /\ s.due = sweep[r].due
    BY <1>1 DEF Sweep
  <2>. HIDE DEF m, s
  <2>3. /\ row' \in [Meetings -> Row] /\ \A n \in Meetings : Tame(row[n], row'[n])
        /\ row'[m].status = "queued"
    BY <1>1, <2>1, StatusWritten
  <2>4. row'[s.m].status \notin UNCLAIMED
    BY <2>2, <2>3 DEF UNCLAIMED
  <2>. QED BY <1>1, <1>2, <2>1, <2>2, <2>3, <2>4, Untouched, GoesOn
<1>3. CASE row[m].status # "scheduled"
  <2>1. UNCHANGED row /\ GoOn(r)
    BY <1>3 DEF ClaimDue
  <2>. QED BY <1>1, <2>1, NoRowWritten, Untouched, LetsGo
<1>. QED BY <1>2, <1>3

LEMMA TokenKeeps ==
    ASSUME IInv, NEW r \in Replicas, GetToken(r)
    PROVE  IInv'
<1>1. sweep[r].pc = "claimed" /\ UNCHANGED <<row, jobs, asked, stale, lost, sweeping>>
  BY DEF GetToken
<1>2. CASE Abort(r)
  BY <1>1, <1>2, NoRowWritten, Untouched, LetsGo
<1>3. ASSUME NEW pc \in {"failing", "verified"}, Goto(r, pc)
      PROVE  IInv'
  <2>. DEFINE s == [sweep[r] EXCEPT !.pc = pc]
  <2>1. pc \in OWNING /\ sweep[r].pc \in OWNING
    BY <1>1 DEF OWNING
  <2>2. s \in Sweep /\ s.pc = pc /\ s.m = sweep[r].m /\ s.due = sweep[r].due
    BY <2>1, Goes
  <2>3. Becomes(r, s)
    BY <1>3 DEF Goto
  <2>. HIDE DEF s
  <2>. QED BY <1>1, <2>1, <2>2, <2>3, Untouched, SameMeeting
<1>. QED BY <1>2, <1>3 DEF GetToken

LEMMA EventKeeps ==
    ASSUME IInv, NEW r \in Replicas, GetEvent(r)
    PROVE  IInv'
<1>. DEFINE ev == event[row[sweep[r].m].event]
<1>1. /\ sweep[r].pc = "verified" /\ sweep[r].pc \in OWNING
      /\ UNCHANGED <<row, jobs, asked, stale, lost, sweeping>>
  BY DEF GetEvent, OWNING
<1>2. sweep[r] \in Sweep /\ ev \in Event /\ Gone \in Event
  BY <1>1, Rebooked, EventFields DEF IInv, TypeOK
<1>. HIDE DEF ev
<1>3. \E pc \in OWNING, got \in Event : Becomes(r, [sweep[r] EXCEPT !.pc = pc, !.got = got])
  <2>1. CASE Goto(r, "joining") \/ Goto(r, "failing")
    <3>1. ASSUME NEW pc \in OWNING, Goto(r, pc)
          PROVE  Becomes(r, [sweep[r] EXCEPT !.pc = pc, !.got = sweep[r].got]) /\ sweep[r].got \in Event
      <4>1. [sweep[r] EXCEPT !.pc = pc] = [sweep[r] EXCEPT !.pc = pc, !.got = sweep[r].got]
        BY <1>2 DEF Sweep
      <4>. QED BY <1>2, <3>1, <4>1 DEF Goto, Sweep
    <3>. QED BY <2>1, <3>1 DEF OWNING
  <2>2. CASE LET pc == Revalidate(sweep[r], ev)
             IN  Becomes(r, [sweep[r] EXCEPT
                               !.pc = pc, !.got = IF pc \in {"moved", "changed"} THEN ev ELSE Gone])
    <3>1. Revalidate(sweep[r], ev) \in OWNING
      BY DEF Revalidate, OWNING
    <3>. QED BY <1>2, <2>2, <3>1
  <2>. QED BY <2>1, <2>2 DEF GetEvent, ev
<1>4. ASSUME NEW pc \in OWNING, NEW got \in Event,
             Becomes(r, [sweep[r] EXCEPT !.pc = pc, !.got = got])
      PROVE  IInv'
  <2>. DEFINE s == [sweep[r] EXCEPT !.pc = pc, !.got = got]
  <2>1. s \in Sweep /\ s.pc = pc /\ s.m = sweep[r].m /\ s.due = sweep[r].due
    BY <1>2 DEF Sweep, OWNING
  <2>2. Becomes(r, s)
    BY <1>4
  <2>. HIDE DEF s
  <2>. QED BY <1>1, <2>1, <2>2, Untouched, SameMeeting
<1>. QED BY <1>3, <1>4

LEMMA FailKeeps ==
    ASSUME IInv, NEW r \in Replicas, MarkFailed(r)
    PROVE  IInv'
<1>. DEFINE m == sweep[r].m
<1>1. /\ m \in Meetings
      /\ row' = [row EXCEPT ![m].status = "failed"] \/ UNCHANGED row
      /\ GoOn(r) \/ Abort(r)
      /\ UNCHANGED <<jobs, asked, stale, lost, sweeping>>
  BY Rebooked DEF MarkFailed
<1>. HIDE DEF m
<1>2. row' \in [Meetings -> Row] /\ \A n \in Meetings : Tame(row[n], row'[n])
  BY <1>1, StatusWritten, NoRowWritten
<1>. QED BY <1>1, <1>2, Untouched, LetsGo

\* The one step that writes "scheduled": by the sweep that holds the meeting, which
\* lets it go, and with no bot asked for.
LEMMA GiveBackKeeps ==
    ASSUME IInv, NEW r \in Replicas, GiveBack(r)
    PROVE  IInv'
<1>. DEFINE m == sweep[r].m
<1>1. /\ sweep[r] \in Sweep /\ m \in Meetings /\ row[m] \in Row /\ row[m].event \in Events
      /\ Owns(r, m) /\ sweep[r].pc = "moved"
      /\ UNCHANGED <<clock, event, conn, request, jobs, edits, lost, crashes>>
  BY Rebooked DEF GiveBack, OWNING
<1>2. CASE ~Exists(m)
  <2>1. UNCHANGED <<row, jobs, asked, stale, lost, sweeping>> /\ Abort(r)
    BY <1>1, <1>2 DEF GiveBack, sweeping
  <2>. QED BY <2>1, NoRowWritten, Untouched, LetsGo
<1>3. CASE Exists(m)
  <2>. DEFINE w == [row[m] EXCEPT !.at = sweep[r].got.start, !.status = "scheduled"]
  <2>1. w \in Row /\ w.event = row[m].event
    BY <1>1, EventFields DEF Row, Sweep
  <2>2. row' = [row EXCEPT ![m] = w]
    <3>1. row' = [row EXCEPT ![m].at = sweep[r].got.start, ![m].status = "scheduled"]
      BY <1>3 DEF GiveBack
    <3>2. row \in [Meetings -> Row]
      BY DEF IInv, TypeOK
    <3>. QED BY <1>1, <3>1, <3>2
  <2>3. GoOn(r) /\ asked' = [asked EXCEPT ![m] = 0] /\ told' = told \ {m}
    BY <1>3 DEF GiveBack
  <2>4. stale' \in [Replicas -> SUBSET Meetings]
    <3>1. stale' = [p \in Replicas |->
                      IF sweep[p].m = m \/ \E d \in sweep[p].due : d.m = m
                      THEN stale[p] \cup {m} ELSE stale[p]]
      BY <1>3 DEF GiveBack
    <3>. QED BY <1>1, <3>1 DEF IInv, TypeOK
  <2>. HIDE DEF w, m
  <2>5. row' \in [Meetings -> Row] /\ \A n \in Meetings : row'[n] = IF n = m THEN w ELSE row[n]
    BY <2>1, <2>2 DEF IInv, TypeOK
  <2>6. asked' \in [Meetings -> Nat] /\ \A n \in Meetings : asked'[n] = IF n = m THEN 0 ELSE asked[n]
    BY <2>3 DEF IInv, TypeOK
  <2>7. PICK s \in Sweep : /\ sweep' = [sweep EXCEPT ![r] = s]
                           /\ s.pc \in {"asleep", "loop"} /\ s.m = NoMeeting
                           /\ s.due \subseteq sweep[r].due
    BY <2>3, Continues DEF IInv, GoOn, Becomes
  <2>8. TypeOK' /\ RequestsFetched'
    <3>1. told' \subseteq Meetings /\ dropped' \subseteq Meetings
      BY <2>3 DEF IInv, TypeOK, GoOn, Becomes
    <3>2. jobs' \in [Meetings -> Nat] /\ lost' \in 0..MaxLost /\ crashes' \in 0..MaxCrashes
      BY <1>1 DEF IInv, TypeOK
    <3>. QED BY <1>1, <2>4, <2>5, <2>6, <2>7, <3>1, <3>2, SweepTypes
  <2>9. \A n \in Meetings : Effect(r, s, n)
    <3>1. ASSUME NEW n \in Meetings
          PROVE  row[n].at # NoTime => row[n].event \in Events
      BY DEF IInv, Safe, TimedIsBooked
    <3>2. s.m # m
      BY <1>1, <2>7, SchedulerAssumption
    <3>. QED BY <1>1, <2>1, <2>5, <2>6, <2>7, <3>1, <3>2 DEF Effect
  <2>10. \A d \in s.due : row'[d.m].event \in Events
    <3>1. \A d \in sweep[r].due : d.m \in Meetings /\ row[d.m].event \in Events
      BY DEF IInv, Safe, ListedIsBooked, TypeOK, Sweep
    <3>. QED BY <2>1, <2>5, <2>7, <3>1
  <2>11. Taken(r, s) /\ ~(s.pc \notin {"asleep", "loop"})
    BY <2>7 DEF OWNING, Taken
  <2>12. Safe'
    BY <2>7, <2>9, <2>10, <2>11, SweepMoves
  <2>. QED BY <2>8, <2>12 DEF IInv
<1>. QED BY <1>2, <1>3

LEMMA DetailsKeep ==
    ASSUME IInv, NEW r \in Replicas, UpdateDetails(r)
    PROVE  IInv'
<1>. DEFINE m == sweep[r].m
            got == sweep[r].got
            s == [sweep[r] EXCEPT !.pc = "joining", !.got = Gone, !.loaded = FALSE]
            l == IF got.link = NoLink THEN row[m].link ELSE got.link
            w == [row[m] EXCEPT !.at = got.start, !.link = l]
<1>1. /\ sweep[r] \in Sweep /\ m \in Meetings /\ row[m] \in Row /\ row[m].event \in Events
      /\ Owns(r, m) /\ sweep[r].pc = "changed" /\ row[m].status \notin UNCLAIMED
      /\ UNCHANGED <<jobs, asked, stale, lost, sweeping>>
  BY Rebooked DEF UpdateDetails, OWNING
<1>2. CASE ~Exists(m)
  <2>1. UNCHANGED row /\ Abort(r)
    BY <1>2 DEF UpdateDetails
  <2>. QED BY <1>1, <2>1, NoRowWritten, Untouched, LetsGo
<1>3. CASE Exists(m)
  <2>1. w \in Row /\ w.event = row[m].event /\ w.status = row[m].status
    BY <1>1, EventFields DEF Row, Sweep
  <2>2. row' = [row EXCEPT ![m] = w] /\ Becomes(r, s)
    <3>1. row' = [row EXCEPT ![m].at = got.start, ![m].link = l] /\ Becomes(r, s)
      BY <1>3 DEF UpdateDetails
    <3>2. row \in [Meetings -> Row]
      BY DEF IInv, TypeOK
    <3>. HIDE DEF l, s, got
    <3>. QED BY <1>1, <3>1, <3>2
  <2>3. s \in Sweep /\ s.pc = "joining" /\ s.m = m /\ s.due = sweep[r].due
    BY <1>1, EventFields DEF Sweep
  <2>. HIDE DEF s, w, l, got, m
  <2>4. row' \in [Meetings -> Row] /\ \A n \in Meetings : row'[n] = IF n = m THEN w ELSE row[n]
    BY <2>1, <2>2 DEF IInv, TypeOK
  <2>5. \A n \in Meetings : row[n].at # NoTime => row[n].event \in Events
    BY DEF IInv, Safe, TimedIsBooked
  <2>6. \A n \in Meetings : Tame(row[n], row'[n])
    BY <1>1, <2>1, <2>4, <2>5 DEF Tame
  <2>7. row'[s.m].status \notin UNCLAIMED
    BY <1>1, <2>1, <2>3, <2>4
  <2>. QED BY <1>1, <2>2, <2>3, <2>4, <2>6, <2>7, Untouched, GoesOn
<1>. QED BY <1>2, <1>3

\* A bot is asked for by the sweep that holds the meeting, which then lets it go, or
\* marks it failed, believing that the request did not arrive.
LEMMA JoinKeeps ==
    ASSUME IInv, NEW r \in Replicas, TriggerJoin(r)
    PROVE  IInv'
<1>. DEFINE m == sweep[r].m
            s == [sweep[r] EXCEPT !.pc = "failing"]
<1>1. /\ sweep[r] \in Sweep /\ m \in Meetings /\ row[m].event \in Events
      /\ Owns(r, m) /\ sweep[r].pc = "joining" /\ row[m].status \notin UNCLAIMED
      /\ UNCHANGED <<row, stale, sweeping>>
  BY Rebooked DEF TriggerJoin, OWNING
<1>2. \/ Abort(r) /\ UNCHANGED <<jobs, asked, lost>>
      \/ Ask(m) /\ GoOn(r) /\ UNCHANGED lost
      \/ Goto(r, "failing") /\ UNCHANGED <<jobs, asked, lost>>
      \/ lost' \in 0..MaxLost /\ Ask(m) /\ Goto(r, "failing")
  <2>1. lost \in 0..MaxLost /\ MaxLost \in Nat
    BY SchedulerAssumption DEF IInv, TypeOK
  <2>2. lost < MaxLost /\ lost' = lost + 1 => lost' \in 0..MaxLost
    BY <2>1
  <2>. QED BY <2>2 DEF TriggerJoin
<1>3. s \in Sweep /\ s.pc = "failing" /\ s.m = m /\ s.due = sweep[r].due
  BY <1>1 DEF Sweep
<1>4. Goto(r, "failing") => Becomes(r, s)
  BY DEF Goto
<1>5. /\ UNCHANGED <<clock, event, conn, request, edits>>
      /\ stale' \in [Replicas -> SUBSET Meetings] /\ told' \subseteq Meetings
      /\ crashes' \in 0..MaxCrashes
  BY <1>1 DEF sweeping, IInv, TypeOK
<1>6. s.pc \in OWNING /\ sweep[r].pc \in OWNING
  BY <1>1, <1>3 DEF OWNING
<1>7. row' \in [Meetings -> Row] /\ \A n \in Meetings : Tame(row[n], row'[n])
  BY <1>1, NoRowWritten
<1>. HIDE DEF m, s
<1>8. ASSUME Ask(m)
      PROVE  /\ jobs' \in [Meetings -> Nat] /\ asked' \in [Meetings -> Nat]
             /\ \A n \in Meetings : asked'[n] = IF n = m THEN asked[n] + 1 ELSE asked[n]
  <2>1. jobs \in [Meetings -> Nat] /\ asked \in [Meetings -> Nat]
    BY DEF IInv, TypeOK
  <2>2. jobs' = [jobs EXCEPT ![m] = @ + 1] /\ asked' = [asked EXCEPT ![m] = @ + 1]
    BY <1>8 DEF Ask
  <2>. QED BY <1>1, <2>1, <2>2
<1>9. CASE Abort(r) /\ UNCHANGED <<jobs, asked, lost>>
  BY <1>1, <1>7, <1>9, Untouched, LetsGo
<1>10. CASE Goto(r, "failing") /\ UNCHANGED <<jobs, asked, lost>>
  BY <1>1, <1>3, <1>4, <1>6, <1>10, Untouched, SameMeeting DEF m
<1>11. CASE Ask(m) /\ GoOn(r) /\ UNCHANGED lost
  <2>1. lost' \in 0..MaxLost
    BY <1>11 DEF IInv, TypeOK
  <2>2. ASSUME NEW n \in Meetings
        PROVE  \/ asked'[n] = asked[n]
               \/ /\ Owns(r, n) /\ sweep[r].pc # "failing" /\ asked'[n] = asked[n] + 1
                  /\ row'[n] = row[n]
    BY <1>1, <1>8, <1>11
  <2>. QED BY <1>5, <1>7, <1>8, <1>11, <2>1, <2>2, LetsGo
<1>12. CASE lost' \in 0..MaxLost /\ Ask(m) /\ Goto(r, "failing")
  <2>1. sweep' = [sweep EXCEPT ![r] = s] /\ UNCHANGED dropped
    BY <1>4, <1>12 DEF Becomes
  <2>2. TypeOK' /\ RequestsFetched'
    BY <1>3, <1>5, <1>7, <1>8, <1>12, <2>1, SweepTypes DEF IInv, TypeOK
  <2>3. \A n \in Meetings : Effect(r, s, n)
    <3>1. \A n \in Meetings : row[n].at # NoTime => row[n].event \in Events
      BY DEF IInv, Safe, TimedIsBooked
    <3>. QED BY <1>1, <1>3, <1>8, <1>12, <3>1 DEF Effect
  <2>4. Taken(r, s)
    BY <1>1, <1>3 DEF Taken
  <2>5. \A d \in s.due : row'[d.m].event \in Events
    BY <1>1, <1>3 DEF IInv, Safe, ListedIsBooked
  <2>6. s.m \in Meetings /\ row'[s.m].event \in Events
    BY <1>1, <1>3
  <2>7. Safe'
    BY <1>3, <2>1, <2>3, <2>4, <2>5, <2>6, SweepMoves
  <2>. QED BY <2>2, <2>7 DEF IInv
<1>. QED BY <1>2, <1>9, <1>10, <1>11, <1>12

LEMMA CrashKeeps ==
    ASSUME IInv, NEW r \in Replicas, Crash(r)
    PROVE  IInv'
<1>1. Abort(r) /\ UNCHANGED <<clock, row, event, conn, request, jobs, asked, stale, told, edits, lost>>
  BY DEF Crash
<1>2. crashes' \in 0..MaxCrashes
  BY SchedulerAssumption DEF Crash, IInv, TypeOK
<1>3. /\ jobs' \in [Meetings -> Nat] /\ stale' \in [Replicas -> SUBSET Meetings]
      /\ lost' \in 0..MaxLost /\ asked' \in [Meetings -> Nat] /\ told' \subseteq Meetings
  BY <1>1 DEF IInv, TypeOK
<1>. QED BY <1>1, <1>2, <1>3, NoRowWritten, LetsGo

-----------------------------------------------------------------------------

LEMMA InitHolds == Init => IInv
<1>. SUFFICES ASSUME Init PROVE IInv
  OBVIOUS
<1>1. /\ None \in Row /\ None.status = "none" /\ None.at = NoTime
      /\ Leftover \in Row /\ Leftover.status = "scheduled" /\ Leftover.at = NoTime
  BY DEF None, Leftover, Row
<1>2. Asleep \in Sweep /\ Asleep.pc = "asleep" /\ Asleep.due = {} /\ Asleep.m = NoMeeting
  BY EventFields, SchedulerAssumption DEF Asleep, Sweep
<1>3. NewRequest \in Request /\ NewRequest.pc = "new"
  BY EventFields DEF NewRequest, Request
<1>4. {Timed(t, l): t \in Starts, l \in Links} \subseteq Event
  BY DEF Event
<1>5. \A m \in Meetings : row[m] = None \/ row[m] = Leftover
  BY DEF Init
<1>6. TypeOK
  <2>1. row \in [Meetings -> Row]
    BY <1>1, <1>5 DEF Init
  <2>2. event \in [Events -> Event]
    BY <1>4 DEF Init
  <2>. QED BY <1>2, <1>3, <2>1, <2>2, SchedulerAssumption DEF Init, TypeOK
<1>7. RequestsFetched
  BY <1>3 DEF Init, RequestsFetched
<1>8. TimedIsBooked /\ UnclaimedUnasked /\ AskedOnce
  BY <1>1, <1>5 DEF Init, TimedIsBooked, UnclaimedUnasked, AskedOnce
<1>9. ListedIsBooked /\ OneOwner /\ ClaimTaken
  BY <1>2 DEF Init, ListedIsBooked, OneOwner, ClaimTaken, Owns
<1>. QED BY <1>6, <1>7, <1>8, <1>9 DEF IInv, Safe

LEMMA NextKeeps == IInv /\ [Next]_vars => IInv'
<1>. SUFFICES ASSUME IInv, [Next]_vars PROVE IInv'
  OBVIOUS
<1>1. CASE Tick \/ ChangeConnection \/ \E e \in Events : EditEvent(e)
  BY <1>1, OutsideKeeps
<1>2. ASSUME NEW q \in Requests, FetchEvent(q) \/ CheckExisting(q) \/ InsertBooking(q)
      PROVE  IInv'
  BY <1>2, FetchKeeps, BookingKeeps
<1>3. ASSUME NEW r \in Replicas, SweepStep(r)
      PROVE  IInv'
  BY <1>3, ListKeeps, ConsiderKeeps, MissedKeeps, ClaimKeeps, TokenKeeps, EventKeeps, FailKeeps,
     GiveBackKeeps, DetailsKeep, JoinKeeps DEF SweepStep
<1>4. ASSUME NEW r \in Replicas, Crash(r)
      PROVE  IInv'
  BY <1>4, CrashKeeps
<1>5. ASSUME NEW m \in Meetings,
             Dispatch(m) \/ Stop(m) \/ Delete(m) \/ SweepQueued(m) \/ SweepUntimed(m)
      PROVE  IInv'
  BY <1>5, OthersKeep
<1>6. CASE UNCHANGED vars
  <2>1. TypeOK' /\ RequestsFetched'
    BY <1>6 DEF vars, IInv, TypeOK, RequestsFetched
  <2>2. UNCHANGED <<row, sweep, asked>>
    BY <1>6 DEF vars
  <2>. QED BY <2>1, <2>2, NoRowWritten, RowsOnly DEF IInv
<1>. QED BY <1>1, <1>2, <1>3, <1>4, <1>5, <1>6 DEF Next

-----------------------------------------------------------------------------
(* A stop that was told holds, and an event has one live row.              *)

Stopped == {"failed", "deleted"}

\* No step but a give-back writes over a status that is over.
LEMMA StopKept == IInv /\ IInv' /\ StopHolds /\ [Next]_vars => StopHolds'
<1>. SUFFICES ASSUME IInv, IInv', StopHolds, [Next]_vars, NEW m \in told'
              PROVE  row'[m].status \in Stopped
  BY DEF StopHolds, Stopped
<1>1. /\ m \in Meetings /\ row[m] \in Row
      /\ row \in [Meetings -> Row] /\ (m \in told => row[m].status \in Stopped)
  BY DEF IInv, TypeOK, StopHolds, Stopped
<1>. USE DEF Stopped
<1>2. CASE Tick \/ ChangeConnection \/ \E e \in Events : EditEvent(e)
  BY <1>1, <1>2 DEF Tick, ChangeConnection, EditEvent, outside
<1>3. ASSUME NEW q \in Requests, FetchEvent(q) \/ CheckExisting(q)
      PROVE  row'[m].status \in Stopped
  BY <1>1, <1>3 DEF FetchEvent, CheckExisting, booking
<1>4. ASSUME NEW q \in Requests, InsertBooking(q)
      PROVE  row'[m].status \in Stopped
  <2>1. m \in told /\ row[m] # None
    BY <1>1, <1>4 DEF InsertBooking, booking, None
  <2>. QED BY <1>1, <1>4, <2>1 DEF InsertBooking
<1>5. ASSUME NEW r \in Replicas, SweepStep(r)
      PROVE  row'[m].status \in Stopped
  <2>. DEFINE n == sweep[r].m
  <2>1. CASE ListDue(r) \/ Consider(r) \/ GetToken(r) \/ GetEvent(r) \/ TriggerJoin(r)
    BY <1>1, <2>1 DEF ListDue, Consider, GetToken, GetEvent, TriggerJoin, sweeping
  <2>2. CASE FailMissed(r) \/ ClaimDue(r) \/ MarkFailed(r)
    <3>1. CASE FailMissed(r)
      BY <1>1, <3>1, Rebooked DEF FailMissed, sweeping, Row
    <3>2. CASE ClaimDue(r)
      BY <1>1, <3>2, Rebooked DEF ClaimDue, sweeping, Row
    <3>3. CASE MarkFailed(r)
      BY <1>1, <3>3, Rebooked DEF MarkFailed, sweeping, Row
    <3>. QED BY <2>2, <3>1, <3>2, <3>3
  <2>3. CASE GiveBack(r)
    BY <1>1, <2>3, Rebooked DEF GiveBack
  <2>4. CASE UpdateDetails(r)
    BY <1>1, <2>4, Rebooked DEF UpdateDetails, sweeping, Row
  <2>. QED BY <1>5, <2>1, <2>2, <2>3, <2>4 DEF SweepStep
<1>6. ASSUME NEW r \in Replicas, Crash(r)
      PROVE  row'[m].status \in Stopped
  BY <1>1, <1>6 DEF Crash
<1>7. ASSUME NEW n \in Meetings,
             Dispatch(n) \/ Stop(n) \/ Delete(n) \/ SweepQueued(n) \/ SweepUntimed(n)
      PROVE  row'[m].status \in Stopped
  BY <1>1, <1>7 DEF Dispatch, Stop, Delete, SweepQueued, SweepUntimed, others, Row
<1>8. CASE UNCHANGED vars
  BY <1>1, <1>8 DEF vars
<1>. QED BY <1>2, <1>3, <1>4, <1>5, <1>6, <1>7, <1>8 DEF Next

\* Nothing but a booking brings a row to life, and none changes its event.
LEMMA LiveBefore ==
    ASSUME IInv, [Next]_vars, \A q \in Requests : ~InsertBooking(q), NEW m \in Meetings, Exists(m)'
    PROVE  Exists(m) /\ row'[m].event = row[m].event
<1>1. row[m] \in Row /\ row \in [Meetings -> Row]
  BY DEF IInv, TypeOK
<1>. USE DEF Exists
<1>2. CASE Tick \/ ChangeConnection \/ \E e \in Events : EditEvent(e)
  BY <1>1, <1>2 DEF Tick, ChangeConnection, EditEvent, outside
<1>3. ASSUME NEW q \in Requests, FetchEvent(q) \/ CheckExisting(q)
      PROVE  Exists(m) /\ row'[m].event = row[m].event
  BY <1>1, <1>3 DEF FetchEvent, CheckExisting, booking
<1>5. ASSUME NEW r \in Replicas, SweepStep(r)
      PROVE  Exists(m) /\ row'[m].event = row[m].event
  <2>. DEFINE n == sweep[r].m
  <2>1. CASE ListDue(r) \/ Consider(r) \/ GetToken(r) \/ GetEvent(r) \/ TriggerJoin(r)
    BY <1>1, <2>1 DEF ListDue, Consider, GetToken, GetEvent, TriggerJoin, sweeping
  <2>2. CASE FailMissed(r) \/ ClaimDue(r) \/ MarkFailed(r)
    <3>1. CASE FailMissed(r)
      BY <1>1, <3>1, Rebooked DEF FailMissed, sweeping, Row
    <3>2. CASE ClaimDue(r)
      BY <1>1, <3>2, Rebooked DEF ClaimDue, sweeping, Row
    <3>3. CASE MarkFailed(r)
      BY <1>1, <3>3, Rebooked DEF MarkFailed, sweeping, Row
    <3>. QED BY <2>2, <3>1, <3>2, <3>3
  <2>3. CASE GiveBack(r)
    BY <1>1, <2>3, Rebooked DEF GiveBack, Row
  <2>4. CASE UpdateDetails(r)
    BY <1>1, <2>4, Rebooked DEF UpdateDetails, sweeping, Row
  <2>. QED BY <1>5, <2>1, <2>2, <2>3, <2>4 DEF SweepStep
<1>6. ASSUME NEW r \in Replicas, Crash(r)
      PROVE  Exists(m) /\ row'[m].event = row[m].event
  BY <1>1, <1>6 DEF Crash
<1>7. ASSUME NEW n \in Meetings,
             Dispatch(n) \/ Stop(n) \/ Delete(n) \/ SweepQueued(n) \/ SweepUntimed(n)
      PROVE  Exists(m) /\ row'[m].event = row[m].event
  BY <1>1, <1>7 DEF Dispatch, Stop, Delete, SweepQueued, SweepUntimed, others, Row
<1>8. CASE UNCHANGED vars
  BY <1>1, <1>8 DEF vars
<1>. QED BY <1>2, <1>3, <1>5, <1>6, <1>7, <1>8 DEF Next

\* OneBookingPerEvent without counting.
OneLive == \A m, n \in Meetings :
    Exists(m) /\ Exists(n) /\ row[m].event \in Events /\ row[m].event = row[n].event => m = n

LEMMA OneLiveKept == IInv /\ OneLive /\ [Next]_vars => OneLive'
<1>. SUFFICES ASSUME IInv, OneLive, [Next]_vars PROVE OneLive'
  OBVIOUS
<1>1. CASE \A q \in Requests : ~InsertBooking(q)
  BY <1>1, LiveBefore DEF OneLive
<1>2. ASSUME NEW q \in Requests, InsertBooking(q)
      PROVE  OneLive'
  <2>1. row \in [Meetings -> Row]
    BY DEF IInv, TypeOK
  <2>2. CASE UNCHANGED row
    BY <2>2 DEF OneLive, Exists
  <2>3. ASSUME NEW k \in Meetings, row' = [row EXCEPT ![k] = Booked(q)], LiveRows(request[q].event) = {}
        PROVE  OneLive'
    <3>1. Booked(q).event = request[q].event /\ \A m \in Meetings : Exists(m) => row[m].event # request[q].event
      BY <2>3 DEF Booked, LiveRows
    <3>. QED BY <2>1, <2>3, <3>1 DEF OneLive, Exists
  <2>. QED BY <1>2, <2>2, <2>3 DEF InsertBooking
<1>. QED BY <1>1, <1>2

LEMMA OneLiveRow == OneLive => OneBookingPerEvent
<1>. SUFFICES ASSUME OneLive, NEW e \in Events PROVE Cardinality(LiveRows(e)) <= 1
  BY DEF OneBookingPerEvent
<1>1. CASE LiveRows(e) = {}
  BY <1>1, FS_EmptySet
<1>2. ASSUME NEW m \in LiveRows(e) PROVE Cardinality(LiveRows(e)) <= 1
  <2>1. LiveRows(e) = {m}
    BY <1>2 DEF LiveRows, OneLive
  <2>. QED BY <2>1, FS_Singleton
<1>. QED BY <1>1, <1>2

-----------------------------------------------------------------------------
(* A claim has a sweep or a job behind it.                                 *)

\* A sweep that ends early leaves what it held to the watchdog.
LEMMA AbortDrops ==
    ASSUME IInv, NEW r \in Replicas, Abort(r), NEW m \in Meetings
    PROVE  /\ Owns(r, m) => m \in dropped'
           /\ dropped \subseteq dropped'
           /\ \A p \in Replicas \ {r} : sweep'[p] = sweep[p]
BY DEF Abort, IInv, TypeOK

\* What stands behind a claim.
Behind(m) == (\E r \in Replicas : Owns(r, m)) \/ jobs[m] > 0 \/ m \in dropped

\* A sweep lets a claim go by asking for a bot, or by writing another status.
LEMMA ClaimKept == IInv /\ IInv' /\ NoClaimForgotten /\ [Next]_vars => NoClaimForgotten'
<1>. SUFFICES ASSUME IInv, IInv', NoClaimForgotten, [Next]_vars,
                     NEW m \in Meetings, row'[m].status = "queued"
              PROVE  Behind(m)'
  BY DEF NoClaimForgotten, Behind
<1>1. /\ row \in [Meetings -> Row] /\ sweep \in [Replicas -> Sweep] /\ jobs \in [Meetings -> Nat]
      /\ row' \in [Meetings -> Row] /\ sweep' \in [Replicas -> Sweep] /\ jobs' \in [Meetings -> Nat]
      /\ row[m].status = "queued" => Behind(m)
  BY DEF IInv, TypeOK, NoClaimForgotten, Behind
<1>2. ASSUME UNCHANGED <<row, sweep, jobs, dropped>> PROVE Behind(m)'
  BY <1>1, <1>2 DEF Behind, Owns
<1>3. CASE Tick \/ ChangeConnection \/ \E e \in Events : EditEvent(e)
  BY <1>2, <1>3 DEF Tick, ChangeConnection, EditEvent, outside
<1>4. ASSUME NEW q \in Requests, FetchEvent(q) \/ CheckExisting(q)
      PROVE  Behind(m)'
  BY <1>2, <1>4 DEF FetchEvent, CheckExisting, booking
<1>5. ASSUME NEW q \in Requests, InsertBooking(q)
      PROVE  Behind(m)'
  <2>1. row[m].status = "queued" /\ UNCHANGED <<sweep, jobs, dropped>>
    BY <1>1, <1>5 DEF InsertBooking, booking, Booked
  <2>. QED BY <1>1, <2>1 DEF Behind, Owns
<1>6. ASSUME NEW r \in Replicas, SweepStep(r)
      PROVE  Behind(m)'
  <2>1. CASE Abort(r) /\ UNCHANGED <<row, jobs>>
    BY <1>1, <2>1, AbortDrops DEF Behind, Owns
  <2>2. ASSUME sweep[r].pc \notin OWNING, GoOn(r) \/ \E s : Becomes(r, s), UNCHANGED jobs,
               row[m].status = "queued"
        PROVE  Behind(m)'
    <3>1. UNCHANGED dropped /\ \A p \in Replicas \ {r} : sweep'[p] = sweep[p]
      BY <1>1, <2>2 DEF GoOn, Becomes
    <3>. QED BY <1>1, <2>2, <3>1 DEF Behind, Owns, OWNING
  <2>3. ASSUME NEW s, Becomes(r, s), s.pc \in OWNING, s.m = sweep[r].m, jobs'[m] >= jobs[m],
               row[m].status = "queued"
        PROVE  Behind(m)'
    <3>1. UNCHANGED dropped /\ \A p \in Replicas : sweep'[p] = IF p = r THEN s ELSE sweep[p]
      BY <1>1, <2>3 DEF Becomes
    <3>. QED BY <1>1, <2>3, <3>1 DEF Behind, Owns, OWNING
  <2>12. ASSUME NEW pc \in OWNING, Goto(r, pc), jobs'[m] >= jobs[m], row[m].status = "queued"
         PROVE  Behind(m)'
    <3>. DEFINE s == [sweep[r] EXCEPT !.pc = pc]
    <3>1. s.pc = pc /\ s.m = sweep[r].m
      BY <2>12, Goes
    <3>2. Becomes(r, s)
      BY <2>12 DEF Goto
    <3>. HIDE DEF s
    <3>. QED BY <2>3, <2>12, <3>1, <3>2
  <2>4. CASE ListDue(r) \/ Consider(r)
    BY <1>1, <2>1, <2>2, <2>4 DEF ListDue, Consider, OWNING
  <2>5. CASE FailMissed(r)
    BY <1>1, <2>2, <2>5, Rebooked DEF FailMissed, OWNING, Row
  <2>6. CASE ClaimDue(r)
    <3>. DEFINE s == [sweep[r] EXCEPT !.pc = "claimed", !.loaded = TRUE]
    <3>1. sweep[r].pc = "due" /\ UNCHANGED jobs /\ sweep[r].m \in Meetings
      BY <2>6, Rebooked DEF ClaimDue
    <3>2. CASE row[m].status = "queued"
      BY <2>2, <2>6, <3>1, <3>2 DEF ClaimDue, OWNING
    <3>3. CASE row[m].status # "queued"
      <4>1. m = sweep[r].m /\ Becomes(r, s)
        BY <1>1, <2>6, <3>1, <3>3 DEF ClaimDue
      <4>2. Owns(r, m)'
        BY <1>1, <4>1 DEF Becomes, Owns, Sweep
      <4>. QED BY <4>2 DEF Behind
    <3>. QED BY <3>2, <3>3
  <2>7. CASE GetToken(r)
    <3>1. UNCHANGED <<row, jobs>> /\ (Abort(r) \/ \E pc \in {"failing", "verified"} : Goto(r, pc))
      BY <2>7 DEF GetToken
    <3>2. ASSUME NEW pc \in OWNING, Goto(r, pc) PROVE Behind(m)'
      BY <1>1, <2>12, <3>1, <3>2
    <3>. QED BY <2>1, <3>1, <3>2 DEF OWNING
  <2>8. CASE GetEvent(r)
    <3>. DEFINE ev == event[row[sweep[r].m].event]
                pc == Revalidate(sweep[r], ev)
                s == [sweep[r] EXCEPT !.pc = pc, !.got = IF pc \in {"moved", "changed"} THEN ev ELSE Gone]
    <3>1. UNCHANGED <<row, jobs>> /\ (Becomes(r, s) \/ \E x \in {"joining", "failing"} : Goto(r, x))
      BY <2>8 DEF GetEvent
    <3>2. ASSUME NEW x \in OWNING, Goto(r, x) PROVE Behind(m)'
      BY <1>1, <2>12, <3>1, <3>2
    <3>3. pc \in OWNING
      BY DEF Revalidate, OWNING
    <3>4. s.pc = pc /\ s.m = sweep[r].m
      BY <1>1 DEF Sweep
    <3>. HIDE DEF s, pc
    <3>5. CASE Becomes(r, s)
      BY <1>1, <2>3, <3>1, <3>3, <3>4, <3>5
    <3>. QED BY <3>1, <3>2, <3>5 DEF OWNING
  <2>9. CASE MarkFailed(r) \/ GiveBack(r)
    <3>1. CASE ~Exists(sweep[r].m)
      BY <2>1, <2>9, <3>1 DEF MarkFailed, GiveBack
    <3>2. CASE Exists(sweep[r].m)
      <4>1. GoOn(r) /\ UNCHANGED jobs /\ sweep[r].m \in Meetings /\ row'[sweep[r].m].status # "queued"
        BY <1>1, <2>9, <3>2, Rebooked DEF MarkFailed, GiveBack, Row
      <4>2. m # sweep[r].m /\ row[m].status = "queued"
        BY <1>1, <2>9, <3>2, <4>1 DEF MarkFailed, GiveBack
      <4>3. UNCHANGED dropped /\ \A p \in Replicas \ {r} : sweep'[p] = sweep[p]
        BY <1>1, <4>1 DEF GoOn, Becomes
      <4>. QED BY <1>1, <4>1, <4>2, <4>3 DEF Behind, Owns
    <3>. QED BY <3>1, <3>2
  <2>10. CASE UpdateDetails(r)
    <3>. DEFINE s == [sweep[r] EXCEPT !.pc = "joining", !.got = Gone, !.loaded = FALSE]
    <3>1. UNCHANGED jobs /\ sweep[r].pc = "changed" /\ (Becomes(r, s) \/ (Abort(r) /\ UNCHANGED row))
      <4>1. CASE Exists(sweep[r].m)
        <5>1. UNCHANGED jobs /\ sweep[r].pc = "changed"
          BY <2>10 DEF UpdateDetails
        <5>2. Becomes(r, s)
          BY <2>10, <4>1, Zenon DEF UpdateDetails
        <5>. QED BY <5>1, <5>2
      <4>2. CASE ~Exists(sweep[r].m)
        BY <2>10, <4>2 DEF UpdateDetails
      <4>. QED BY <4>1, <4>2
    <3>2. row[m].status = "queued"
      <4>. DEFINE n == sweep[r].m
                  t == sweep[r].got.start
                  l == IF sweep[r].got.link = NoLink THEN row[n].link ELSE sweep[r].got.link
      <4>1. UNCHANGED row \/ row' = [row EXCEPT ![n].at = t, ![n].link = l]
        BY <2>10, Zenon DEF UpdateDetails
      <4>. HIDE DEF n, t, l
      <4>. QED BY <1>1, <4>1 DEF Row
    <3>3. s.pc \in OWNING /\ s.m = sweep[r].m
      BY <1>1 DEF Sweep, OWNING
    <3>. HIDE DEF s
    <3>. QED BY <1>1, <2>1, <2>3, <3>1, <3>2, <3>3
  <2>11. CASE TriggerJoin(r)
    <3>. DEFINE n == sweep[r].m
    <3>1. /\ UNCHANGED row /\ n \in Meetings
          /\ \/ Abort(r) /\ UNCHANGED jobs
             \/ Ask(n) /\ (GoOn(r) \/ Goto(r, "failing"))
             \/ Goto(r, "failing") /\ UNCHANGED jobs
      BY <2>11, Rebooked DEF TriggerJoin
    <3>2. CASE Goto(r, "failing") /\ (UNCHANGED jobs \/ Ask(n))
      <4>1. jobs'[m] >= jobs[m]
        BY <1>1, <3>1, <3>2 DEF Ask
      <4>2. "failing" \in OWNING /\ row[m].status = "queued"
        BY <1>1, <3>1 DEF OWNING
      <4>. QED BY <2>12, <3>2, <4>1, <4>2
    <3>3. CASE Ask(n) /\ GoOn(r)
      <4>1. UNCHANGED dropped /\ \A p \in Replicas \ {r} : sweep'[p] = sweep[p]
        BY <1>1, <3>3 DEF GoOn, Becomes
      <4>2. jobs'[m] = IF m = n THEN jobs[m] + 1 ELSE jobs[m]
        BY <1>1, <3>3 DEF Ask
      <4>. QED BY <1>1, <3>1, <4>1, <4>2 DEF Behind, Owns
    <3>. QED BY <2>1, <3>1, <3>2, <3>3
  <2>. QED BY <1>6, <2>4, <2>5, <2>6, <2>7, <2>8, <2>9, <2>10, <2>11 DEF SweepStep
<1>7. ASSUME NEW r \in Replicas, Crash(r)
      PROVE  Behind(m)'
  BY <1>1, <1>7, AbortDrops DEF Crash, Behind, Owns
<1>8. ASSUME NEW n \in Meetings,
             Dispatch(n) \/ Stop(n) \/ Delete(n) \/ SweepQueued(n) \/ SweepUntimed(n)
      PROVE  Behind(m)'
  <2>1. row[m].status = "queued" /\ UNCHANGED <<sweep, dropped>> /\ jobs'[m] = jobs[m]
    BY <1>1, <1>8 DEF Dispatch, Stop, Delete, SweepQueued, SweepUntimed, others, Row
  <2>. QED BY <1>1, <2>1 DEF Behind, Owns
<1>9. CASE UNCHANGED vars
  BY <1>2, <1>9 DEF vars
<1>. QED BY <1>3, <1>4, <1>5, <1>6, <1>7, <1>8, <1>9 DEF Next

-----------------------------------------------------------------------------
(* Bots are asked for in the window.  What a sweep listed stays as it was  *)
(* listed until its claim, or is given back; after the claim only the      *)
(* sweep that holds the meeting writes its time.                           *)

InWindow(t, now) == t \in Starts /\ t <= now + Lead /\ ~Missed(t, now)

\* A meeting that is still as it was listed was listed in time.
ListedInTime(r) ==
    \A d \in sweep[r].due :
      d.m \notin stale[r] /\ row[d.m].status = "scheduled" =>
        d.at = row[d.m].at /\ d.at <= sweep[r].now + Lead

\* A meeting that a sweep is about to join is in its window, or will be once the
\* new start is written.
HeldInTime(r) ==
    sweep[r].m \in Meetings \ stale[r] =>
      /\ \/ sweep[r].pc = "due" /\ row[sweep[r].m].status = "scheduled"
         \/ sweep[r].pc \in {"claimed", "verified", "joining"}
         => InWindow(row[sweep[r].m].at, sweep[r].now)
      /\ sweep[r].pc = "changed" => InWindow(sweep[r].got.start, sweep[r].now)

InTime == \A r \in Replicas : ListedInTime(r) /\ HeldInTime(r)

Moves(m) == \E r \in Replicas : sweep[r].m = m /\ (GiveBack(r) \/ UpdateDetails(r))

Stands(m) ==
    /\ row'[m].at = row[m].at
    /\ row'[m].status = "scheduled" => row[m].status = "scheduled"

\* Only the sweep that holds a meeting moves it.
LEMMA TimesStand ==
    ASSUME IInv, [Next]_vars, NEW m \in Meetings, row[m].event \in Events, ~Moves(m)
    PROVE  Stands(m)
<1>1. row[m] \in Row /\ row \in [Meetings -> Row]
  BY DEF IInv, TypeOK
<1>. USE DEF Stands
<1>2. CASE Tick \/ ChangeConnection \/ \E e \in Events : EditEvent(e)
  BY <1>1, <1>2 DEF Tick, ChangeConnection, EditEvent, outside
<1>3. ASSUME NEW q \in Requests, FetchEvent(q) \/ CheckExisting(q)
      PROVE  Stands(m)
  BY <1>1, <1>3 DEF FetchEvent, CheckExisting, booking
<1>4. ASSUME NEW q \in Requests, InsertBooking(q)
      PROVE  Stands(m)
  <2>1. row[m] # None
    BY SchedulerAssumption DEF None
  <2>. QED BY <1>1, <1>4, <2>1 DEF InsertBooking
<1>5. ASSUME NEW r \in Replicas, SweepStep(r)
      PROVE  Stands(m)
  <2>. DEFINE n == sweep[r].m
  <2>1. CASE ListDue(r) \/ Consider(r) \/ GetToken(r) \/ GetEvent(r) \/ TriggerJoin(r)
    BY <1>1, <2>1 DEF ListDue, Consider, GetToken, GetEvent, TriggerJoin, sweeping
  <2>2. CASE FailMissed(r) \/ ClaimDue(r) \/ MarkFailed(r)
    <3>1. CASE FailMissed(r)
      BY <1>1, <3>1, Rebooked DEF FailMissed, sweeping, Row
    <3>2. CASE ClaimDue(r)
      BY <1>1, <3>2, Rebooked DEF ClaimDue, sweeping, Row
    <3>3. CASE MarkFailed(r)
      BY <1>1, <3>3, Rebooked DEF MarkFailed, sweeping, Row
    <3>. QED BY <2>2, <3>1, <3>2, <3>3
  <2>3. CASE GiveBack(r) \/ UpdateDetails(r)
    <3>1. n # m
      BY <2>3 DEF Moves
    <3>. QED BY <1>1, <2>3, <3>1 DEF GiveBack, UpdateDetails, Row
  <2>. QED BY <1>5, <2>1, <2>2, <2>3 DEF SweepStep
<1>6. ASSUME NEW r \in Replicas, Crash(r)
      PROVE  Stands(m)
  BY <1>1, <1>6 DEF Crash
<1>7. ASSUME NEW n \in Meetings,
             Dispatch(n) \/ Stop(n) \/ Delete(n) \/ SweepQueued(n) \/ SweepUntimed(n)
      PROVE  Stands(m)
  BY <1>1, <1>7 DEF Dispatch, Stop, Delete, SweepQueued, SweepUntimed, others, Row
<1>8. CASE UNCHANGED vars
  BY <1>1, <1>8 DEF vars
<1>. QED BY <1>2, <1>3, <1>4, <1>5, <1>6, <1>7, <1>8 DEF Next

\* A give-back is remembered by every sweep that listed the meeting.
LEMMA GivenBack ==
    ASSUME IInv, NEW r \in Replicas, GiveBack(r), NEW p \in Replicas
    PROVE  /\ stale[p] \subseteq stale'[p]
           /\ \/ sweep[r].m \in stale'[p]
              \/ sweep[p].m # sweep[r].m /\ \A d \in sweep[p].due : d.m # sweep[r].m
              \/ UNCHANGED row
BY DEF GiveBack, IInv, TypeOK

\* New details are written by the sweep that holds the meeting.
LEMMA Detailed ==
    ASSUME IInv, NEW r \in Replicas, UpdateDetails(r)
    PROVE  /\ sweep[r].pc = "changed" /\ sweep[r].m \in Meetings /\ Owns(r, sweep[r].m)
           /\ row[sweep[r].m].status # "scheduled"
           /\ row'[sweep[r].m].status # "scheduled"
           /\ UNCHANGED stale
           /\ \/ Abort(r) /\ UNCHANGED row
              \/ /\ row'[sweep[r].m].at = sweep[r].got.start
                 /\ Becomes(r, [sweep[r] EXCEPT !.pc = "joining", !.got = Gone, !.loaded = FALSE])
<1>. DEFINE m == sweep[r].m
            t == sweep[r].got.start
            l == IF sweep[r].got.link = NoLink THEN row[m].link ELSE sweep[r].got.link
<1>1. sweep[r].pc = "changed" /\ UNCHANGED stale
  BY DEF UpdateDetails
<1>2. /\ m \in Meetings /\ row[m] \in Row /\ Owns(r, m)
      /\ row[m].status # "scheduled" /\ row \in [Meetings -> Row]
  BY <1>1, Rebooked DEF OWNING, UNCLAIMED, IInv, TypeOK
<1>3. CASE ~Exists(m)
  <2>1. UNCHANGED row /\ Abort(r)
    BY <1>3 DEF UpdateDetails
  <2>. QED BY <1>1, <1>2, <2>1
<1>4. CASE Exists(m)
  <2>. DEFINE s == [sweep[r] EXCEPT !.pc = "joining", !.got = Gone, !.loaded = FALSE]
  <2>1. row' = [row EXCEPT ![m].at = t, ![m].link = l] /\ Becomes(r, s)
    BY <1>4, Zenon DEF UpdateDetails
  <2>. HIDE DEF t, l, s
  <2>2. row'[m].status = row[m].status /\ row'[m].at = t
    BY <1>2, <2>1 DEF Row
  <2>. QED BY <1>1, <1>2, <2>1, <2>2 DEF s, t
<1>. QED BY <1>3, <1>4

\* What a sweep has listed stands, unless it is given back.
LEMMA ListStands ==
    ASSUME IInv, [Next]_vars, NEW p \in Replicas, NEW d \in sweep[p].due, ListedInTime(p),
           stale[p] \subseteq stale'[p], d.m \notin stale'[p], row'[d.m].status = "scheduled"
    PROVE  d.at = row'[d.m].at /\ d.at <= sweep[p].now + Lead
<1>1. d.m \in Meetings /\ row[d.m].event \in Events
  BY DEF IInv, Safe, ListedIsBooked, TypeOK, Sweep
<1>2. Stands(d.m)
  <2>1. ASSUME NEW r \in Replicas, sweep[r].m = d.m, GiveBack(r) PROVE Stands(d.m)
    BY <2>1, GivenBack DEF Stands
  <2>2. ASSUME NEW r \in Replicas, sweep[r].m = d.m, UpdateDetails(r) PROVE FALSE
    BY <2>2, Detailed
  <2>. QED BY <1>1, <2>1, <2>2, TimesStand DEF Moves
<1>. QED BY <1>1, <1>2 DEF ListedInTime, Stands

\* A sweep that takes no step.
LEMMA Waits ==
    ASSUME IInv, [Next]_vars, NEW p \in Replicas, sweep'[p] = sweep[p],
           stale[p] \subseteq stale'[p], ListedInTime(p), HeldInTime(p)
    PROVE  ListedInTime(p)' /\ HeldInTime(p)'
<1>1. ListedInTime(p)'
  BY ListStands DEF ListedInTime
<1>2. HeldInTime(p)'
  <2>. SUFFICES ASSUME sweep[p].m \in Meetings \ stale'[p],
                       sweep[p].pc \in {"due", "claimed", "verified", "joining", "changed"}
                PROVE  HeldInTime(p)'
    BY DEF HeldInTime
  <2>. DEFINE m == sweep[p].m
  <2>1. m \in Meetings /\ row[m].event \in Events /\ m \notin stale[p]
    BY Rebooked
  <2>2. CASE Stands(m)
    BY <2>1, <2>2 DEF HeldInTime, Stands
  <2>3. ASSUME NEW r \in Replicas, sweep[r].m = m, GiveBack(r) PROVE Stands(m)
    BY <2>3, GivenBack DEF Stands
  <2>4. ASSUME NEW r \in Replicas, sweep[r].m = m, UpdateDetails(r) PROVE HeldInTime(p)'
    <3>1. r # p
      <4>1. sweep'[r].pc # "changed"
        <5>. DEFINE s == [sweep[r] EXCEPT !.pc = "joining", !.got = Gone, !.loaded = FALSE]
        <5>1. s.pc = "joining" /\ Asleep.pc = "asleep"
          BY DEF Asleep, IInv, TypeOK, Sweep
        <5>2. Abort(r) \/ Becomes(r, s)
          BY <2>4, Detailed
        <5>. HIDE DEF s
        <5>. QED BY <5>1, <5>2 DEF Becomes, Abort, IInv, TypeOK
      <4>. QED BY <4>1, <2>4, Detailed
    <3>2. Owns(r, m) /\ row'[m].status # "scheduled"
      BY <2>4, Detailed
    <3>3. ~Owns(p, m)
      BY <2>1, <3>1, <3>2 DEF IInv, Safe, OneOwner
    <3>. QED BY <3>2, <3>3 DEF HeldInTime, Owns
  <2>. QED BY <2>1, <2>2, <2>3, <2>4, TimesStand DEF Moves
<1>. QED BY <1>1, <1>2

\* A sweep that holds no meeting, or a claim it is about to give up, owes its list only.
LEMMA ListOnly ==
    ASSUME IInv, [Next]_vars, NEW p \in Replicas, ListedInTime(p), stale[p] \subseteq stale'[p],
           NEW s, sweep' = [sweep EXCEPT ![p] = s], s.due \subseteq sweep[p].due,
           s.due = {} \/ s.now = sweep[p].now
    PROVE  ListedInTime(p)'
<1>1. sweep'[p] = s
  BY DEF IInv, TypeOK
<1>. QED BY <1>1, ListStands DEF ListedInTime

\* A sweep that goes on to its next meeting, or ends.
LEMMA Rests ==
    ASSUME IInv, [Next]_vars, NEW p \in Replicas, ListedInTime(p), stale[p] \subseteq stale'[p],
           GoOn(p) \/ Abort(p)
    PROVE  ListedInTime(p)' /\ HeldInTime(p)'
<1>. DEFINE s == IF GoOn(p) THEN Continue(sweep[p]) ELSE Asleep
<1>1. sweep' = [sweep EXCEPT ![p] = s]
  BY DEF GoOn, Becomes, Abort
<1>2. sweep[p] \in Sweep /\ Asleep.due = {} /\ Asleep.m = NoMeeting /\ sweep'[p] = s
  BY <1>1 DEF Asleep, IInv, TypeOK
<1>3. Continue(sweep[p]).due = {} \/ Continue(sweep[p]).now = sweep[p].now
  BY <1>2 DEF Continue, Asleep
<1>4. s.due \subseteq sweep[p].due /\ s.m = NoMeeting
  BY <1>2, Continues DEF IInv
<1>5. s.due = {} \/ s.now = sweep[p].now
  BY <1>2, <1>3
<1>. HIDE DEF s
<1>6. ListedInTime(p)'
  BY <1>1, <1>4, <1>5, ListOnly
<1>7. HeldInTime(p)'
  BY <1>2, <1>4, SchedulerAssumption DEF HeldInTime
<1>. QED BY <1>6, <1>7

LEMMA ListsInTime ==
    ASSUME IInv, NEW p \in Replicas, ListDue(p)
    PROVE  ListedInTime(p)' /\ HeldInTime(p)'
<1>. DEFINE s == [Asleep EXCEPT !.pc = "loop", !.now = clock, !.due = Due, !.loaded = TRUE]
<1>1. sweep' = [sweep EXCEPT ![p] = s] /\ UNCHANGED row
  BY DEF ListDue, Becomes
<1>2. s.due = Due /\ s.now = clock /\ s.m = NoMeeting
  BY DEF Asleep
<1>. HIDE DEF s
<1>3. sweep'[p] = s
  BY <1>1 DEF IInv, TypeOK
<1>. QED BY <1>1, <1>2, <1>3, SchedulerAssumption DEF ListedInTime, HeldInTime, Due

\* The time is looked at before the claim, as it was listed or as it is now.
LEMMA ConsidersInTime ==
    ASSUME IInv, [Next]_vars, NEW p \in Replicas, Consider(p), ListedInTime(p)
    PROVE  ListedInTime(p)' /\ HeldInTime(p)'
<1>0. UNCHANGED <<row, stale>> /\ sweep[p] \in Sweep
  BY DEF Consider, IInv, TypeOK
<1>1. PICK d \in sweep[p].due :
        LET t == IF sweep[p].loaded THEN d.at ELSE row[d.m].at
        IN  IF ~sweep[p].loaded /\ ~Exists(d.m)
            THEN Abort(p)
            ELSE Becomes(p, [sweep[p] EXCEPT
                               !.pc = IF Missed(t, sweep[p].now) THEN "missed" ELSE "due",
                               !.m = d.m,
                               !.due = @ \ {d}])
  BY Zenon DEF Consider
<1>2. d.m \in Meetings /\ d.at \in Starts
  BY <1>0 DEF Sweep
<1>. DEFINE t == IF sweep[p].loaded THEN d.at ELSE row[d.m].at
            pc == IF Missed(t, sweep[p].now) THEN "missed" ELSE "due"
            s == [sweep[p] EXCEPT !.pc = pc, !.m = d.m, !.due = @ \ {d}]
<1>3. CASE Abort(p)
  BY <1>0, <1>3, Rests
<1>4. CASE Becomes(p, s)
  <2>1. s.pc = pc /\ s.m = d.m /\ s.due \subseteq sweep[p].due /\ s.now = sweep[p].now
    BY <1>0 DEF Sweep
  <2>. HIDE DEF s
  <2>2. sweep' = [sweep EXCEPT ![p] = s] /\ sweep'[p] = s
    BY <1>4 DEF Becomes, IInv, TypeOK
  <2>3. ListedInTime(p)'
    BY <1>0, <2>1, <2>2, ListOnly
  <2>4. d.m \notin stale[p] /\ row[d.m].status = "scheduled" /\ pc = "due" =>
          InWindow(row[d.m].at, sweep[p].now)
    BY <1>2 DEF ListedInTime, InWindow
  <2>5. pc \in {"missed", "due"}
    OBVIOUS
  <2>. HIDE DEF pc, t
  <2>6. HeldInTime(p)'
    BY <1>0, <2>1, <2>2, <2>4, <2>5 DEF HeldInTime
  <2>. QED BY <2>3, <2>6
<1>. QED BY <1>1, <1>3, <1>4, Zenon

\* A step of a sweep that keeps its meeting, its list and the row's time.
LEMMA HoldsOn ==
    ASSUME IInv, [Next]_vars, NEW p \in Replicas, ListedInTime(p), HeldInTime(p),
           UNCHANGED stale, NEW s, Becomes(p, s),
           s.due = sweep[p].due, s.now = sweep[p].now, s.m = sweep[p].m, s.m \in Meetings,
           row'[s.m].at = row[s.m].at,
           \/ s.pc = "failing" \/ s.pc = "moved"
           \/ /\ s.pc \in {"claimed", "verified", "joining"}
              /\ s.m \notin stale[p] => InWindow(row[s.m].at, s.now)
           \/ /\ s.pc = "changed"
              /\ s.m \notin stale[p] => InWindow(s.got.start, s.now)
    PROVE  ListedInTime(p)' /\ HeldInTime(p)'
<1>1. sweep' = [sweep EXCEPT ![p] = s] /\ sweep'[p] = s
  BY DEF Becomes, IInv, TypeOK
<1>2. ListedInTime(p)'
  BY <1>1, ListOnly
<1>3. HeldInTime(p)'
  BY <1>1 DEF HeldInTime
<1>. QED BY <1>2, <1>3

\* What Google answers is joined within the window, or given back, or marked failed.
LEMMA Revalidated ==
    ASSUME IInv, NEW p \in Replicas, sweep[p] \in Sweep, sweep[p].m \in Meetings, NEW ev \in Event,
           InWindow(row[sweep[p].m].at, sweep[p].now)
    PROVE  LET pc == Revalidate(sweep[p], ev)
           IN  /\ pc \in {"failing", "moved", "changed", "joining"}
               /\ pc = "changed" => InWindow(ev.start, sweep[p].now)
<1>1. sweep[p].now \in Nat /\ Lead \in Nat /\ Grace \in Nat /\ Starts \subseteq Nat
  BY SchedulerAssumption DEF Sweep
<1>2. ev.kind = "timed" => ev.start \in Starts
  BY DEF Event, Gone, AllDay, Timed
<1>3. Revalidate(sweep[p], ev) \in {"failing", "moved", "changed", "joining"}
  BY DEF Revalidate
<1>4. ASSUME Revalidate(sweep[p], ev) = "changed"
      PROVE  InWindow(ev.start, sweep[p].now)
  <2>. DEFINE at == row[sweep[p].m].at
              now == sweep[p].now
  <2>1. ev.kind = "timed" /\ (ev.start # at => ~(ev.start > now) /\ ~Missed(ev.start, now))
    BY <1>4 DEF Revalidate
  <2>2. InWindow(at, now) /\ now \in Nat
    BY <1>1
  <2>. SUFFICES InWindow(ev.start, now)
    OBVIOUS
  <2>. HIDE DEF at, now
  <2>3. CASE ev.start = at
    BY <2>2, <2>3
  <2>4. CASE ev.start # at
    <3>1. ev.start \in Nat /\ ev.start \in Starts /\ Lead \in Nat
      BY <1>1, <1>2, <2>1
    <3>2. ev.start <= now /\ ~Missed(ev.start, now)
      BY <2>1, <2>2, <2>4, <3>1
    <3>3. ev.start <= now + Lead
      BY <2>2, <3>1, <3>2
    <3>. QED BY <3>1, <3>2, <3>3 DEF InWindow
  <2>. QED BY <2>3, <2>4
<1>. QED BY <1>3, <1>4

LEMMA ClaimsInTime ==
    ASSUME IInv, [Next]_vars, NEW p \in Replicas, ClaimDue(p), ListedInTime(p), HeldInTime(p)
    PROVE  ListedInTime(p)' /\ HeldInTime(p)'
<1>. DEFINE m == sweep[p].m
            s == [sweep[p] EXCEPT !.pc = "claimed", !.loaded = TRUE]
<1>1. sweep[p].pc = "due" /\ m \in Meetings /\ sweep[p] \in Sweep /\ UNCHANGED stale
  BY Rebooked DEF ClaimDue
<1>2. CASE GoOn(p)
  BY <1>1, <1>2, Rests
<1>3. CASE row[m].status = "scheduled" /\ row' = [row EXCEPT ![m].status = "queued"] /\ Becomes(p, s)
  <2>1. s.pc = "claimed" /\ s.m = m /\ s.due = sweep[p].due /\ s.now = sweep[p].now
    BY <1>1 DEF Sweep
  <2>2. row'[m].at = row[m].at
    BY <1>1, <1>3 DEF IInv, TypeOK, Row
  <2>3. m \notin stale[p] => InWindow(row[m].at, sweep[p].now)
    BY <1>1, <1>3 DEF HeldInTime
  <2>. HIDE DEF s
  <2>. QED BY <1>1, <1>3, <2>1, <2>2, <2>3, HoldsOn
<1>. QED BY <1>2, <1>3 DEF ClaimDue

\* A step that changes only how far the sweep has come.
LEMMA GoesInTime ==
    ASSUME IInv, [Next]_vars, NEW p \in Replicas, ListedInTime(p), HeldInTime(p),
           UNCHANGED <<row, stale>>, NEW pc \in OWNING, Goto(p, pc),
           sweep[p].m \in Meetings,
           \/ pc = "failing"
           \/ sweep[p].pc \in {"claimed", "verified"} /\ pc \in {"verified", "joining"}
    PROVE  ListedInTime(p)' /\ HeldInTime(p)'
<1>. DEFINE s == [sweep[p] EXCEPT !.pc = pc]
<1>1. s.pc = pc /\ s.m = sweep[p].m /\ s.due = sweep[p].due /\ s.now = sweep[p].now
  BY DEF IInv, TypeOK, Sweep
<1>2. Becomes(p, s)
  BY DEF Goto
<1>. HIDE DEF s
<1>3. pc # "failing" /\ s.m \notin stale[p] => InWindow(row[s.m].at, s.now)
  BY <1>1 DEF HeldInTime
<1>. QED BY <1>1, <1>2, <1>3, HoldsOn

LEMMA LooksUpInTime ==
    ASSUME IInv, [Next]_vars, NEW p \in Replicas, GetEvent(p), ListedInTime(p), HeldInTime(p)
    PROVE  ListedInTime(p)' /\ HeldInTime(p)'
<1>. DEFINE m == sweep[p].m
            ev == event[row[m].event]
            pc == Revalidate(sweep[p], ev)
            s == [sweep[p] EXCEPT !.pc = pc, !.got = IF pc \in {"moved", "changed"} THEN ev ELSE Gone]
<1>1. /\ sweep[p].pc = "verified" /\ m \in Meetings /\ sweep[p] \in Sweep
      /\ row[m].event \in Events /\ UNCHANGED <<row, stale>>
  BY Rebooked DEF GetEvent
<1>2. ev \in Event
  BY <1>1 DEF IInv, TypeOK
<1>3. ASSUME NEW x \in {"joining", "failing"}, Goto(p, x)
      PROVE  ListedInTime(p)' /\ HeldInTime(p)'
  BY <1>1, <1>3, GoesInTime DEF OWNING
<1>4. CASE Becomes(p, s)
  <2>1. /\ s.pc = pc /\ s.m = m /\ s.due = sweep[p].due /\ s.now = sweep[p].now
        /\ pc = "changed" => s.got = ev
    BY <1>1 DEF Sweep
  <2>2. m \notin stale[p] => InWindow(row[m].at, sweep[p].now)
    BY <1>1 DEF HeldInTime
  <2>3. pc \in {"failing", "moved", "changed", "joining"}
    BY DEF Revalidate
  <2>4. m \notin stale[p] /\ pc = "changed" => InWindow(ev.start, sweep[p].now)
    BY <1>1, <1>2, <2>2, Revalidated
  <2>. HIDE DEF s, pc, ev
  <2>. QED BY <1>1, <1>4, <2>1, <2>2, <2>3, <2>4, HoldsOn
<1>. QED BY <1>3, <1>4 DEF GetEvent

LEMMA UpdatesInTime ==
    ASSUME IInv, [Next]_vars, NEW p \in Replicas, UpdateDetails(p), ListedInTime(p), HeldInTime(p)
    PROVE  ListedInTime(p)' /\ HeldInTime(p)'
<1>. DEFINE m == sweep[p].m
            s == [sweep[p] EXCEPT !.pc = "joining", !.got = Gone, !.loaded = FALSE]
<1>1. /\ sweep[p].pc = "changed" /\ m \in Meetings /\ sweep[p] \in Sweep /\ UNCHANGED stale
  BY Detailed DEF IInv, TypeOK
<1>2. CASE Abort(p)
  BY <1>1, <1>2, Rests
<1>3. CASE row'[m].at = sweep[p].got.start /\ Becomes(p, s)
  <2>1. s.pc = "joining" /\ s.m = m /\ s.due = sweep[p].due /\ s.now = sweep[p].now
    BY <1>1 DEF Sweep
  <2>. HIDE DEF s
  <2>2. sweep' = [sweep EXCEPT ![p] = s] /\ sweep'[p] = s
    BY <1>3 DEF Becomes, IInv, TypeOK
  <2>3. ListedInTime(p)'
    BY <1>1, <2>1, <2>2, ListOnly
  <2>4. m \notin stale[p] => InWindow(row'[m].at, sweep[p].now)
    BY <1>1, <1>3 DEF HeldInTime
  <2>5. HeldInTime(p)'
    BY <1>1, <2>1, <2>2, <2>4 DEF HeldInTime
  <2>. QED BY <2>3, <2>5
<1>. QED BY <1>2, <1>3, Detailed

LEMMA StepInTime ==
    ASSUME IInv, [Next]_vars, NEW p \in Replicas, SweepStep(p) \/ Crash(p),
           ListedInTime(p), HeldInTime(p)
    PROVE  ListedInTime(p)' /\ HeldInTime(p)'
<1>1. CASE FailMissed(p) \/ MarkFailed(p)
  BY <1>1, Rests DEF FailMissed, MarkFailed
<1>2. CASE GiveBack(p)
  <2>1. GoOn(p) \/ Abort(p)
    BY <1>2 DEF GiveBack
  <2>. QED BY <1>2, <2>1, Rests, GivenBack
<1>3. CASE Crash(p)
  BY <1>3, Rests DEF Crash
<1>4. CASE GetToken(p)
  <2>1. sweep[p].pc = "claimed" /\ sweep[p].m \in Meetings /\ UNCHANGED <<row, stale>>
    BY <1>4, Rebooked DEF GetToken
  <2>2. Abort(p) \/ Goto(p, "failing") \/ Goto(p, "verified")
    BY <1>4 DEF GetToken
  <2>. QED BY <2>1, <2>2, Rests, GoesInTime DEF OWNING
<1>5. CASE TriggerJoin(p)
  <2>1. sweep[p].m \in Meetings /\ UNCHANGED <<row, stale>>
    BY <1>5, Rebooked DEF TriggerJoin
  <2>2. Abort(p) \/ GoOn(p) \/ Goto(p, "failing")
    BY <1>5 DEF TriggerJoin
  <2>. QED BY <2>1, <2>2, Rests, GoesInTime DEF OWNING
<1>. QED BY <1>1, <1>2, <1>3, <1>4, <1>5, ListsInTime, ConsidersInTime, ClaimsInTime,
            LooksUpInTime, UpdatesInTime DEF SweepStep

LEMMA InTimeKept == IInv /\ InTime /\ [Next]_vars => InTime'
<1>. SUFFICES ASSUME IInv, InTime, [Next]_vars, NEW p \in Replicas
              PROVE  ListedInTime(p)' /\ HeldInTime(p)'
  BY DEF InTime
<1>1. ListedInTime(p) /\ HeldInTime(p)
  BY DEF InTime
<1>2. CASE SweepStep(p) \/ Crash(p)
  BY <1>1, <1>2, StepInTime
<1>3. ASSUME NEW r \in Replicas, SweepStep(r) \/ Crash(r), r # p
      PROVE  ListedInTime(p)' /\ HeldInTime(p)'
  <2>1. sweep'[p] = sweep[p]
    <3>1. sweep \in [Replicas -> Sweep]
      BY DEF IInv, TypeOK
    <3>2. \E s : sweep' = [sweep EXCEPT ![r] = s]
      <4>1. CASE ListDue(r) \/ Consider(r) \/ ClaimDue(r) \/ GetToken(r) \/ GetEvent(r)
        BY <4>1, Zenon DEF ListDue, Consider, ClaimDue, GetToken, GetEvent, GoOn, Goto, Becomes, Abort
      <4>2. CASE FailMissed(r) \/ MarkFailed(r) \/ GiveBack(r) \/ UpdateDetails(r) \/ TriggerJoin(r) \/ Crash(r)
        BY <4>2, Zenon DEF FailMissed, MarkFailed, GiveBack, UpdateDetails, TriggerJoin, Crash, GoOn, Goto,
           Becomes, Abort
      <4>. QED BY <1>3, <4>1, <4>2 DEF SweepStep
    <3>. QED BY <1>3, <3>1, <3>2
  <2>2. stale[p] \subseteq stale'[p]
    <3>1. CASE GiveBack(r)
      BY <3>1, GivenBack
    <3>2. CASE ~GiveBack(r)
      BY <1>3, <3>2 DEF SweepStep, ListDue, Consider, ClaimDue, GetToken, GetEvent, FailMissed, MarkFailed,
         UpdateDetails, TriggerJoin, Crash, IInv, TypeOK
    <3>. QED BY <3>1, <3>2
  <2>. QED BY <1>1, <2>1, <2>2, Waits
<1>4. CASE UNCHANGED <<sweep, stale>>
  BY <1>1, <1>4, Waits
<1>5. CASE Tick \/ ChangeConnection \/ \E e \in Events : EditEvent(e)
  BY <1>4, <1>5 DEF Tick, ChangeConnection, EditEvent, outside
<1>6. ASSUME NEW q \in Requests, FetchEvent(q) \/ CheckExisting(q) \/ InsertBooking(q)
      PROVE  UNCHANGED <<sweep, stale>>
  BY <1>6 DEF FetchEvent, CheckExisting, InsertBooking, booking
<1>7. ASSUME NEW m \in Meetings,
             Dispatch(m) \/ Stop(m) \/ Delete(m) \/ SweepQueued(m) \/ SweepUntimed(m)
      PROVE  UNCHANGED <<sweep, stale>>
  BY <1>7 DEF Dispatch, Stop, Delete, SweepQueued, SweepUntimed, others
<1>8. CASE UNCHANGED vars
  BY <1>4, <1>8 DEF vars
<1>. QED BY <1>2, <1>3, <1>4, <1>5, <1>6, <1>7, <1>8 DEF Next

LEMMA InTimeActs ==
    ASSUME IInv, InTime
    PROVE  \A r \in Replicas, m \in Meetings :
             sweep[r].m = m /\ sweep[r].pc = "joining" /\ m \notin stale[r] =>
               row[m].at <= sweep[r].now + Lead /\ ~Missed(row[m].at, sweep[r].now)
BY DEF InTime, HeldInTime, InWindow

-----------------------------------------------------------------------------

\* The inductive invariant of the scheduler (services/scheduler.py:141-207).
THEOREM Invariance == Spec => []IInv
BY InitHolds, NextKeeps, PTL DEF Spec

\* Every variable keeps its type, whatever is edited, lost or crashes
\* (services/scheduler.py, api/calendar.py).
THEOREM TypeCorrect == Spec => []TypeOK
<1>1. IInv => TypeOK
  BY DEF IInv
<1>. QED BY <1>1, Invariance, PTL

\* A booking's bot is asked for once, by however many replicas sweep it
\* (_claim, services/scheduler.py:22-40).
THEOREM BotsAskedOnce == Spec => []AskedOnce
<1>1. IInv => AskedOnce
  BY DEF IInv, Safe
<1>. QED BY <1>1, Invariance, PTL

\* "No other replica can be touching this row": between its claim and its end, a
\* meeting is in the hands of one sweep (services/scheduler.py:64-65).
THEOREM ClaimsAreExclusive == Spec => []OneOwner
<1>1. IInv => OneOwner
  BY DEF IInv, Safe
<1>. QED BY <1>1, Invariance, PTL

\* A meeting whose owner was told "stopped" is joined by no bot, although the sweep
\* that claimed it goes on (services/scheduler.py:22-40; only lines 110-111 undo it).
THEOREM StopsHold == Spec => []StopHolds
<1>1. Init => StopHolds
  BY DEF Init, StopHolds
<1>. QED BY <1>1, StopKept, Invariance, PTL DEF Spec

\* However its requests interleave, an event has at most one meeting that is not
\* deleted (api/calendar.py:207-210).
THEOREM BookingsUnique == Spec => []OneBookingPerEvent
<1>1. Init => OneLive
  BY SchedulerAssumption DEF Init, OneLive, None, Leftover, Exists
<1>2. Spec => []OneLive
  BY <1>1, OneLiveKept, Invariance, PTL DEF Spec
<1>. QED BY <1>2, OneLiveRow, PTL

\* A claimed meeting has a sweep working on it or a job behind it, unless its sweep
\* ended in a crash or an exception (services/scheduler.py:100-111,141-207).
THEOREM ClaimsRemembered == Spec => []NoClaimForgotten
<1>1. Init => NoClaimForgotten
  BY DEF Init, NoClaimForgotten, None, Leftover
<1>. QED BY <1>1, ClaimKept, Invariance, PTL DEF Spec

\* A bot is asked for within the lead and the grace of the time the meeting has then,
\* by every sweep that listed it since it was last given back
\* (services/scheduler.py:43-111,141-207).
THEOREM JoinsInTheWindow == Spec => InTheWindow
<1>1. Init => InTime
  BY SchedulerAssumption DEF Init, InTime, ListedInTime, HeldInTime, Asleep
<1>2. IInv /\ InTime =>
        [\A r \in Replicas, m \in Meetings :
           /\ sweep[r].m = m /\ sweep[r].pc = "joining"
           /\ asked'[m] > asked[m]
           /\ m \notin stale[r]
           => /\ row[m].at <= sweep[r].now + Lead
              /\ ~Missed(row[m].at, sweep[r].now)]_vars
  BY InTimeActs
<1>3. Spec => []InTime
  BY <1>1, InTimeKept, Invariance, PTL DEF Spec
<1>. QED BY <1>2, <1>3, Invariance, PTL DEF InTheWindow
=============================================================================
