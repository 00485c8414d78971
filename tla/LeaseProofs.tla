---------------------------- MODULE LeaseProofs ----------------------------
(***************************************************************************)
(* BotDispatch implements RecorderLease while no answer is lost, for any   *)
(* number of meetings, recorders, jobs and crashes: a recorder is given a  *)
(* meeting by the claim and by nothing else, the meeting is open then and  *)
(* nobody has it, and no statement opens a row again that was closed.      *)
(***************************************************************************)
EXTENDS OneRecorderProofs

Open(r) == r.status \in {"queued"} \cup Active

\* A step that gives m to no recorder.
GivesNone(m) == \A h \in Hosts : BusyWith(h, m)' => BusyWith(h, m)

\* The step that does.
Given(m) ==
    /\ Open(row[m]) /\ Open(row'[m]) /\ api[m] # "none" /\ api'[m] = api[m]
    /\ \A h \in Hosts : ~BusyWith(h, m)

LEMMA LessGives ==
    ASSUME NEW m \in Meetings, UNCHANGED request,
           \A j \in Jobs : ClaimOn(j, m)' => job'[j] = job[j],
           \A h \in Hosts : session'[h][m].stage # "none" => session[h][m].stage # "none"
    PROVE  GivesNone(m)
BY DEF GivesNone, BusyWith, ClaimOn, Claiming

LEMMA JobGives ==
    ASSUME Known, NEW m \in Meetings, MInv(m), NEW j \in Jobs, JobStep(j)
    PROVE  GivesNone(m) \/ Given(m)
<1> DEFINE k == job[j].m
<1>1. /\ job \in [Jobs -> Job] /\ row \in [Meetings -> RowType] /\ session \in [Hosts -> [Meetings -> Session]]
      /\ k \in Meetings /\ UNCHANGED <<session, api>>
  BY DEF Known, IInv, TypeOK, JobsSound, JobStep, ReadMeeting, ChooseHost, ClaimMeeting, PostJoin,
     ConnectFails, JoinTimesOut, ReturnToQueue, Requeue, RecordDispatchExhausted
<1>2. CASE ReadMeeting(j) \/ ChooseHost(j) \/ Requeue(j) \/ RecordDispatchExhausted(j) \/ ReturnToQueue(j)
  <2>1. UNCHANGED request /\ ~Claiming(j)' /\ \A i \in Jobs : i # j => job'[i] = job[i]
    BY <1>1, <1>2 DEF ReadMeeting, ChooseHost, Requeue, RecordDispatchExhausted, ReturnToQueue,
       Claiming, NewJob, FreeJob, Job
  <2> QED BY <1>1, <2>1, LessGives DEF ClaimOn
<1>3. CASE PostJoin(j)
  <2>1. /\ Claiming(j) /\ request' = request \cup {JoinRequest(j)}
        /\ \A i \in Jobs : job'[i].m = job[i].m /\ job'[i].host = job[i].host /\ (Claiming(i)' => Claiming(i))
    BY <1>1, <1>3 DEF PostJoin, Claiming, Job
  <2>2. JoinRequest(j).m = k /\ JoinRequest(j).h = job[j].host
    BY DEF JoinRequest
  <2> QED BY <1>1, <2>1, <2>2 DEF GivesNone, BusyWith
<1>4. CASE ConnectFails(j) \/ JoinTimesOut(j)
  <2>1. /\ request' \subseteq request
        /\ \A i \in Jobs : job'[i].m = job[i].m /\ job'[i].host = job[i].host /\ (Claiming(i)' => Claiming(i))
    <3>1. job[j].pc = "posted" /\ job' = [job EXCEPT ![j].pc = "refused"] /\ request' \subseteq request
      BY <1>4 DEF ConnectFails, JoinTimesOut
    <3>2. job'[j].m = job[j].m /\ job'[j].host = job[j].host /\ job'[j].pc = "refused"
      BY <1>1, <3>1 DEF Job
    <3>3. \A i \in Jobs \ {j} : job'[i] = job[i]
      BY <1>1, <3>1
    <3>4. \A i \in Jobs : Claiming(i)' => Claiming(i)
      BY <3>1, <3>3 DEF Claiming
    <3>. QED BY <3>1, <3>2, <3>3, <3>4
  <2> QED BY <1>1, <2>1 DEF GivesNone, BusyWith
<1>5. CASE ClaimMeeting(j)
  <2>1. UNCHANGED request /\ \A i \in Jobs : i # j => job'[i] = job[i]
    BY <1>1, <1>5 DEF ClaimMeeting
  <2>2. CASE row[k].status # "queued" \/ m # k
    <3>1. ~ClaimOn(j, m)'
      BY <1>1, <1>5, <2>2, DispatchAssumption DEF ClaimMeeting, ClaimOn, Claiming, FreeJob, Job
    <3> QED BY <1>1, <2>1, <3>1, LessGives
  <2>3. CASE row[k].status = "queued" /\ m = k
    <3>1. row'[m].status = "joining"
      BY <1>1, <1>5, <2>3 DEF ClaimMeeting, ClaimQueued, RowType
    <3>2. Quiet(m) /\ \A i \in Jobs : ~ClaimOn(i, m)
      BY <2>3 DEF MInv, QueuedQuiet, Known, IInv, ClaimedNotQueued, ClaimOn
    <3>3. \A h \in Hosts : ~BusyWith(h, m)
      BY <3>2 DEF Quiet, Sent, HasBot, ClaimOn, BusyWith
    <3>4. api[m] # "none"
      BY <2>3 DEF Known, Unbooked, Exists
    <3> QED BY <1>1, <2>3, <3>1, <3>3, <3>4 DEF Given, Open, Active
  <2> QED BY <2>2, <2>3
<1> QED BY <1>2, <1>3, <1>4, <1>5 DEF JobStep

LEMMA ReceiveGives ==
    ASSUME Known, NEW m \in Meetings, NEW q \in request, ReceiveJoin(q)
    PROVE  GivesNone(m)
<1>1. job \in [Jobs -> Job] /\ session \in [Hosts -> [Meetings -> Session]] /\ q.m \in Meetings /\ q.h \in Hosts
      /\ q.j \in Jobs
  BY DEF Known, IInv, TypeOK, Request
<1>2. request' = request \ {q}
  BY DEF ReceiveJoin
<1>3. \A h \in Hosts : session'[h][m].stage # "none" => session[h][m].stage # "none" \/ (h = q.h /\ m = q.m)
  BY <1>1 DEF ReceiveJoin
<1>4. \A i \in Jobs : Claiming(i)' => Claiming(i) /\ job'[i].m = job[i].m /\ job'[i].host = job[i].host
  <2>1. \/ job' = job
        \/ job[q.j].pc = "posted" /\ job' = [job EXCEPT ![q.j] = FreeJob]
        \/ job[q.j].pc = "posted" /\ job' = [job EXCEPT ![q.j].pc = "refused"]
    BY DEF ReceiveJoin, Answered
  <2> QED BY <1>1, <2>1 DEF Claiming, FreeJob, Job
<1> QED BY <1>2, <1>3, <1>4 DEF GivesNone, BusyWith

LEMMA OthersGive ==
    ASSUME Known, NEW m \in Meetings,
           \/ \E k \in Meetings : CreateStep(k) \/ UserStep(k) \/ Sweep(k) \/ TranscriptionEnds(k)
           \/ \E h \in Hosts, k \in Meetings : SessionStep(h, k)
           \/ \E p \in ping : ReceivePing(p)
           \/ FaultStep \/ UNCHANGED vars
    PROVE  GivesNone(m)
<1>1. job \in [Jobs -> Job] /\ session \in [Hosts -> [Meetings -> Session]]
  BY DEF Known, IInv, TypeOK
<1>2. ASSUME NEW k \in Meetings, CreateStep(k)
      PROVE  GivesNone(m)
  <2>1. /\ UNCHANGED <<request, session>>
        /\ \A j \in Jobs : job'[j] = job[j] \/ ~Claiming(j)'
    BY <1>1, <1>2 DEF CreateStep, CreateMeeting, EnqueueDispatch, CreateReturns, CreateFails, NewJob, Claiming
  <2> QED BY <2>1, LessGives DEF ClaimOn
<1>3. ASSUME NEW k \in Meetings, UserStep(k)
      PROVE  GivesNone(m)
  <2>1. /\ UNCHANGED <<request, job>>
        /\ session' = session \/ \E g : session' = Cancelled(g, k)
    BY <1>3 DEF UserStep, StopRead, CancelQueued, RefreshRow, StopBot, DeleteRead, DeleteStopsBot, DeleteRow
  <2>2. \A h \in Hosts : session'[h][m].stage # "none" => session[h][m].stage # "none"
    BY <2>1, CancelAddsNone
  <2> QED BY <2>1, <2>2, LessGives
<1>4. ASSUME NEW k \in Meetings, Sweep(k) \/ TranscriptionEnds(k)
      PROVE  GivesNone(m)
  BY <1>4, LessGives DEF Sweep, TranscriptionEnds
<1>5. ASSUME NEW h \in Hosts, NEW k \in Meetings, SessionStep(h, k)
      PROVE  GivesNone(m)
  <2>1. UNCHANGED <<request, job>> /\ session[h][k].stage # "none"
    BY <1>5 DEF SessionStep, JoinSucceeds, Admitted, SessionFails, MeetingEnds, UploadEnds, NotifyBackend, Active
  <2>2. ASSUME NEW g \in Hosts, ~(g = h /\ k = m)
        PROVE  session'[g][m] = session[g][m]
    <3>1. \E v : session' = [session EXCEPT ![h][k] = v]
      BY <1>1, <1>5 DEF SessionStep, JoinSucceeds, Admitted, SessionFails, MeetingEnds, UploadEnds, NotifyBackend
    <3>. QED BY <1>1, <2>2, <3>1
  <2>3. \A g \in Hosts : session'[g][m].stage # "none" => session[g][m].stage # "none"
    BY <2>1, <2>2
  <2> QED BY <2>1, <2>3, LessGives
<1>6. ASSUME NEW p \in ping, ReceivePing(p)
      PROVE  GivesNone(m)
  BY <1>6, LessGives DEF ReceivePing
<1>7. CASE FaultStep
  <2>1. UNCHANGED request /\ \A j \in Jobs : job'[j] = job[j] \/ ~Claiming(j)'
    BY <1>1, <1>7 DEF FaultStep, CrashJob, LoseJob, CrashAfterRequeue, CrashHost, NewJob, FreeJob, Claiming
  <2>2. \A h \in Hosts : session'[h][m].stage # "none" => session[h][m].stage # "none"
    <3>1. CASE UNCHANGED session
      BY <3>1
    <3>2. ASSUME NEW g \in Hosts, CrashHost(g), NEW h \in Hosts, session'[h][m].stage # "none"
          PROVE  session[h][m].stage # "none"
      <4>1. session' = [session EXCEPT ![g] = [k \in Meetings |-> NoSession]]
        BY <3>2 DEF CrashHost
      <4>2. NoSession.stage = "none"
        BY DEF NoSession
      <4> QED BY <1>1, <3>2, <4>1, <4>2
    <3> QED BY <1>7, <3>1, <3>2 DEF FaultStep, CrashJob, LoseJob, CrashAfterRequeue
  <2> QED BY <2>1, <2>2, LessGives DEF ClaimOn
<1>8. CASE UNCHANGED vars
  BY <1>8, LessGives DEF vars
<1> QED BY <1>2, <1>3, <1>4, <1>5, <1>6, <1>7, <1>8

LEMMA StepGives ==
    ASSUME Known, Tokens, [Next]_vars, NEW m \in Meetings
    PROVE  GivesNone(m) \/ Given(m)
<1>1. MInv(m)
  BY DEF Tokens
<1>2. CASE \E j \in Jobs : JobStep(j)
  BY <1>1, <1>2, JobGives
<1>3. CASE \E q \in request : ReceiveJoin(q)
  BY <1>3, ReceiveGives
<1>4. CASE ~(\E j \in Jobs : JobStep(j)) /\ ~(\E q \in request : ReceiveJoin(q))
  BY <1>4, OthersGive DEF Next
<1> QED BY <1>2, <1>3, <1>4

-----------------------------------------------------------------------------
(* The phase of a meeting *)

\* A meeting is booked by the insert of its row, once.
LEMMA StepBooks ==
    ASSUME Known, [Next]_vars, NEW m \in Meetings
    PROVE  \/ api'[m] = "none" <=> api[m] = "none"
           \/ /\ api[m] = "none" /\ api'[m] # "none" /\ row'[m] = Inserted
              /\ UNCHANGED <<job, request, session>>
<1>1. api \in [Meetings -> {"none", "inserted", "enqueued", "done"}] /\ row \in [Meetings -> RowType]
  BY DEF Known, IInv, TypeOK
<1>2. ASSUME NEW k \in Meetings, CreateMeeting(k)
      PROVE  \/ api'[m] = "none" <=> api[m] = "none"
             \/ /\ api[m] = "none" /\ api'[m] # "none" /\ row'[m] = Inserted
                /\ UNCHANGED <<job, request, session>>
  <2>1. CASE m = k
    BY <1>1, <1>2, <2>1 DEF CreateMeeting
  <2>2. CASE m # k
    BY <1>1, <1>2, <2>2 DEF CreateMeeting
  <2> QED BY <2>1, <2>2
<1>3. ASSUME NEW k \in Meetings,
             CreateReturns(k) \/ CreateFails(k) \/ \E j \in Jobs : EnqueueDispatch(k, j)
      PROVE  api'[m] = "none" <=> api[m] = "none"
  BY <1>1, <1>3 DEF CreateReturns, CreateFails, EnqueueDispatch
<1>4. ASSUME NEW k \in Meetings, UserStep(k) \/ Sweep(k) \/ TranscriptionEnds(k)
      PROVE  UNCHANGED api
  BY <1>4 DEF UserStep, StopRead, CancelQueued, RefreshRow, StopBot, DeleteRead, DeleteStopsBot,
     DeleteRow, Sweep, TranscriptionEnds
<1>5. ASSUME NEW j \in Jobs, JobStep(j)
      PROVE  UNCHANGED api
  BY <1>5 DEF JobStep, ReadMeeting, ChooseHost, ClaimMeeting, PostJoin, ConnectFails,
     JoinTimesOut, ReturnToQueue, Requeue, RecordDispatchExhausted
<1>6. ASSUME NEW h \in Hosts, NEW k \in Meetings, SessionStep(h, k)
      PROVE  UNCHANGED api
  BY <1>6 DEF SessionStep, JoinSucceeds, Admitted, SessionFails, MeetingEnds, UploadEnds, NotifyBackend
<1>7. (\E q \in request : ReceiveJoin(q)) \/ (\E p \in ping : ReceivePing(p))
         \/ FaultStep \/ UNCHANGED vars => UNCHANGED api
  BY DEF ReceiveJoin, ReceivePing, FaultStep, CrashJob, LoseJob, CrashAfterRequeue, CrashHost, vars
<1> QED BY <1>2, <1>3, <1>4, <1>5, <1>6, <1>7 DEF Next, CreateStep

\* Nothing that is written to a closed row opens it.
LEMMA WritesClosed ==
    ASSUME NEW r \in RowType, r.status # "uploading", ~Open(r), NEW s \in Written(r)
    PROVE  ~Open(s)
<1>1. r.status \in {"transcribing", "completed", "failed", "absent"}
  BY DEF RowType, Open, Active, Status, NonTerminal
<1> USE <1>1 DEF RowType, Open, Active, Exists
<1>2. CASE s \in {r, Absent, ForceFailed(r), FailQueued(r), Swept(r), ReturnQueued(r)}
  BY <1>2 DEF Absent, ForceFailed, FailQueued, Swept, ReturnQueued
<1>3. CASE s \in {AdmissionPing(r), RecordingPing(r)}
  BY <1>3 DEF AdmissionPing, RecordingPing
<1>4. CASE \E h \in Hosts : s = ClaimQueued(r, h)
  BY <1>4 DEF ClaimQueued
<1>5. ASSUME NEW outcome \in {"completed", "failed"}, s \in FinalReport(r, outcome)
      PROVE  ~Open(s)
  <2>1. CASE s = FailedReport(r)
    BY <2>1 DEF FailedReport
  <2>2. CASE s = CompletedReport(r)
    BY <2>2 DEF CompletedReport, AcceptsCompleted
  <2>3. CASE AcceptsCompleted(r) /\ s = UndoCompleted(CompletedReport(r))
    <3>1. s.status = "failed"
      BY <2>3 DEF UndoCompleted, CompletedReport, AcceptsCompleted
    <3> QED BY <3>1
  <2> QED BY <1>5, <2>1, <2>2, <2>3 DEF FinalReport
<1> QED BY <1>2, <1>3, <1>4, <1>5 DEF Written

LEMMA StaysClosed ==
    ASSUME Known, [Next]_vars, NEW m \in Meetings, api[m] # "none", ~Open(row[m])
    PROVE  ~Open(row'[m])
<1>1. RowWritten(m) /\ row[m] \in RowType /\ row[m].status # "uploading"
  BY StepWrites DEF Known, IInv, TypeOK, NeverUploading
<1>2. CASE row'[m] \in Written(row[m])
  BY <1>1, <1>2, WritesClosed
<1>3. CASE row'[m] \in Ended(row[m])
  BY <1>1, <1>3 DEF Ended, Open, Active, RowType
<1> QED BY <1>1, <1>2, <1>3 DEF RowWritten

LEMMA PhaseOpens ==
    ASSUME NEW m \in Meetings
    PROVE  /\ Phase(m) = "unbooked" <=> api[m] = "none"
           /\ Phase(m) = "open" <=> api[m] # "none" /\ Open(row[m])
           /\ Phase(m) = "closed" <=> api[m] # "none" /\ ~Open(row[m])
BY DEF Phase, Open

LEMMA PhaseNext ==
    ASSUME NEW m \in Meetings
    PROVE  /\ Phase(m)' = "unbooked" <=> api'[m] = "none"
           /\ Phase(m)' = "open" <=> api'[m] # "none" /\ Open(row'[m])
           /\ Phase(m)' = "closed" <=> api'[m] # "none" /\ ~Open(row'[m])
BY DEF Phase, Open

-----------------------------------------------------------------------------
(* Its holder *)

\* Without a recorder given, the holder stays or gives the meeting back.
LEMMA HolderKeeps ==
    ASSUME OneRecorder, NEW m \in Meetings, GivesNone(m)
    PROVE  Holder(m)' = Holder(m) \/ (Holder(m) # NoHost /\ Holder(m)' = NoHost)
<1>1. CASE \E h \in Hosts : BusyWith(h, m)'
  <2>1. PICK h \in Hosts : Holder(m)' = h /\ BusyWith(h, m)'
    BY <1>1 DEF Holder, BusyWith, Claiming
  <2>2. BusyWith(h, m)
    BY <2>1 DEF GivesNone
  <2>3. Holder(m) \in Hosts /\ BusyWith(Holder(m), m)
    BY <2>2 DEF Holder
  <2>4. Holder(m) = h
    BY <2>2, <2>3 DEF OneRecorder
  <2> QED BY <2>1, <2>4
<1>2. CASE \A h \in Hosts : ~BusyWith(h, m)'
  <2>1. Holder(m)' = NoHost
    BY <1>2 DEF Holder, BusyWith, Claiming
  <2> QED BY <2>1
<1> QED BY <1>1, <1>2

LEMMA HolderGiven ==
    ASSUME NEW m \in Meetings, Given(m)
    PROVE  Holder(m) = NoHost /\ (Holder(m)' \in Hosts \/ Holder(m)' = NoHost)
<1>1. Holder(m) = NoHost
  BY DEF Given, Holder
<1>2. Holder(m)' \in Hosts \/ Holder(m)' = NoHost
  BY DEF Holder, BusyWith, Claiming
<1> QED BY <1>1, <1>2

\* The insert of a row gives the meeting to nobody.
LEMMA HolderStays ==
    ASSUME NEW m \in Meetings, UNCHANGED <<job, request, session>>
    PROVE  Holder(m)' = Holder(m)
BY DEF Holder, BusyWith, Claiming

-----------------------------------------------------------------------------
LEMMA InitLease == Init => Lease!Init
<1> SUFFICES ASSUME Init PROVE Lease!Init
  OBVIOUS
<1>1. ASSUME NEW m \in Meetings
      PROVE  Phase(m) = "unbooked" /\ Holder(m) = NoHost
  <2>1. \A h \in Hosts : ~BusyWith(h, m)
    BY DEF Init, BusyWith, Claiming, FreeJob, NoSession
  <2> QED BY <2>1 DEF Init, Phase, Holder
<1> QED BY <1>1 DEF Lease!Init

LEMMA StepMoves ==
    ASSUME Known, Tokens, OneRecorder, [Next]_vars, NEW m \in Meetings
    PROVE  Lease!Move(m)
<1> DEFINE p == Phase(m)
           h == Holder(m)
<1>1. Lease!PhaseStays(m) <=> p' = p
  BY DEF Lease!PhaseStays
<1>2. Lease!HolderStays(m) <=> h' = h
  BY DEF Lease!HolderStays
<1>3. Lease!GiveBack(m) <=> h # NoHost /\ h' = NoHost
  BY DEF Lease!GiveBack
<1>4. Lease!Close(m) <=> p = "open" /\ p' = "closed"
  BY DEF Lease!Close
<1>5. Lease!Book(m) <=> p = "unbooked" /\ p' = "open" /\ h' = h
  BY <1>2 DEF Lease!Book
<1>6. \A g \in Hosts : Lease!Give(m, g) <=> p = "open" /\ h = NoHost /\ h' = g /\ p' = p
  BY <1>1 DEF Lease!Give
<1>7. CASE /\ api[m] = "none" /\ api'[m] # "none" /\ row'[m] = Inserted
          /\ UNCHANGED <<job, request, session>>
  <2>1. p = "unbooked" /\ p' = "open"
    BY <1>7, PhaseOpens, PhaseNext DEF Open, Inserted
  <2>2. h' = h
    BY <1>7, HolderStays
  <2> QED BY <1>5, <2>1, <2>2 DEF Lease!Move
<1>8. CASE (api'[m] = "none" <=> api[m] = "none") /\ GivesNone(m)
  <2>1. p' = p \/ (p = "open" /\ p' = "closed")
    BY <1>8, PhaseOpens, PhaseNext, StaysClosed DEF Phase
  <2>2. h' = h \/ (h # NoHost /\ h' = NoHost)
    BY <1>8, HolderKeeps
  <2> QED BY <1>1, <1>2, <1>3, <1>4, <2>1, <2>2 DEF Lease!Move
<1>9. CASE Given(m)
  <2>1. p = "open" /\ p' = p
    BY <1>9, PhaseOpens, PhaseNext DEF Given
  <2>2. h = NoHost /\ (h' \in Hosts \/ h' = NoHost)
    BY <1>9, HolderGiven
  <2> QED BY <1>1, <1>2, <1>6, <2>1, <2>2 DEF Lease!Move
<1> QED BY <1>7, <1>8, <1>9, StepBooks, StepGives

\* The dispatch queue and all that races it implement the lease: a recorder gets an
\* open meeting that nobody has and by the claim alone, and what was closed is given to
\* nobody and never opens again (bot_dispatch.py:132-136, webhooks.py:58-62).
THEOREM LeaseImplemented ==
    ASSUME MaxLost = 0
    PROVE  Spec => ImplementsLease
<1>1. Known /\ Tokens /\ OneRecorder /\ [Next]_vars => Lease!Next
  BY StepMoves DEF Lease!Next
<1>2. IInv /\ IInv' /\ Unbooked /\ Unbooked' /\ Tokens /\ OneRecorder /\ [Next]_vars
         => [Lease!Next]_(Lease!vars)
  BY <1>1 DEF Known
<1> QED BY <1>2, InitLease, Invariance, UnbookedInvariant, TokensInvariant, OneRecorderAlways, PTL
       DEF Spec, ImplementsLease, Lease!Spec
=============================================================================
