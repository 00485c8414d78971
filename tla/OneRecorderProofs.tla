------------------------- MODULE OneRecorderProofs -------------------------
(***************************************************************************)
(* BotDispatch while no answer is lost, for any number of meetings,        *)
(* recorders, jobs and crashes.  A meeting has one token at most: a claim, *)
(* a join request on its way, or a session; it passes from one to the next *)
(* and none is left under a row that is queued.  From this follow          *)
(* OneRecorder, RecorderOnRecord and StoppedStaysStopped, none of which is *)
(* inductive.                                                              *)
(***************************************************************************)
EXTENDS BotDispatchProofs

Sent(m) == {q \in request : q.m = m}
HasBot(m) == \E h \in Hosts : session[h][m].stage # "none"
Pinged(m) == \E p \in ping : p.m = m
ClaimOn(j, m) == Claiming(j) /\ job[j].m = m

\* Nothing was asked of a recorder for m, or only in a join that was refused.
Quiet(m) == Sent(m) = {} /\ ~HasBot(m) /\ ~Pinged(m)

QueuedQuiet(m) == row[m].status = "queued" \/ api[m] = "none" => Quiet(m)

\* A claim is all there is of m but for the request it waits for.
ClaimAlone(m) ==
    \A j \in Jobs : ClaimOn(j, m) =>
        /\ ~HasBot(m) /\ ~Pinged(m)
        /\ Sent(m) = IF job[j].pc = "posted" THEN {JoinRequest(j)} ELSE {}

OneToken(m) ==
    /\ \A q, r \in Sent(m) : q = r
    /\ Sent(m) # {} => ~HasBot(m) /\ ~Pinged(m)
    /\ \A g, h \in Hosts :
          session[g][m].stage # "none" /\ session[h][m].stage # "none" => g = h

OnRecord(m) ==
    row[m].status \in Active => \A h \in Hosts : BusyWith(h, m) => row[m].host = h

StopKept(m) ==
    user[m].told =>
        /\ api[m] # "none" /\ row[m].status \in {"failed", "absent"}
        /\ Sent(m) = {} /\ ~HasBot(m) /\ \A j \in Jobs : ~ClaimOn(j, m)

MInv(m) == QueuedQuiet(m) /\ ClaimAlone(m) /\ OneToken(m) /\ OnRecord(m) /\ StopKept(m)

Known == IInv /\ Unbooked /\ IInv' /\ Unbooked'

-----------------------------------------------------------------------------
\* A step that brings m no new request, session, ping or claim, does not put its row
\* back in the queue, and does not move it to another recorder.
Calm(r, s) ==
    /\ s.status = "queued" => r.status = "queued"
    /\ s.status \in Active => r.status \in Active /\ s.host = r.host

LEMMA CalmWrites ==
    ASSUME NEW r \in RowType, r.status # "uploading"
    PROVE  /\ \A s \in {r, Absent, ForceFailed(r), FailQueued(r), Swept(r)} :
                 Calm(r, s) /\ (r.status \in {"failed", "absent"} => s.status \in {"failed", "absent"})
           /\ r.status # "queued" => \A s \in {AdmissionPing(r), RecordingPing(r)} :
                 Calm(r, s) /\ (r.status \in {"failed", "absent"} => s.status \in {"failed", "absent"})
           /\ \A outcome : \A s \in FinalReport(r, outcome) : Calm(r, s)
<1>1. \A s \in {r, Absent, ForceFailed(r), FailQueued(r), Swept(r)} :
         Calm(r, s) /\ (r.status \in {"failed", "absent"} => s.status \in {"failed", "absent"})
  BY DEF Calm, RowType, Absent, ForceFailed, FailQueued, Swept, Exists, Status, NonTerminal, Active
<1>2. r.status # "queued" => \A s \in {AdmissionPing(r), RecordingPing(r)} :
         Calm(r, s) /\ (r.status \in {"failed", "absent"} => s.status \in {"failed", "absent"})
  BY DEF Calm, RowType, AdmissionPing, RecordingPing, Exists, Status, NonTerminal, Active
<1>3. Calm(r, FailedReport(r)) /\ Calm(r, CompletedReport(r))
      /\ Calm(r, UndoCompleted(CompletedReport(r)))
  BY DEF Calm, RowType, FailedReport, CompletedReport, UndoCompleted, AcceptsCompleted, Exists,
         Status, NonTerminal, Active
<1> QED BY <1>1, <1>2, <1>3 DEF FinalReport

Less(m) ==
    /\ api'[m] = "none" => api[m] = "none"
    /\ Calm(row[m], row'[m])
    /\ Sent(m)' = Sent(m)
    /\ \A h \in Hosts : session'[h][m].stage # "none" => session[h][m].stage # "none"
    /\ Pinged(m)' => Pinged(m)
    /\ \A j \in Jobs : ClaimOn(j, m)' => job'[j] = job[j]

StopsHere(m) ==
    user'[m].told =>
        /\ user[m].told \/ row[m].status = "queued"
        /\ row'[m].status \in {"failed", "absent"}

LEMMA LessKeeps ==
    ASSUME Known, NEW m \in Meetings, MInv(m), Less(m), StopsHere(m)
    PROVE  MInv(m)'
<1>1. \A j \in Jobs : ClaimOn(j, m)' => ClaimOn(j, m) /\ job'[j] = job[j]
  BY DEF Less, ClaimOn, Claiming
<1>2. HasBot(m)' => HasBot(m)
  BY DEF Less, HasBot
<1>3. QueuedQuiet(m)'
  BY <1>2 DEF MInv, QueuedQuiet, Less, Calm, Quiet
<1>4. ClaimAlone(m)'
  BY <1>1, <1>2 DEF MInv, ClaimAlone, Less, JoinRequest
<1>5. OneToken(m)'
  BY <1>2 DEF MInv, OneToken, Less
<1>6. OnRecord(m)'
  <2>1. \A h \in Hosts : BusyWith(h, m)' => BusyWith(h, m)
    BY <1>1 DEF Less, BusyWith, ClaimOn, Sent
  <2> QED BY <2>1 DEF MInv, OnRecord, Less, Calm
<1>7. StopKept(m)'
  <2>1. row[m].status = "queued" => \A j \in Jobs : ~ClaimOn(j, m)
    BY DEF Known, IInv, ClaimedNotQueued, ClaimOn
  <2>2. row[m].status = "queued" => api[m] # "none"
    BY DEF Known, Unbooked, Exists
  <2> QED BY <1>1, <1>2, <2>1, <2>2 DEF MInv, StopKept, QueuedQuiet, Quiet, StopsHere, Less
<1> QED BY <1>3, <1>4, <1>5, <1>6, <1>7 DEF MInv

-----------------------------------------------------------------------------
(* Steps that touch a row at most                                          *)

\* Nothing but the row of k, its POST and its owner's request changes.
LEMMA RowOnly ==
    ASSUME Known, NEW m \in Meetings, MInv(m),
           UNCHANGED <<job, request, session, ping>>,
           api'[m] = "none" => api[m] = "none",
           Calm(row[m], row'[m]), StopsHere(m)
    PROVE  MInv(m)'
<1>1. Less(m)
  BY DEF Less, Sent, Pinged
<1> QED BY <1>1, LessKeeps

LEMMA SameRow ==
    ASSUME Known, NEW m \in Meetings, MInv(m), row'[m] = row[m], UNCHANGED user
    PROVE  Calm(row[m], row'[m]) /\ StopsHere(m)
<1>1. Calm(row[m], row'[m])
  BY DEF Calm
<1>2. StopsHere(m)
  BY DEF StopsHere, MInv, StopKept
<1> QED BY <1>1, <1>2

LEMMA RowFacts ==
    ASSUME Known, NEW m \in Meetings
    PROVE  /\ row[m] \in RowType /\ row[m].status # "uploading"
           /\ user[m] \in User /\ row'[m] \in RowType
           /\ api[m] = "none" => row[m].status = "absent"
BY DEF Known, IInv, TypeOK, NeverUploading, Unbooked, Exists

\* A row written by one of these statements stays where the owner's stop left it.
Plain(r) == {r, Absent, ForceFailed(r), FailQueued(r), Swept(r)}

LEMMA PlainKeeps ==
    ASSUME Known, NEW m \in Meetings, MInv(m),
           UNCHANGED <<job, request, session, ping>>,
           api'[m] = "none" => api[m] = "none",
           row'[m] \in Plain(row[m]),
           user'[m].told => user[m].told \/ (row[m].status = "queued" /\ row'[m].status = "failed")
    PROVE  MInv(m)'
<1>1. Calm(row[m], row'[m])
      /\ (row[m].status \in {"failed", "absent"} => row'[m].status \in {"failed", "absent"})
  BY RowFacts, CalmWrites DEF Plain
<1>2. StopsHere(m)
  BY <1>1 DEF StopsHere, MInv, StopKept
<1> QED BY <1>1, <1>2, RowOnly

LEMMA CreateKeeps ==
    ASSUME Known, NEW m \in Meetings, MInv(m), NEW k \in Meetings, CreateStep(k)
    PROVE  MInv(m)'
<1>1. CASE CreateMeeting(k)
  <2>1. CASE m = k
    <3>1. /\ api[m] = "none" /\ api'[m] = "inserted" /\ row'[m] = Inserted
          /\ UNCHANGED <<job, request, session, ping, user>>
      BY <1>1, <2>1 DEF CreateMeeting, Known, IInv, TypeOK
    <3>2. Quiet(m) /\ ~user[m].told
      BY <3>1 DEF MInv, QueuedQuiet, StopKept
    <3>3. \A j \in Jobs : ~ClaimOn(j, m)
      BY <3>1 DEF Known, IInv, JobsSound, ClaimOn, Claiming
    <3>4. Quiet(m)' /\ ~user'[m].told /\ \A j \in Jobs : ~ClaimOn(j, m)'
      BY <3>1, <3>2, <3>3 DEF Quiet, Sent, HasBot, Pinged, ClaimOn, Claiming
    <3>5. row'[m].status = "queued"
      BY <3>1 DEF Inserted
    <3> QED BY <3>4, <3>5 DEF MInv, QueuedQuiet, ClaimAlone, OneToken, Quiet, HasBot, OnRecord, Active, StopKept
  <2>2. CASE m # k
    <3>1. row'[m] = row[m] /\ api'[m] = api[m] /\ UNCHANGED <<job, request, session, ping, user>>
      BY <1>1, <2>2 DEF CreateMeeting, Known, IInv, TypeOK
    <3> QED BY <3>1, SameRow, RowOnly
  <2> QED BY <2>1, <2>2
<1>2. ASSUME NEW j \in Jobs, EnqueueDispatch(k, j)
      PROVE  MInv(m)'
  <2>1. /\ UNCHANGED <<row, request, session, ping, user>>
        /\ api[k] = "inserted" /\ api' = [api EXCEPT ![k] = "enqueued"]
        /\ job' = [job EXCEPT ![j] = NewJob(k, 1)]
    BY <1>2 DEF EnqueueDispatch
  <2>2. \A i \in Jobs : ClaimOn(i, m)' => job'[i] = job[i]
    BY <2>1 DEF Known, IInv, TypeOK, ClaimOn, Claiming, NewJob
  <2>3. Less(m)
    BY <2>1, <2>2, SameRow DEF Less, Sent, Pinged, Known, IInv, TypeOK
  <2> QED BY <2>1, <2>3, SameRow, LessKeeps
<1>3. CASE CreateReturns(k) \/ CreateFails(k)
  <2>1. /\ UNCHANGED <<job, request, session, ping, user>>
        /\ api' = [api EXCEPT ![k] = "done"]
        /\ row' = row \/ row' = [row EXCEPT ![k] = ForceFailed(row[k])]
    BY <1>3 DEF CreateReturns, CreateFails
  <2>2. row'[m] \in Plain(row[m]) /\ (api'[m] = "none" => api[m] = "none")
    BY <2>1 DEF Known, IInv, TypeOK, Plain
  <2> QED BY <2>1, <2>2, PlainKeeps
<1> QED BY <1>1, <1>2, <1>3 DEF CreateStep

LEMMA BackendSteps ==
    ASSUME Known, NEW m \in Meetings, MInv(m), NEW k \in Meetings, Sweep(k) \/ TranscriptionEnds(k)
    PROVE  MInv(m)'
<1>1. UNCHANGED <<api, job, request, session, ping, user>>
  BY DEF Sweep, TranscriptionEnds
<1>2. CASE Sweep(k)
  <2>1. row'[m] \in Plain(row[m])
    BY <1>2 DEF Sweep, Plain, Known, IInv, TypeOK
  <2> QED BY <1>1, <2>1, PlainKeeps
<1>3. CASE TranscriptionEnds(k)
  <2>1. PICK outcome \in {"completed", "failed"} :
           row' = [row EXCEPT ![k] = [row[k] EXCEPT !.status = outcome]]
    BY <1>3, Zenon DEF TranscriptionEnds
  <2>2. row[k].status = "transcribing"
    BY <1>3 DEF TranscriptionEnds
  <2>3. CASE m # k
    BY <1>1, <2>1, <2>3, SameRow, RowOnly DEF Known, IInv, TypeOK
  <2>4. CASE m = k
    <3>1. row'[m].status = outcome
      BY <2>1, <2>4, RowFacts DEF Known, IInv, TypeOK, RowType
    <3>2. Calm(row[m], row'[m]) /\ StopsHere(m)
      BY <1>1, <2>2, <2>4, <3>1 DEF Calm, Active, StopsHere, MInv, StopKept
    <3> QED BY <1>1, <3>2, RowOnly
  <2> QED BY <2>3, <2>4
<1> QED BY <1>2, <1>3

\* A ping finds no row that is queued, so it revives nothing.
LEMMA PingKeeps ==
    ASSUME Known, NEW m \in Meetings, MInv(m), NEW p \in ping, ReceivePing(p)
    PROVE  MInv(m)'
<1>1. /\ ping' = ping \ {p} /\ p.m \in Meetings
      /\ UNCHANGED <<api, job, request, session, user>>
      /\ \/ row'[m] = row[m]
         \/ p.m = m /\ row'[m] \in {AdmissionPing(row[m]), RecordingPing(row[m])}
  <2>1. p.m \in Meetings /\ row \in [Meetings -> RowType]
    BY DEF Known, IInv, TypeOK, Ping
  <2> QED BY <2>1 DEF ReceivePing
<1>2. CASE row'[m] = row[m]
  <2>1. Calm(row[m], row'[m]) /\ StopsHere(m)
    BY <1>1, <1>2, SameRow
  <2>2. Less(m)
    BY <1>1, <2>1 DEF Less, Sent, Pinged
  <2> QED BY <2>1, <2>2, LessKeeps
<1>3. CASE p.m = m /\ row'[m] \in {AdmissionPing(row[m]), RecordingPing(row[m])}
  <2>1. row[m].status # "queued"
    BY <1>3 DEF MInv, QueuedQuiet, Quiet, Pinged
  <2>2. Calm(row[m], row'[m])
        /\ (row[m].status \in {"failed", "absent"} => row'[m].status \in {"failed", "absent"})
    BY <1>3, <2>1, RowFacts, CalmWrites
  <2>3. StopsHere(m)
    BY <1>1, <2>2 DEF StopsHere, MInv, StopKept
  <2>4. Less(m)
    BY <1>1, <2>2 DEF Less, Sent, Pinged
  <2> QED BY <2>3, <2>4, LessKeeps
<1> QED BY <1>1, <1>2, <1>3

-----------------------------------------------------------------------------
(* The owner                                                               *)

LEMMA SessionsLess ==
    ASSUME Known, NEW m \in Meetings, MInv(m), UNCHANGED <<row, api, job, request, user>>,
           \A h \in Hosts : session'[h][m].stage # "none" => session[h][m].stage # "none",
           Pinged(m)' => Pinged(m)
    PROVE  MInv(m)'
<1>1. Calm(row[m], row'[m]) /\ StopsHere(m)
  BY SameRow
<1>2. Less(m)
  BY <1>1 DEF Less, Sent
<1> QED BY <1>1, <1>2, LessKeeps

LEMMA CancelAddsNone ==
    ASSUME Known, NEW k \in Meetings, NEW g, session' = Cancelled(g, k), NEW h \in Hosts, NEW m \in Meetings
    PROVE  session'[h][m].stage = session[h][m].stage
<1>1. session \in [Hosts -> [Meetings -> Session]] /\ session[h][m] \in Session
  BY DEF Known, IInv, TypeOK
<1>2. [session[h][m] EXCEPT !.cancel = TRUE].stage = session[h][m].stage
  BY <1>1 DEF Session
<1>3. CASE session' = [session EXCEPT ![g][k].cancel = TRUE]
  <2>1. CASE g = h /\ k = m
    BY <1>1, <1>2, <1>3, <2>1
  <2>2. CASE ~(g = h /\ k = m)
    BY <1>1, <1>3, <2>2
  <2> QED BY <2>1, <2>2
<1> QED BY <1>3 DEF Cancelled

LEMMA UserKeeps ==
    ASSUME Known, NEW m \in Meetings, MInv(m), NEW k \in Meetings, UserStep(k)
    PROVE  MInv(m)'
<1>1. user \in [Meetings -> User] /\ row \in [Meetings -> RowType]
  BY DEF Known, IInv, TypeOK
<1>2. CASE StopRead(k) \/ RefreshRow(k) \/ DeleteRead(k)
  <2>1. UNCHANGED <<row, api, job, request, session, ping>> /\ user'[m].told = user[m].told
    BY <1>1, <1>2 DEF StopRead, RefreshRow, DeleteRead, User
  <2>2. row'[m] \in Plain(row[m])
    BY <2>1 DEF Plain
  <2> QED BY <2>1, <2>2, PlainKeeps
<1>3. CASE CancelQueued(k)
  <2>1. UNCHANGED <<api, job, request, session, ping>> /\ row'[m] \in Plain(row[m])
    BY <1>1, <1>3 DEF CancelQueued, Plain
  <2>2. m # k => user'[m] = user[m]
    BY <1>1, <1>3 DEF CancelQueued
  <2>3. m = k => row'[m] = FailQueued(row[m])
    BY <1>1, <1>3 DEF CancelQueued
  <2>4. m = k => \/ row[m].status = "queued"
                \/ user'[m].told = user[m].told
    BY <1>1, <1>3 DEF CancelQueued, User
  <2>5. row[m].status = "queued" => FailQueued(row[m]).status = "failed"
    BY <1>1 DEF FailQueued, RowType
  <2> QED BY <2>1, <2>2, <2>3, <2>4, <2>5, PlainKeeps
<1>4. CASE StopBot(k) \/ DeleteStopsBot(k)
  <2>1. /\ UNCHANGED <<row, api, job, request, ping>> /\ user'[m].told = user[m].told
        /\ session' = session \/ session' = Cancelled(user[k].host, k)
    BY <1>1, <1>4 DEF StopBot, DeleteStopsBot, User
  <2>2. \A h \in Hosts : session'[h][m].stage # "none" => session[h][m].stage # "none"
    BY <2>1, CancelAddsNone
  <2>3. Calm(row[m], row'[m]) /\ StopsHere(m)
    BY <2>1 DEF Calm, StopsHere, MInv, StopKept
  <2>4. Less(m)
    BY <2>1, <2>2, <2>3 DEF Less, Sent, Pinged
  <2> QED BY <2>3, <2>4, LessKeeps
<1>5. CASE DeleteRow(k)
  <2>1. /\ UNCHANGED <<api, job, request, session, ping>> /\ user'[m].told = user[m].told
        /\ row'[m] \in Plain(row[m])
    BY <1>1, <1>5 DEF DeleteRow, User, Plain
  <2> QED BY <2>1, PlainKeeps
<1> QED BY <1>2, <1>3, <1>4, <1>5 DEF UserStep

-----------------------------------------------------------------------------
(* The recorder                                                            *)

\* A session says where it is, and only of its own meeting.
LEMMA SessionKeeps ==
    ASSUME Known, NEW m \in Meetings, MInv(m), NEW h \in Hosts, NEW k \in Meetings, SessionStep(h, k)
    PROVE  MInv(m)'
<1>1. session \in [Hosts -> [Meetings -> Session]] /\ row \in [Meetings -> RowType]
  BY DEF Known, IInv, TypeOK
<1>2. session[h][k].stage # "none"
  BY DEF SessionStep, JoinSucceeds, Admitted, SessionFails, MeetingEnds, UploadEnds, NotifyBackend, Active
<1>3. \A g \in Hosts : session'[g][m].stage # "none" => session[g][m].stage # "none"
  <2>1. ASSUME NEW g \in Hosts, ~(g = h /\ k = m)
        PROVE  session'[g][m] = session[g][m]
    BY <1>1, <2>1 DEF SessionStep, JoinSucceeds, Admitted, SessionFails, MeetingEnds, UploadEnds, NotifyBackend
  <2> QED BY <1>2, <2>1
<1>4. CASE SessionFails(h, k) \/ MeetingEnds(h, k) \/ UploadEnds(h, k)
  <2>1. UNCHANGED <<row, api, job, request, ping, user>>
    BY <1>4 DEF SessionFails, MeetingEnds, UploadEnds
  <2> QED BY <1>3, <2>1, SessionsLess DEF Pinged
<1>5. CASE JoinSucceeds(h, k) \/ Admitted(h, k)
  <2>1. /\ UNCHANGED <<row, api, job, request, user>>
        /\ \A p \in ping' : p \in ping \/ p.m = k
    BY <1>5 DEF JoinSucceeds, Admitted
  <2>2. CASE m # k
    BY <1>3, <2>1, <2>2, SessionsLess DEF Pinged
  <2>3. CASE m = k
    <3>1. HasBot(m)
      BY <1>2, <2>3 DEF HasBot
    <3>2. Sent(m) = {} /\ ~(row[m].status = "queued") /\ api[m] # "none"
          /\ \A j \in Jobs : ~ClaimOn(j, m)
      BY <3>1 DEF MInv, OneToken, QueuedQuiet, Quiet, ClaimAlone
    <3>3. Sent(m)' = {} /\ \A j \in Jobs : ~ClaimOn(j, m)'
      BY <2>1, <3>2 DEF Sent, ClaimOn, Claiming
    <3>4. QueuedQuiet(m)' /\ ClaimAlone(m)'
      BY <2>1, <3>2, <3>3 DEF QueuedQuiet, ClaimAlone
    <3>5. OneToken(m)'
      BY <1>3, <3>3 DEF MInv, OneToken
    <3>6. OnRecord(m)'
      <4>1. \A g \in Hosts : BusyWith(g, m)' => BusyWith(g, m)
        BY <1>3, <2>1 DEF BusyWith, Claiming
      <4> QED BY <2>1, <4>1 DEF MInv, OnRecord
    <3>7. StopKept(m)'
      BY <2>1, <3>1 DEF MInv, StopKept
    <3> QED BY <3>4, <3>5, <3>6, <3>7 DEF MInv
  <2> QED BY <2>2, <2>3
<1>6. CASE NotifyBackend(h, k)
  <2>1. UNCHANGED <<api, job, request, ping, user>>
    BY <1>6 DEF NotifyBackend
  <2>2. \/ row'[m] = row[m]
        \/ m = k /\ \E outcome : row'[m] \in FinalReport(row[m], outcome)
    BY <1>1, <1>6 DEF NotifyBackend
  <2>3. Calm(row[m], row'[m])
    BY <2>1, <2>2, RowFacts, CalmWrites DEF Calm
  <2>4. m = k => HasBot(m)
    BY <1>2 DEF HasBot
  <2>5. StopsHere(m)
    BY <2>1, <2>2, <2>4 DEF StopsHere, MInv, StopKept
  <2>6. Less(m)
    BY <1>3, <2>1, <2>3 DEF Less, Sent, Pinged
  <2> QED BY <2>5, <2>6, LessKeeps
<1> QED BY <1>4, <1>5, <1>6 DEF SessionStep

-----------------------------------------------------------------------------
(* The jobs                                                                *)

\* Jobs move, and none to a claim.
LEMMA JobsOnly ==
    ASSUME Known, NEW m \in Meetings, MInv(m), UNCHANGED <<api, request, session, ping, user>>,
           row'[m] \in Plain(row[m]),
           \A j \in Jobs : ClaimOn(j, m)' => job'[j] = job[j]
    PROVE  MInv(m)'
<1>1. Calm(row[m], row'[m])
      /\ (row[m].status \in {"failed", "absent"} => row'[m].status \in {"failed", "absent"})
  BY RowFacts, CalmWrites DEF Plain
<1>2. StopsHere(m)
  BY <1>1 DEF StopsHere, MInv, StopKept
<1>3. Less(m)
  BY <1>1 DEF Less, Sent, Pinged
<1> QED BY <1>2, <1>3, LessKeeps

\* The claim wins a queued row, of which nothing is left at any recorder.
LEMMA ClaimKeeps ==
    ASSUME Known, NEW m \in Meetings, MInv(m), NEW j \in Jobs, ClaimMeeting(j)
    PROVE  MInv(m)'
<1> DEFINE k == job[j].m
<1>1. /\ job \in [Jobs -> Job] /\ row \in [Meetings -> RowType] /\ k \in Meetings
      /\ job[j].pc = "chosen" /\ job[j].host \in Hosts
      /\ UNCHANGED <<api, request, session, ping, user>>
  BY DEF ClaimMeeting, Known, IInv, TypeOK, JobsSound
<1>2. CASE row[k].status # "queued"
  <2>1. job' = [job EXCEPT ![j] = FreeJob] /\ row' = row
    BY <1>1, <1>2 DEF ClaimMeeting, ClaimQueued
  <2>2. \A i \in Jobs : ClaimOn(i, m)' => job'[i] = job[i]
    BY <1>1, <2>1 DEF ClaimOn, Claiming, FreeJob
  <2> QED BY <1>1, <2>1, <2>2, JobsOnly DEF Plain
<1>3. CASE row[k].status = "queued"
  <2>1. /\ job' = [job EXCEPT ![j].pc = "posting"]
        /\ row' = [row EXCEPT ![k] = ClaimQueued(@, job[j].host)]
    BY <1>3 DEF ClaimMeeting
  <2>2. /\ job'[j].pc = "posting" /\ job'[j].m = k /\ job'[j].host = job[j].host
        /\ \A i \in Jobs : i # j => job'[i] = job[i]
    BY <1>1, <2>1 DEF Job
  <2>3. CASE m # k
    <3>1. \A i \in Jobs : ClaimOn(i, m)' => job'[i] = job[i]
      BY <2>2, <2>3 DEF ClaimOn
    <3>2. row'[m] = row[m]
      BY <1>1, <2>1, <2>3
    <3> QED BY <1>1, <3>1, <3>2, JobsOnly DEF Plain
  <2>4. CASE m = k
    <3>1. Quiet(m) /\ \A i \in Jobs : ~ClaimOn(i, m)
      BY <1>3, <2>4 DEF MInv, QueuedQuiet, Known, IInv, ClaimedNotQueued, ClaimOn
    <3>2. Quiet(m)' /\ \A i \in Jobs : ClaimOn(i, m)' => i = j
      BY <1>1, <2>2, <3>1 DEF Quiet, Sent, HasBot, Pinged, ClaimOn, Claiming
    <3>3. row'[m].status = "joining" /\ row'[m].host = job[j].host
      BY <1>1, <1>3, <2>1, <2>4 DEF ClaimQueued, RowType
    <3>4. ~user[m].told
      BY <1>3, <2>4 DEF MInv, StopKept
    <3>5. QueuedQuiet(m)' /\ ClaimAlone(m)' /\ OneToken(m)' /\ StopKept(m)'
      BY <1>1, <2>2, <3>2, <3>4 DEF QueuedQuiet, ClaimAlone, OneToken, StopKept, Quiet, HasBot
    <3>6. \A h \in Hosts : BusyWith(h, m)' => h = job[j].host
      BY <2>2, <3>2 DEF BusyWith, ClaimOn, Quiet, Sent, HasBot
    <3> QED BY <3>3, <3>5, <3>6 DEF MInv, OnRecord
  <2> QED BY <2>3, <2>4
<1> QED BY <1>2, <1>3

\* The one claim on a meeting, and what is left of it.
LEMMA TheClaim ==
    ASSUME Known, NEW m \in Meetings, MInv(m), NEW j \in Jobs, ClaimOn(j, m)
    PROVE  /\ ~HasBot(m) /\ ~Pinged(m)
           /\ Sent(m) = IF job[j].pc = "posted" THEN {JoinRequest(j)} ELSE {}
           /\ \A i \in Jobs : ClaimOn(i, m) => i = j
           /\ row[m].status # "queued" /\ api[m] # "none" /\ ~user[m].told
           /\ job[j].host \in Hosts /\ job[j] \in Job
           /\ row[m].status \in Active => row[m].host = job[j].host
<1>1. \A i \in Jobs : ClaimOn(i, m) => i = j
  BY DEF Known, IInv, ClaimExclusive, ClaimOn
<1>2. row[m].status # "queued" /\ api[m] # "none" /\ job[j].host \in Hosts /\ job[j] \in Job
  BY DEF Known, IInv, ClaimedNotQueued, JobsSound, TypeOK, ClaimOn, Claiming
<1>3. BusyWith(job[j].host, m)
  BY DEF BusyWith, ClaimOn
<1> QED BY <1>1, <1>2, <1>3 DEF MInv, ClaimAlone, StopKept, OnRecord

LEMMA PostKeeps ==
    ASSUME Known, NEW m \in Meetings, MInv(m), NEW j \in Jobs, PostJoin(j)
    PROVE  MInv(m)'
<1> DEFINE k == job[j].m
<1>1. /\ job \in [Jobs -> Job] /\ k \in Meetings /\ job[j].pc = "posting" /\ ClaimOn(j, k)
      /\ request' = request \cup {JoinRequest(j)} /\ UNCHANGED <<row, api, session, ping, user>>
      /\ job' = [job EXCEPT ![j].pc = "posted"]
  BY DEF PostJoin, Known, IInv, TypeOK, JobsSound, ClaimOn, Claiming
<1>2. /\ job'[j].pc = "posted" /\ job'[j].m = k /\ job'[j].host = job[j].host
      /\ JoinRequest(j)' = JoinRequest(j) /\ JoinRequest(j).m = k /\ JoinRequest(j).h = job[j].host
      /\ \A i \in Jobs : i # j => job'[i] = job[i]
  BY <1>1 DEF Job, JoinRequest
<1>3. CASE m # k
  <2>1. Sent(m)' = Sent(m) /\ \A i \in Jobs : ClaimOn(i, m)' => job'[i] = job[i]
    BY <1>1, <1>2, <1>3 DEF Sent, ClaimOn
  <2>2. Calm(row[m], row'[m]) /\ StopsHere(m)
    BY <1>1, SameRow
  <2>3. Less(m)
    BY <1>1, <2>1, <2>2 DEF Less, Pinged
  <2> QED BY <2>2, <2>3, LessKeeps
<1>4. CASE m = k
  <2>1. /\ ~HasBot(m) /\ ~Pinged(m) /\ Sent(m) = {} /\ \A i \in Jobs : ClaimOn(i, m) => i = j
        /\ row[m].status # "queued" /\ api[m] # "none" /\ ~user[m].told
        /\ row[m].status \in Active => row[m].host = job[j].host
    BY <1>1, <1>4, TheClaim
  <2>2. ~HasBot(m)' /\ ~Pinged(m)' /\ Sent(m)' = {JoinRequest(j)}
        /\ \A i \in Jobs : ClaimOn(i, m)' => i = j
    BY <1>1, <1>2, <1>4, <2>1 DEF HasBot, Pinged, Sent, ClaimOn, Claiming
  <2>3. QueuedQuiet(m)' /\ ClaimAlone(m)' /\ OneToken(m)' /\ StopKept(m)'
    BY <1>1, <1>2, <2>1, <2>2 DEF QueuedQuiet, ClaimAlone, OneToken, StopKept, HasBot
  <2>4. \A h \in Hosts : BusyWith(h, m)' => h = job[j].host
    BY <1>2, <2>2 DEF BusyWith, ClaimOn, Sent, HasBot
  <2> QED BY <1>1, <2>1, <2>3, <2>4 DEF MInv, OnRecord
<1> QED BY <1>3, <1>4

\* The request is gone, at the recorder or on the way to it, and the job knows.
LEMMA RefusedKeeps ==
    ASSUME Known, NEW m \in Meetings, MInv(m), NEW j \in Jobs, job[j].pc = "posted",
           request' = request \ {JoinRequest(j)}, UNCHANGED <<row, api, session, ping, user>>,
           job' = [job EXCEPT ![j].pc = "refused"]
    PROVE  MInv(m)'
<1> DEFINE k == job[j].m
<1>1. job \in [Jobs -> Job] /\ k \in Meetings /\ ClaimOn(j, k)
  BY DEF Known, IInv, TypeOK, JobsSound, ClaimOn, Claiming
<1>2. /\ job'[j].pc = "refused" /\ job'[j].m = k /\ job'[j].host = job[j].host
      /\ JoinRequest(j).m = k /\ \A i \in Jobs : i # j => job'[i] = job[i]
  BY <1>1 DEF Job, JoinRequest
<1>3. CASE m # k
  <2>1. Sent(m)' = Sent(m) /\ \A i \in Jobs : ClaimOn(i, m)' => job'[i] = job[i]
    BY <1>1, <1>2, <1>3 DEF Sent, ClaimOn
  <2>2. Calm(row[m], row'[m]) /\ StopsHere(m)
    BY SameRow
  <2>3. Less(m)
    BY <2>1, <2>2 DEF Less, Pinged
  <2> QED BY <2>2, <2>3, LessKeeps
<1>4. CASE m = k
  <2>1. /\ ~HasBot(m) /\ ~Pinged(m) /\ Sent(m) = {JoinRequest(j)} /\ \A i \in Jobs : ClaimOn(i, m) => i = j
        /\ row[m].status # "queued" /\ api[m] # "none" /\ ~user[m].told
        /\ row[m].status \in Active => row[m].host = job[j].host
    BY <1>1, <1>4, TheClaim
  <2>2. ~HasBot(m)' /\ ~Pinged(m)' /\ Sent(m)' = {} /\ \A i \in Jobs : ClaimOn(i, m)' => i = j
    BY <1>1, <1>2, <1>4, <2>1 DEF HasBot, Pinged, Sent, ClaimOn, Claiming
  <2>3. QueuedQuiet(m)' /\ ClaimAlone(m)' /\ OneToken(m)' /\ StopKept(m)'
    BY <1>1, <1>2, <2>1, <2>2 DEF QueuedQuiet, ClaimAlone, OneToken, StopKept, HasBot
  <2>4. \A h \in Hosts : BusyWith(h, m)' => h = job[j].host
    BY <1>2, <2>2 DEF BusyWith, ClaimOn, Sent, HasBot
  <2> QED BY <1>1, <2>1, <2>3, <2>4 DEF MInv, OnRecord
<1> QED BY <1>3, <1>4

\* The row goes back to the queue when nothing is left of the claim.
LEMMA ReturnKeeps ==
    ASSUME Known, NEW m \in Meetings, MInv(m), NEW j \in Jobs, ReturnToQueue(j)
    PROVE  MInv(m)'
<1> DEFINE k == job[j].m
<1>1. /\ job \in [Jobs -> Job] /\ row \in [Meetings -> RowType] /\ k \in Meetings
      /\ job[j].pc = "refused" /\ ClaimOn(j, k) /\ UNCHANGED <<api, request, session, ping, user>>
      /\ row' = [row EXCEPT ![k] = ReturnQueued(@)]
      /\ job' = [job EXCEPT ![j].pc = "waiting", ![j].host = NoHost]
  BY DEF ReturnToQueue, Known, IInv, TypeOK, JobsSound, ClaimOn, Claiming
<1>2. job'[j].pc = "waiting" /\ \A i \in Jobs : i # j => job'[i] = job[i]
  BY <1>1 DEF Job
<1>3. CASE m # k
  <2>1. row'[m] = row[m] /\ \A i \in Jobs : ClaimOn(i, m)' => job'[i] = job[i]
    BY <1>1, <1>2, <1>3 DEF ClaimOn, Claiming
  <2> QED BY <1>1, <2>1, JobsOnly DEF Plain
<1>4. CASE m = k
  <2>1. /\ ~HasBot(m) /\ ~Pinged(m) /\ Sent(m) = {} /\ \A i \in Jobs : ClaimOn(i, m) => i = j
        /\ api[m] # "none" /\ ~user[m].told
    BY <1>1, <1>4, TheClaim
  <2>2. ~HasBot(m)' /\ ~Pinged(m)' /\ Sent(m)' = {} /\ \A i \in Jobs : ~ClaimOn(i, m)'
    BY <1>1, <1>2, <2>1 DEF HasBot, Pinged, Sent, ClaimOn, Claiming
  <2>3. \A h \in Hosts : ~BusyWith(h, m)'
    BY <2>2 DEF BusyWith, ClaimOn, Sent, HasBot
  <2> QED BY <1>1, <2>1, <2>2, <2>3
      DEF MInv, QueuedQuiet, ClaimAlone, OneToken, OnRecord, StopKept, Quiet, HasBot
<1> QED BY <1>3, <1>4

LEMMA JobKeeps ==
    ASSUME MaxLost = 0, Known, NEW m \in Meetings, MInv(m), NEW j \in Jobs, JobStep(j)
    PROVE  MInv(m)'
<1>1. job \in [Jobs -> Job] /\ row \in [Meetings -> RowType] /\ (job[j].pc # "free" => job[j].m \in Meetings)
  BY DEF Known, IInv, TypeOK, JobsSound
<1>2. CASE ReadMeeting(j) \/ ChooseHost(j) \/ Requeue(j) \/ RecordDispatchExhausted(j)
  <2>1. UNCHANGED <<api, request, session, ping, user>>
    BY <1>2 DEF ReadMeeting, ChooseHost, Requeue, RecordDispatchExhausted
  <2>2. row'[m] \in Plain(row[m])
    BY <1>1, <1>2 DEF ReadMeeting, ChooseHost, Requeue, RecordDispatchExhausted, Plain
  <2>3. ~Claiming(j)' /\ \A i \in Jobs : i # j => job'[i] = job[i]
    BY <1>1, <1>2 DEF ReadMeeting, ChooseHost, Requeue, RecordDispatchExhausted, Claiming, NewJob, FreeJob, Job
  <2> QED BY <2>1, <2>2, <2>3, JobsOnly DEF ClaimOn
<1>3. CASE ConnectFails(j)
  BY <1>3, RefusedKeeps DEF ConnectFails
<1>4. CASE JoinTimesOut(j)
  <2>1. ClaimOn(j, job[j].m) /\ job[j].m \in Meetings /\ job[j].pc = "posted"
    BY <1>1, <1>4 DEF JoinTimesOut, ClaimOn, Claiming
  <2>2. lost \in 0..0
    BY DEF Known, IInv, TypeOK
  <2>3. JoinRequest(j) \notin request
    BY <1>4, <2>2 DEF JoinTimesOut
  <2>4. request' = request \ {JoinRequest(j)} /\ UNCHANGED <<row, api, session, ping, user>>
        /\ job' = [job EXCEPT ![j].pc = "refused"]
    BY <1>4, <2>3 DEF JoinTimesOut
  <2> QED BY <2>1, <2>4, RefusedKeeps
<1> QED BY <1>2, <1>3, <1>4, ClaimKeeps, PostKeeps, ReturnKeeps DEF JobStep

-----------------------------------------------------------------------------
(* The answer, and the faults                                              *)

\* The request of a claim is its own; of one without a claim nobody hears.
LEMMA RequestOfClaim ==
    ASSUME Known, NEW m \in Meetings, MInv(m), NEW q \in request, q.m = m
    PROVE  /\ \A j \in Jobs : ClaimOn(j, m) => j = q.j /\ job[j].pc = "posted" /\ JoinRequest(j) = q
           /\ Sent(m) = {q} /\ ~HasBot(m) /\ ~Pinged(m)
           /\ row[m].status # "queued" /\ api[m] # "none" /\ ~user[m].told
           /\ row[m].status \in Active => row[m].host = q.h
           /\ q.h \in Hosts /\ q.j \in Jobs
<1>1. q \in Request /\ q \in Sent(m)
  BY DEF Known, IInv, TypeOK, Sent
<1>2. BusyWith(q.h, m)
  BY DEF BusyWith
<1>3. \A j \in Jobs : JoinRequest(j).j = j
  BY DEF JoinRequest
<1>4. q.h \in Hosts /\ q.j \in Jobs
  BY <1>1 DEF Request
<1>5. Sent(m) = {q} /\ ~HasBot(m) /\ ~Pinged(m)
  BY <1>1 DEF MInv, OneToken
<1>6. row[m].status # "queued" /\ api[m] # "none" /\ ~user[m].told
  BY <1>1 DEF MInv, QueuedQuiet, Quiet, StopKept
<1>7. ASSUME NEW j \in Jobs, ClaimOn(j, m)
      PROVE  j = q.j /\ job[j].pc = "posted" /\ JoinRequest(j) = q
  <2>1. Sent(m) = IF job[j].pc = "posted" THEN {JoinRequest(j)} ELSE {}
    BY <1>7, TheClaim
  <2> QED BY <1>1, <1>3, <2>1
<1> QED BY <1>2, <1>4, <1>5, <1>6, <1>7 DEF MInv, OnRecord

LEMMA ReceiveKeeps ==
    ASSUME MaxLost = 0, Known, NEW m \in Meetings, MInv(m), NEW q \in request, ReceiveJoin(q)
    PROVE  MInv(m)'
<1> DEFINE mine == job[q.j].pc = "posted" /\ JoinRequest(q.j) = q
<1>1. /\ request' = request \ {q} /\ UNCHANGED <<row, api, ping, user>>
      /\ job \in [Jobs -> Job] /\ session \in [Hosts -> [Meetings -> Session]]
      /\ q.m \in Meetings /\ q.h \in Hosts /\ q.j \in Jobs
  BY DEF ReceiveJoin, Known, IInv, TypeOK, Request
<1>2. lost \in 0..0
  BY DEF Known, IInv, TypeOK
<1>3. \/ /\ session' = [session EXCEPT ![q.h][q.m] = NewSession]
         /\ job' = IF mine THEN [job EXCEPT ![q.j] = FreeJob] ELSE job
      \/ /\ UNCHANGED session
         /\ job' = IF mine THEN [job EXCEPT ![q.j].pc = "refused"] ELSE job
  BY <1>2 DEF ReceiveJoin, Answered
<1>4. \A i \in Jobs : i # q.j \/ ~mine => job'[i] = job[i]
  BY <1>1, <1>3
<1>5. mine => job[q.j].m = q.m /\ job[q.j].host = q.h /\ ClaimOn(q.j, q.m)
  BY DEF JoinRequest, ClaimOn, Claiming
<1>6. mine => job'[q.j].m \in {q.m, NoMeeting} /\ (job'[q.j].pc = "refused" \/ ~Claiming(q.j)')
  <2>1. mine => job'[q.j] = FreeJob \/ job'[q.j] = [job[q.j] EXCEPT !.pc = "refused"]
    BY <1>1, <1>3
  <2> QED BY <1>1, <1>5, <2>1 DEF Job, FreeJob, Claiming
<1>7. CASE m # q.m
  <2>1. Sent(m)' = Sent(m)
    BY <1>1, <1>7 DEF Sent
  <2>2. \A i \in Jobs : ClaimOn(i, m)' => job'[i] = job[i]
    BY <1>4, <1>6, <1>7, DispatchAssumption DEF ClaimOn
  <2>3. \A h \in Hosts : session'[h][m] = session[h][m]
    BY <1>1, <1>3, <1>7
  <2>4. Calm(row[m], row'[m]) /\ StopsHere(m)
    BY <1>1, SameRow
  <2>5. Less(m)
    BY <1>1, <2>1, <2>2, <2>3, <2>4 DEF Less, Pinged
  <2> QED BY <2>4, <2>5, LessKeeps
<1>8. CASE m = q.m
  <2>1. /\ \A j \in Jobs : ClaimOn(j, m) => j = q.j /\ mine
        /\ Sent(m) = {q} /\ ~HasBot(m) /\ ~Pinged(m)
        /\ row[m].status # "queued" /\ api[m] # "none" /\ ~user[m].told
        /\ row[m].status \in Active => row[m].host = q.h
    BY <1>8, RequestOfClaim
  <2>2. Sent(m)' = {} /\ ~Pinged(m)'
    BY <1>1, <2>1 DEF Sent, Pinged
  <2>3. CASE /\ session' = [session EXCEPT ![q.h][q.m] = NewSession]
             /\ job' = IF mine THEN [job EXCEPT ![q.j] = FreeJob] ELSE job
    <3>1. \A j \in Jobs : ~ClaimOn(j, m)'
      <4>1. mine => job'[q.j] = FreeJob
        BY <1>1, <2>3
      <4> QED BY <1>4, <2>1, <4>1 DEF ClaimOn, Claiming, FreeJob
    <3>2. \A h \in Hosts : session'[h][m].stage # "none" => h = q.h
      BY <1>1, <1>8, <2>1, <2>3 DEF HasBot
    <3>3. \A h \in Hosts : BusyWith(h, m)' => h = q.h
      BY <2>2, <3>1, <3>2 DEF BusyWith, ClaimOn, Sent
    <3> QED BY <1>1, <2>1, <2>2, <3>1, <3>2, <3>3
        DEF MInv, QueuedQuiet, ClaimAlone, OneToken, OnRecord, StopKept
  <2>4. CASE UNCHANGED session /\ job' = IF mine THEN [job EXCEPT ![q.j].pc = "refused"] ELSE job
    <3>1. ~HasBot(m)'
      BY <2>1, <2>4 DEF HasBot
    <3>2. \A j \in Jobs : ClaimOn(j, m)' => j = q.j /\ mine /\ job'[j].pc = "refused" /\ job'[j].host = q.h
      <4>1. mine => job'[q.j] = [job[q.j] EXCEPT !.pc = "refused"]
        BY <1>1, <2>4
      <4>2. mine => job'[q.j].pc = "refused" /\ job'[q.j].host = q.h
        BY <1>1, <1>5, <4>1 DEF Job
      <4>3. \A j \in Jobs : job'[j] = job[j] => (ClaimOn(j, m)' => ClaimOn(j, m))
        BY DEF ClaimOn, Claiming
      <4> HIDE DEF mine
      <4> QED BY <1>4, <2>1, <4>2, <4>3
    <3>3. \A h \in Hosts : BusyWith(h, m)' => h = q.h
      BY <2>2, <3>1, <3>2 DEF BusyWith, ClaimOn, Sent, HasBot
    <3>4. ClaimAlone(m)'
      BY <2>2, <3>1, <3>2 DEF ClaimAlone
    <3> QED BY <1>1, <2>1, <2>2, <3>1, <3>3, <3>4 DEF MInv, QueuedQuiet, OneToken, OnRecord, StopKept, HasBot
  <2> QED BY <1>3, <2>3, <2>4
<1> QED BY <1>7, <1>8

LEMMA FaultsKeep ==
    ASSUME Known, NEW m \in Meetings, MInv(m), FaultStep
    PROVE  MInv(m)'
<1>1. job \in [Jobs -> Job] /\ session \in [Hosts -> [Meetings -> Session]]
  BY DEF Known, IInv, TypeOK
<1>2. ASSUME NEW j \in Jobs, CrashJob(j) \/ LoseJob(j)
      PROVE  MInv(m)'
  <2>1. UNCHANGED <<row, api, request, session, ping, user>>
    BY <1>2 DEF CrashJob, LoseJob
  <2>2. ~Claiming(j)' /\ \A i \in Jobs : i # j => job'[i] = job[i]
    BY <1>1, <1>2 DEF CrashJob, LoseJob, Claiming, NewJob, FreeJob
  <2> QED BY <2>1, <2>2, JobsOnly DEF ClaimOn, Plain
<1>3. ASSUME NEW j \in Jobs, NEW k \in Jobs, CrashAfterRequeue(j, k)
      PROVE  MInv(m)'
  <2>1. UNCHANGED <<row, api, request, session, ping, user>>
    BY <1>3 DEF CrashAfterRequeue
  <2>2. ~Claiming(j)' /\ ~Claiming(k)' /\ \A i \in Jobs : i \notin {j, k} => job'[i] = job[i]
    BY <1>1, <1>3 DEF CrashAfterRequeue, Claiming, NewJob
  <2> QED BY <2>1, <2>2, JobsOnly DEF ClaimOn, Plain
<1>4. ASSUME NEW h \in Hosts, CrashHost(h)
      PROVE  MInv(m)'
  <2>1. UNCHANGED <<row, api, job, request, ping, user>>
    BY <1>4 DEF CrashHost
  <2>2. \A g \in Hosts : session'[g][m].stage # "none" => session[g][m].stage # "none"
    BY <1>1, <1>4 DEF CrashHost, NoSession
  <2> QED BY <2>1, <2>2, SessionsLess DEF Pinged
<1> QED BY <1>2, <1>3, <1>4 DEF FaultStep

-----------------------------------------------------------------------------
(* The inductive invariant                                                 *)

Tokens == \A m \in Meetings : MInv(m)

LEMMA InitTokens == Init => Tokens
<1> SUFFICES ASSUME Init, NEW m \in Meetings PROVE MInv(m)
  BY DEF Tokens
<1>1. Quiet(m) /\ (\A j \in Jobs : ~ClaimOn(j, m)) /\ ~user[m].told /\ row[m].status = "absent"
  BY DEF Init, Quiet, Sent, HasBot, Pinged, NoSession, ClaimOn, Claiming, FreeJob, Idle, Absent
<1> QED BY <1>1 DEF MInv, QueuedQuiet, ClaimAlone, OneToken, OnRecord, StopKept, Quiet, HasBot, Active

LEMMA StepTokens ==
    ASSUME MaxLost = 0, Known, Tokens, [Next]_vars
    PROVE  Tokens'
<1> SUFFICES ASSUME NEW m \in Meetings PROVE MInv(m)'
  BY DEF Tokens
<1>1. MInv(m)
  BY DEF Tokens
<1>2. CASE UNCHANGED vars
  BY <1>1, <1>2, SessionsLess DEF vars, Pinged
<1>3. CASE \E k \in Meetings : CreateStep(k) \/ UserStep(k) \/ Sweep(k) \/ TranscriptionEnds(k)
  BY <1>1, <1>3, CreateKeeps, UserKeeps, BackendSteps
<1>4. CASE \E j \in Jobs : JobStep(j)
  BY <1>1, <1>4, JobKeeps
<1>5. CASE \E q \in request : ReceiveJoin(q)
  BY <1>1, <1>5, ReceiveKeeps
<1>6. CASE \E h \in Hosts, k \in Meetings : SessionStep(h, k)
  BY <1>1, <1>6, SessionKeeps
<1>7. CASE \E p \in ping : ReceivePing(p)
  BY <1>1, <1>7, PingKeeps
<1>8. CASE FaultStep
  BY <1>1, <1>8, FaultsKeep
<1> QED BY <1>2, <1>3, <1>4, <1>5, <1>6, <1>7, <1>8 DEF Next

\* While no answer is lost a meeting has one token at most, and none under a row that
\* waits in the queue or whose owner was told "stopped", for any number of meetings,
\* recorders, jobs and crashes.
THEOREM TokensInvariant ==
    ASSUME MaxLost = 0
    PROVE  Spec => []Tokens
<1>1. IInv /\ IInv' /\ Unbooked /\ Unbooked' /\ Tokens /\ [Next]_vars => Tokens'
  BY StepTokens DEF Known
<1> QED BY <1>1, InitTokens, Invariance, UnbookedInvariant, PTL DEF Spec

\* No meeting has two recorders, however jobs are duplicated, re-run and crash
\* (scheduler.py:28-31, bot_dispatch.py:132-136).
THEOREM OneRecorderAlways ==
    ASSUME MaxLost = 0
    PROVE  Spec => []OneRecorder
<1>1. IInv /\ Tokens => OneRecorder
  <2> SUFFICES ASSUME IInv, Tokens, NEW m \in Meetings, NEW g \in Hosts, NEW h \in Hosts,
                      BusyWith(g, m), BusyWith(h, m)
               PROVE  g = h
    BY DEF OneRecorder
  <2>1. MInv(m)
    BY DEF Tokens
  <2>2. CASE \E j \in Jobs : ClaimOn(j, m)
    <3>1. PICK j \in Jobs : ClaimOn(j, m)
      BY <2>2
    <3>2. \A i \in Jobs : ClaimOn(i, m) => i = j
      BY <3>1 DEF IInv, ClaimExclusive, ClaimOn
    <3>3. ~HasBot(m) /\ \A q \in request : q.m = m => q.h = job[j].host
      BY <2>1, <3>1 DEF MInv, ClaimAlone, Sent, JoinRequest
    <3> QED BY <3>2, <3>3 DEF BusyWith, ClaimOn, HasBot
  <2>3. CASE \A j \in Jobs : ~ClaimOn(j, m)
    <3>1. \A q, r \in request : q.m = m /\ r.m = m => q = r
      BY <2>1 DEF MInv, OneToken, Sent
    <3>2. (\E q \in request : q.m = m) => ~HasBot(m)
      BY <2>1 DEF MInv, OneToken, Sent
    <3> QED BY <2>1, <2>3, <3>1, <3>2 DEF BusyWith, ClaimOn, HasBot, MInv, OneToken
  <2> QED BY <2>2, <2>3
<1> QED BY <1>1, Invariance, TokensInvariant, PTL

\* Stop, delete and re-upload reach the machine that has the session
\* (meetings.py:26-40).
THEOREM RecorderAlwaysOnRecord ==
    ASSUME MaxLost = 0
    PROVE  Spec => []RecorderOnRecord
<1>1. Tokens => RecorderOnRecord
  BY DEF Tokens, MInv, OnRecord, BusyWith, RecorderOnRecord
<1> QED BY <1>1, TokensInvariant, PTL

\* An owner who was told "stopped" of a queued meeting never gets a bot
\* (bot_dispatch.py:231-238).
THEOREM StoppedForGood ==
    ASSUME MaxLost = 0
    PROVE  Spec => []StoppedStaysStopped
<1>1. Tokens => StoppedStaysStopped
  BY DEF Tokens, MInv, StopKept, Sent, HasBot, ClaimOn, BusyWith, StoppedStaysStopped
<1> QED BY <1>1, TokensInvariant, PTL
=============================================================================
