------------------------- MODULE BotDispatchProofs -------------------------
(***************************************************************************)
(* What holds of BotDispatch for every number of meetings, recorders and   *)
(* jobs, whatever is lost and whatever crashes.  IInv is the inductive     *)
(* invariant: the two safety invariants ClaimExclusive and                 *)
(* JoiningHasRecorder are not inductive alone, because a row must not go   *)
(* back to "queued" under a job that holds its claim, and a claim must     *)
(* write a recorder that exists.                                           *)
(***************************************************************************)
EXTENDS BotDispatch, TLAPS

\* A job in Redis is for a meeting that was created, and from the choice of a
\* recorder to the end of the join it knows which one.
JobsSound ==
    \A j \in Jobs :
        /\ job[j].pc # "free" =>
              job[j].m \in Meetings /\ job[j].attempt # 0 /\ api[job[j].m] # "none"
        /\ job[j].pc = "chosen" \/ Claiming(j) => job[j].host \in Hosts

SessionsSound ==
    \A h \in Hosts, m \in Meetings :
        session[h][m].stage # "none" => session[h][m].tries # 0

\* Nothing here writes "uploading": that is the re-upload's state.
NeverUploading == \A m \in Meetings : row[m].status # "uploading"

ClaimedNotQueued == \A j \in Jobs : Claiming(j) => row[job[j].m].status # "queued"

IInv ==
    /\ TypeOK
    /\ JobsSound
    /\ SessionsSound
    /\ NeverUploading
    /\ JoiningHasRecorder
    /\ ClaimedNotQueued
    /\ ClaimExclusive

-----------------------------------------------------------------------------
(* What the statements on a row do                                         *)

\* Every statement but the insert, the claim and its undo: it moves no row
\* into "queued", "joining" or "uploading", and keeps the recorder of a row
\* that is still joining.
Tame(r, s) ==
    /\ s \in RowType
    /\ s.status = "queued" => r.status = "queued"
    /\ s.status = "uploading" => r.status = "uploading"
    /\ s.status = "joining" => r.status = "joining" /\ s.host = r.host

LEMMA RowValues ==
    /\ Absent \in RowType /\ Inserted \in RowType
    /\ \A r \in RowType : ReturnQueued(r) \in RowType
    /\ \A r \in RowType, h \in Hosts : ClaimQueued(r, h) \in RowType
BY DEF Absent, Inserted, RowType, ReturnQueued, ClaimQueued, Status, NonTerminal

LEMMA PlainWritesTame ==
    ASSUME NEW r \in RowType
    PROVE  /\ Tame(r, r) /\ Tame(r, Absent)
           /\ Tame(r, ForceFailed(r)) /\ Tame(r, FailQueued(r)) /\ Tame(r, Swept(r))
BY DEF Tame, RowType, Absent, ForceFailed, FailQueued, Swept, Exists, Status, NonTerminal

LEMMA PingsTame ==
    ASSUME NEW r \in RowType
    PROVE  Tame(r, AdmissionPing(r)) /\ Tame(r, RecordingPing(r))
BY DEF Tame, RowType, AdmissionPing, RecordingPing, Exists, Status, NonTerminal

LEMMA ReportsTame ==
    ASSUME NEW r \in RowType
    PROVE  /\ Tame(r, FailedReport(r)) /\ Tame(r, CompletedReport(r))
           /\ AcceptsCompleted(r) => Tame(r, UndoCompleted(CompletedReport(r)))
BY DEF Tame, RowType, FailedReport, CompletedReport, UndoCompleted, AcceptsCompleted,
       Exists, Status, NonTerminal

LEMMA FinalReportTame ==
    ASSUME NEW r \in RowType, NEW outcome, NEW s \in FinalReport(r, outcome)
    PROVE  Tame(r, s)
BY ReportsTame DEF FinalReport

-----------------------------------------------------------------------------
(* Steps whose writes to the meetings table are all tame                   *)

RowsTame ==
    /\ row' \in [Meetings -> RowType]
    /\ \A m \in Meetings : Tame(row[m], row'[m])

LEMMA RowsUnchanged == TypeOK /\ row' = row => RowsTame
BY PlainWritesTame DEF TypeOK, RowsTame

LEMMA OneRowTame ==
    ASSUME TypeOK, NEW m \in Meetings, NEW s, Tame(row[m], s),
           row' = [row EXCEPT ![m] = s]
    PROVE  RowsTame
BY PlainWritesTame DEF TypeOK, RowsTame, Tame

\* Such a step keeps all IInv says of rows; and of the claims too, when it
\* claims nothing.
NoNewClaim ==
    \A j \in Jobs : Claiming(j)' => Claiming(j) /\ job'[j].m = job[j].m

LEMMA TameKeepsRows ==
    IInv /\ RowsTame => NeverUploading' /\ JoiningHasRecorder'
BY DEF IInv, RowsTame, Tame, NeverUploading, JoiningHasRecorder

LEMMA TameKeepsClaims ==
    IInv /\ JobsSound /\ RowsTame /\ NoNewClaim => ClaimedNotQueued' /\ ClaimExclusive'
<1> SUFFICES ASSUME IInv, RowsTame, NoNewClaim
             PROVE  ClaimedNotQueued' /\ ClaimExclusive'
  OBVIOUS
<1>1. ClaimedNotQueued'
  <2> SUFFICES ASSUME NEW j \in Jobs, Claiming(j)'
               PROVE  row'[job'[j].m].status # "queued"
    BY DEF ClaimedNotQueued
  <2>1. Claiming(j) /\ job'[j].m = job[j].m
    BY DEF NoNewClaim
  <2>2. job[j].m \in Meetings /\ row[job[j].m].status # "queued"
    BY <2>1 DEF IInv, JobsSound, ClaimedNotQueued, Claiming
  <2> QED BY <2>1, <2>2 DEF RowsTame, Tame
<1>2. ClaimExclusive'
  BY DEF IInv, NoNewClaim, ClaimExclusive
<1> QED BY <1>1, <1>2

LEMMA TameStep ==
    ASSUME IInv, RowsTame, NoNewClaim, TypeOK', JobsSound', SessionsSound'
    PROVE  IInv'
BY TameKeepsRows, TameKeepsClaims DEF IInv

-----------------------------------------------------------------------------
(* The actions, group by group                                             *)

LEMMA CreateStepKeeps ==
    ASSUME IInv, NEW m \in Meetings, CreateStep(m)
    PROVE  IInv'
<1> USE DEF IInv, TypeOK
<1>1. CASE CreateMeeting(m)
  <2> USE <1>1 DEF CreateMeeting
  <2>1. TypeOK'
    BY RowValues
  <2>2. JobsSound' /\ SessionsSound'
    BY DEF JobsSound, SessionsSound, Claiming
  <2>3. NeverUploading' /\ JoiningHasRecorder'
    BY DEF NeverUploading, JoiningHasRecorder, Inserted
  <2>4. \A j \in Jobs : Claiming(j) => job[j].m # m
    BY DEF JobsSound, Claiming
  <2>5. ClaimedNotQueued' /\ ClaimExclusive'
    BY <2>4 DEF ClaimedNotQueued, ClaimExclusive, Claiming, JobsSound
  <2> QED BY <2>1, <2>2, <2>3, <2>5
<1>2. ASSUME NEW j \in Jobs, EnqueueDispatch(m, j)
      PROVE  IInv'
  <2> USE <1>2 DEF EnqueueDispatch
  <2>1. TypeOK'
    BY DispatchAssumption DEF Job, NewJob
  <2>2. JobsSound' /\ SessionsSound' /\ NoNewClaim
    BY DEF JobsSound, SessionsSound, Claiming, NewJob, NoNewClaim, Job
  <2> QED BY <2>1, <2>2, RowsUnchanged, TameStep
<1>3. CASE CreateReturns(m)
  <2> USE <1>3 DEF CreateReturns
  <2>1. TypeOK'
    OBVIOUS
  <2>2. JobsSound' /\ SessionsSound' /\ NoNewClaim
    BY DEF JobsSound, SessionsSound, Claiming, NoNewClaim
  <2> QED BY <2>1, <2>2, RowsUnchanged, TameStep
<1>4. CASE CreateFails(m)
  <2> USE <1>4 DEF CreateFails
  <2>1. RowsTame
    BY PlainWritesTame, OneRowTame
  <2>2. TypeOK'
    BY <2>1, DispatchAssumption DEF RowsTame
  <2>3. JobsSound' /\ SessionsSound' /\ NoNewClaim
    BY DEF JobsSound, SessionsSound, Claiming, NoNewClaim
  <2> QED BY <2>1, <2>2, <2>3, TameStep
<1> QED BY <1>1, <1>2, <1>3, <1>4 DEF CreateStep

\* One job moves to a sound record, and to no claim it had not.
SoundJob(x) ==
    /\ x \in Job
    /\ x.pc # "free" => x.m \in Meetings /\ x.attempt # 0 /\ api[x.m] # "none"
    /\ x.pc \in {"chosen", "posting", "posted", "refused"} => x.host \in Hosts

LEMMA OneJobMoves ==
    ASSUME IInv, NEW j \in Jobs, NEW x, SoundJob(x),
           x.pc \in {"posting", "posted", "refused"} => Claiming(j) /\ x.m = job[j].m,
           job' = [job EXCEPT ![j] = x], UNCHANGED <<api, session>>
    PROVE  /\ job' \in [Jobs -> Job]
           /\ JobsSound' /\ SessionsSound' /\ NoNewClaim
<1>1. job'[j] = x /\ \A i \in Jobs : i # j => job'[i] = job[i]
  BY DEF IInv, TypeOK
<1>2. job' \in [Jobs -> Job]
  BY DEF IInv, TypeOK, SoundJob
<1>3. JobsSound'
  BY <1>1 DEF IInv, JobsSound, SoundJob, Claiming
<1>4. SessionsSound'
  BY DEF IInv, SessionsSound
<1>5. NoNewClaim
  BY <1>1 DEF NoNewClaim, Claiming
<1> QED BY <1>2, <1>3, <1>4, <1>5

LEMMA JobsAreSound == IInv => \A j \in Jobs : SoundJob(job[j])
BY DEF IInv, TypeOK, JobsSound, SoundJob, Claiming

LEMMA FreeJobSound == SoundJob(FreeJob)
BY DispatchAssumption DEF SoundJob, FreeJob, Job

LEMMA NewJobSound ==
    ASSUME NEW x, SoundJob(x), x.pc # "free", NEW n \in 1..MaxAttempts
    PROVE  SoundJob(NewJob(x.m, n))
BY DispatchAssumption DEF SoundJob, NewJob, Job

LEMMA PcSound ==
    ASSUME NEW x, SoundJob(x), x.pc # "free",
           NEW pc \in {"choosing", "posting", "posted", "refused", "waiting"},
           pc \in {"posting", "posted", "refused"} => x.host \in Hosts
    PROVE  SoundJob([x EXCEPT !.pc = pc])
<1> DEFINE y == [x EXCEPT !.pc = pc]
<1>1. y.pc = pc /\ y.m = x.m /\ y.attempt = x.attempt /\ y.host = x.host /\ y \in Job
  BY DEF SoundJob, Job
<1> QED BY <1>1 DEF SoundJob

\* The claim goes on to its next call.
LEMMA ClaimContinues ==
    ASSUME IInv, NEW j \in Jobs, Claiming(j), NEW pc \in {"posted", "refused"},
           job' = [job EXCEPT ![j] = [job[j] EXCEPT !.pc = pc]],
           UNCHANGED <<row, api, session, ping, user, crashes>>,
           request' \subseteq Request, lost' \in 0..MaxLost
    PROVE  IInv'
<1> DEFINE x == [job[j] EXCEPT !.pc = pc]
<1>1. x.pc = pc /\ x.m = job[j].m
  BY DEF IInv, TypeOK, Job
<1>2. SoundJob(x)
  BY JobsAreSound, PcSound DEF Claiming, SoundJob
<1>3. job' \in [Jobs -> Job] /\ JobsSound' /\ SessionsSound' /\ NoNewClaim
  <2>1. job' = [job EXCEPT ![j] = x]
    OBVIOUS
  <2> HIDE DEF x
  <2> QED BY <1>1, <1>2, <2>1, OneJobMoves
<1>4. TypeOK'
  BY <1>3 DEF IInv, TypeOK
<1>5. RowsTame
  BY RowsUnchanged DEF IInv
<1> QED BY <1>3, <1>4, <1>5, TameStep

LEMMA JobStepKeeps ==
    ASSUME IInv, NEW j \in Jobs, JobStep(j)
    PROVE  IInv'
<1> USE DEF IInv, TypeOK
<1>1. CASE ReadMeeting(j)
  <2> USE <1>1 DEF ReadMeeting
  <2>1. \/ job' = [job EXCEPT ![j] = [job[j] EXCEPT !.pc = "choosing"]]
        \/ job' = [job EXCEPT ![j] = FreeJob]
    BY Zenon
  <2>2. /\ SoundJob([job[j] EXCEPT !.pc = "choosing"]) /\ SoundJob(FreeJob)
        /\ [job[j] EXCEPT !.pc = "choosing"].pc = "choosing" /\ FreeJob.pc = "free"
    BY JobsAreSound, FreeJobSound, PcSound DEF Job, FreeJob
  <2>3. job' \in [Jobs -> Job] /\ JobsSound' /\ SessionsSound' /\ NoNewClaim
    BY <2>1, <2>2, OneJobMoves
  <2> QED BY <2>3, RowsUnchanged, TameStep
<1>2. CASE ChooseHost(j)
  <2> USE <1>2 DEF ChooseHost
  <2> DEFINE Chosen(h) == [job[j] EXCEPT !.pc = "chosen", !.host = h]
  <2>1. \/ \E h \in Hosts : job' = [job EXCEPT ![j] = Chosen(h)]
        \/ job' = [job EXCEPT ![j] = [job[j] EXCEPT !.pc = "waiting"]]
    BY Zenon
  <2>2. \A h \in Hosts : SoundJob(Chosen(h)) /\ Chosen(h).pc = "chosen"
    <3> TAKE h \in Hosts
    <3>1. /\ Chosen(h).pc = "chosen" /\ Chosen(h).host = h
          /\ Chosen(h).m = job[j].m /\ Chosen(h).attempt = job[j].attempt
          /\ Chosen(h) \in Job
      BY DEF Job
    <3> QED BY <3>1, JobsAreSound DEF SoundJob
  <2>3. SoundJob([job[j] EXCEPT !.pc = "waiting"]) /\ [job[j] EXCEPT !.pc = "waiting"].pc = "waiting"
    BY JobsAreSound, PcSound DEF Job
  <2>4. job' \in [Jobs -> Job] /\ JobsSound' /\ SessionsSound' /\ NoNewClaim
    <3> HIDE DEF Chosen
    <3> QED BY <2>1, <2>2, <2>3, OneJobMoves
  <2> QED BY <2>4, RowsUnchanged, TameStep
<1>3. CASE ClaimMeeting(j)
  <2> DEFINE m == job[j].m
  <2> USE <1>3 DEF ClaimMeeting
  <2>1. m \in Meetings /\ job[j].host \in Hosts
    BY DEF JobsSound
  <2>2. row' \in [Meetings -> RowType]
    BY <2>1, RowValues
  <2>3. TypeOK'
    BY <2>2, DispatchAssumption DEF Job, FreeJob
  <2>4. JobsSound' /\ SessionsSound'
    BY DEF JobsSound, SessionsSound, Claiming, Job, FreeJob
  <2>5. NeverUploading' /\ JoiningHasRecorder'
    BY <2>1, NoHostAssumption DEF NeverUploading, JoiningHasRecorder, ClaimQueued, RowType
  <2>6. CASE row[m].status = "queued"
    <3>1. \A i \in Jobs : Claiming(i) => job[i].m # m
      BY <2>6 DEF ClaimedNotQueued
    <3>a. \A i \in Jobs : i # j => job'[i] = job[i]
      BY <2>6
    <3>2. \A i \in Jobs : Claiming(i)' => i = j \/ (Claiming(i) /\ job'[i] = job[i])
      BY <3>a DEF Claiming
    <3>3. job'[j].m = m
      BY <2>6 DEF Job
    <3>4. row'[m].status = "joining" /\ \A k \in Meetings : k # m => row'[k] = row[k]
      BY <2>1, <2>6 DEF ClaimQueued, RowType
    <3>5. ClaimedNotQueued'
      BY <3>2, <3>3, <3>4 DEF ClaimedNotQueued, JobsSound, Claiming
    <3>6. ClaimExclusive'
      BY <3>1, <3>2, <3>3 DEF ClaimExclusive
    <3> QED BY <2>3, <2>4, <2>5, <3>5, <3>6
  <2>7. CASE row[m].status # "queued"
    <3>1. RowsTame
      <4>1. ClaimQueued(row[m], job[j].host) = row[m]
        BY <2>7 DEF ClaimQueued
      <4> QED BY <4>1, <2>1, PlainWritesTame, OneRowTame
    <3>2. NoNewClaim
      BY <2>7 DEF NoNewClaim, Claiming, FreeJob
    <3> QED BY <2>3, <2>4, <3>1, <3>2, TameStep
  <2> QED BY <2>6, <2>7
<1>4. CASE PostJoin(j)
  <2> USE <1>4 DEF PostJoin
  <2>1. JoinRequest(j) \in Request
    <3>1. /\ job[j].m \in Meetings /\ job[j].host \in Hosts
          /\ job[j].attempt \in 1..MaxAttempts
      BY DispatchAssumption DEF JobsSound, Claiming, Job
    <3> QED BY <3>1 DEF JoinRequest, Request
  <2>2. job' = [job EXCEPT ![j] = [job[j] EXCEPT !.pc = "posted"]]
    BY Zenon
  <2> QED BY <2>1, <2>2, ClaimContinues DEF Claiming
<1>5. CASE ConnectFails(j)
  <2> USE <1>5 DEF ConnectFails
  <2>1. job' = [job EXCEPT ![j] = [job[j] EXCEPT !.pc = "refused"]]
    BY Zenon
  <2> QED BY <2>1, ClaimContinues DEF Claiming
<1>6. CASE JoinTimesOut(j)
  <2> USE <1>6 DEF JoinTimesOut
  <2>1. job' = [job EXCEPT ![j] = [job[j] EXCEPT !.pc = "refused"]]
    BY Zenon
  <2>2. lost' \in 0..MaxLost
    BY DispatchAssumption
  <2> QED BY <2>1, <2>2, ClaimContinues DEF Claiming
<1>7. CASE ReturnToQueue(j)
  <2> DEFINE m == job[j].m
  <2> USE <1>7 DEF ReturnToQueue
  <2>1. m \in Meetings /\ Claiming(j)
    BY DEF JobsSound, Claiming
  <2>2. row' \in [Meetings -> RowType]
    BY <2>1, RowValues
  <2>a. job' = [job EXCEPT ![j] = [job[j] EXCEPT !.pc = "waiting", !.host = NoHost]]
    BY Zenon
  <2>b. [job[j] EXCEPT !.pc = "waiting", !.host = NoHost] \in Job
    BY DEF Job
  <2>c. job' \in [Jobs -> Job]
    BY <2>a, <2>b
  <2>3. TypeOK'
    BY <2>2, <2>c
  <2>4. JobsSound' /\ SessionsSound'
    BY DEF JobsSound, SessionsSound, Claiming, Job
  <2>5. NeverUploading' /\ JoiningHasRecorder'
    BY <2>1 DEF NeverUploading, JoiningHasRecorder, ReturnQueued, RowType
  <2>6. \A i \in Jobs : Claiming(i)' => i # j /\ Claiming(i) /\ job'[i] = job[i]
    BY DEF Claiming, Job
  <2>7. \A i \in Jobs : Claiming(i)' => job'[i].m # m
    BY <2>1, <2>6 DEF ClaimExclusive
  <2>8. \A k \in Meetings : k # m => row'[k] = row[k]
    BY <2>1
  <2>9. ClaimedNotQueued' /\ ClaimExclusive'
    BY <2>6, <2>7, <2>8 DEF ClaimedNotQueued, ClaimExclusive, JobsSound, Claiming
  <2> QED BY <2>3, <2>4, <2>5, <2>9
<1>8. CASE Requeue(j)
  <2> USE <1>8 DEF Requeue
  <2> DEFINE x == NewJob(job[j].m, job[j].attempt + 1)
  <2>1. SoundJob(x) /\ x.pc = "pending"
    <3>1. job[j].attempt + 1 \in 1..MaxAttempts
      BY DispatchAssumption DEF Job
    <3> QED BY <3>1, JobsAreSound, NewJobSound DEF NewJob
  <2>2. job' \in [Jobs -> Job] /\ JobsSound' /\ SessionsSound' /\ NoNewClaim
    <3> HIDE DEF x
    <3> QED BY <2>1, OneJobMoves DEF x
  <2> QED BY <2>2, RowsUnchanged, TameStep
<1>9. CASE RecordDispatchExhausted(j)
  <2> USE <1>9 DEF RecordDispatchExhausted
  <2>1. RowsTame
    <3>1. job[j].m \in Meetings
      BY DEF JobsSound
    <3>2. Tame(row[job[j].m], FailQueued(row[job[j].m]))
      BY <3>1, PlainWritesTame
    <3>3. row' = [row EXCEPT ![job[j].m] = FailQueued(row[job[j].m])]
      OBVIOUS
    <3> QED BY <3>1, <3>2, <3>3, OneRowTame
  <2>2. job' \in [Jobs -> Job] /\ JobsSound' /\ SessionsSound' /\ NoNewClaim
    BY FreeJobSound, OneJobMoves DEF FreeJob
  <2>3. TypeOK'
    BY <2>1, <2>2 DEF RowsTame
  <2> QED BY <2>1, <2>2, <2>3, TameStep
<1> QED BY <1>1, <1>2, <1>3, <1>4, <1>5, <1>6, <1>7, <1>8, <1>9 DEF JobStep

LEMMA ReceiveJoinKeeps ==
    ASSUME IInv, NEW q \in request, ReceiveJoin(q)
    PROVE  IInv'
<1> USE DEF IInv, TypeOK, ReceiveJoin
<1>1. q.m \in Meetings /\ q.h \in Hosts /\ q.j \in Jobs
  BY DEF Request
<1>2. NewSession \in Session /\ MaxNotify # 0
  BY DispatchAssumption DEF NewSession, Session
<1>a. \/ session' = session
      \/ session' = [session EXCEPT ![q.h] = [session[q.h] EXCEPT ![q.m] = NewSession]]
  BY Zenon
<1>b. [session[q.h] EXCEPT ![q.m] = NewSession] \in [Meetings -> Session]
  BY <1>1, <1>2
<1>3. session' \in [Hosts -> [Meetings -> Session]]
  BY <1>1, <1>a, <1>b
<1>4. SessionsSound'
  BY <1>1, <1>2, <1>3 DEF SessionsSound, NewSession
<1>5. \/ job' = job
      \/ job' = [job EXCEPT ![q.j] = FreeJob]
      \/ job[q.j].pc = "posted" /\ job' = [job EXCEPT ![q.j].pc = "refused"]
  BY DEF Answered
<1>6. job' \in [Jobs -> Job]
  BY <1>1, <1>5, DispatchAssumption DEF Job, FreeJob
<1>7. TypeOK'
  BY <1>3, <1>6, DispatchAssumption
<1>8. JobsSound' /\ NoNewClaim
  <2>1. CASE job' = job
    BY <2>1 DEF JobsSound, NoNewClaim, Claiming
  <2>2. CASE job' = [job EXCEPT ![q.j] = FreeJob]
    BY <1>1, <2>2 DEF JobsSound, NoNewClaim, Claiming, FreeJob
  <2>3. CASE job[q.j].pc = "posted" /\ job' = [job EXCEPT ![q.j].pc = "refused"]
    BY <1>1, <2>3 DEF JobsSound, NoNewClaim, Claiming, Job
  <2> QED BY <1>5, <2>1, <2>2, <2>3
<1> QED BY <1>4, <1>7, <1>8, RowsUnchanged, TameStep

\* A recorder's session or a row moves, and no job does.
LEMMA JobsAlone ==
    ASSUME IInv, UNCHANGED <<api, job>>, RowsTame, TypeOK', SessionsSound'
    PROVE  IInv'
<1>1. JobsSound' /\ NoNewClaim
  BY DEF IInv, JobsSound, NoNewClaim, Claiming
<1> QED BY <1>1, TameStep

LEMMA OneSession ==
    ASSUME IInv, NEW h \in Hosts, NEW m \in Meetings, NEW s \in Session,
           s.stage # "none" => s.tries # 0,
           session' = [session EXCEPT ![h][m] = s]
    PROVE  session' \in [Hosts -> [Meetings -> Session]] /\ SessionsSound'
BY DEF IInv, TypeOK, SessionsSound

\* A stage of the lifecycle follows another.
LEMMA StageTyped ==
    ASSUME IInv, NEW h \in Hosts, NEW m \in Meetings, session[h][m].stage # "none",
           NEW stage \in {"waiting_for_admission", "recording", "uploading",
                      "completed", "failed"},
           session' = [session EXCEPT ![h][m].stage = stage]
    PROVE  session' \in [Hosts -> [Meetings -> Session]] /\ SessionsSound'
<1> DEFINE s == [session[h][m] EXCEPT !.stage = stage]
<1>a. session[h][m] \in Session /\ session[h][m].tries # 0
  BY DEF IInv, TypeOK, SessionsSound
<1>1. s \in Session /\ s.tries # 0
  BY <1>a DEF Session
<1>2. session' = [session EXCEPT ![h][m] = s]
  BY Zenon
<1> HIDE DEF s
<1> QED BY <1>1, <1>2, OneSession

LEMMA SessionStepKeeps ==
    ASSUME IInv, NEW h \in Hosts, NEW m \in Meetings, SessionStep(h, m)
    PROVE  IInv'
<1> USE DEF IInv, TypeOK
<1>1. CASE JoinSucceeds(h, m)
  <2> USE <1>1 DEF JoinSucceeds
  <2>1. ping' \subseteq Ping
    BY DEF Ping
  <2>2. TypeOK' /\ SessionsSound'
    BY <2>1, StageTyped
  <2> QED BY <2>2, RowsUnchanged, JobsAlone
<1>2. CASE Admitted(h, m)
  <2> USE <1>2 DEF Admitted
  <2>1. ping' \subseteq Ping
    BY DEF Ping
  <2>2. TypeOK' /\ SessionsSound'
    BY <2>1, StageTyped
  <2> QED BY <2>2, RowsUnchanged, JobsAlone
<1>3. CASE SessionFails(h, m)
  <2> USE <1>3 DEF SessionFails
  <2>1. TypeOK' /\ SessionsSound'
    BY StageTyped DEF Active
  <2> QED BY <2>1, RowsUnchanged, JobsAlone
<1>4. CASE MeetingEnds(h, m) \/ UploadEnds(h, m)
  <2> USE <1>4 DEF MeetingEnds, UploadEnds
  <2>1. TypeOK' /\ SessionsSound'
    BY StageTyped
  <2> QED BY <2>1, RowsUnchanged, JobsAlone
<1>5. CASE NotifyBackend(h, m)
  <2> USE <1>5 DEF NotifyBackend
  <2>1. RowsTame
    BY FinalReportTame, OneRowTame, RowsUnchanged
  <2>2. session[h][m].tries \in 1..MaxNotify
    BY DispatchAssumption DEF Session, SessionsSound
  <2>3. \/ session' = [session EXCEPT ![h][m] = NoSession]
        \/ /\ session[h][m].tries # 1
           /\ session' = [session EXCEPT ![h][m].tries = @ - 1]
    OBVIOUS
  <2>4. session' \in [Hosts -> [Meetings -> Session]] /\ SessionsSound'
    <3> DEFINE s == [session[h][m] EXCEPT !.tries = @ - 1]
    <3>1. CASE session' = [session EXCEPT ![h][m] = NoSession]
      <4>1. NoSession \in Session /\ NoSession.stage = "none"
        BY DispatchAssumption DEF Session, NoSession
      <4> QED BY <3>1, <4>1, OneSession
    <3>2. CASE session' = [session EXCEPT ![h][m].tries = @ - 1] /\ session[h][m].tries # 1
      <4>1. session' = [session EXCEPT ![h][m] = s]
        BY <3>2, Zenon
      <4>2. session[h][m].tries - 1 \in 1..MaxNotify
        BY <2>2, <3>2, DispatchAssumption
      <4>3. session[h][m] \in Session
        OBVIOUS
      <4>4. s \in Session /\ s.tries # 0
        BY <4>2, <4>3 DEF Session
      <4> QED BY <4>1, <4>4, OneSession
    <3> QED BY <2>3, <3>1, <3>2
  <2>5. TypeOK'
    BY <2>1, <2>4 DEF RowsTame
  <2> QED BY <2>1, <2>4, <2>5, JobsAlone
<1> QED BY <1>1, <1>2, <1>3, <1>4, <1>5 DEF SessionStep

\* requestCancel sets a flag of the session and nothing else.
LEMMA CancelTyped ==
    ASSUME IInv, NEW h, NEW m \in Meetings,
           session' = Cancelled(h, m) \/ session' = session
    PROVE  session' \in [Hosts -> [Meetings -> Session]] /\ SessionsSound'
<1>1. CASE session' = session
  BY <1>1 DEF IInv, TypeOK, SessionsSound
<1>2. CASE session' # session
  <2> DEFINE s == [session[h][m] EXCEPT !.cancel = TRUE]
  <2>1. session[h][m].stage # "none" /\ session' = [session EXCEPT ![h][m].cancel = TRUE]
    BY <1>2 DEF Cancelled
  <2>a. h \in Hosts
    BY <1>2, <2>1 DEF IInv, TypeOK
  <2>2. session' = [session EXCEPT ![h][m] = s]
    BY <2>1, Zenon
  <2>3. session[h][m] \in Session /\ session[h][m].tries # 0
    BY <2>1, <2>a DEF IInv, TypeOK, SessionsSound
  <2>4. s \in Session /\ s.tries # 0
    BY <2>3 DEF Session
  <2> QED BY <2>2, <2>4, <2>a, OneSession
<1> QED BY <1>1, <1>2

LEMMA UserTyped ==
    ASSUME IInv, NEW m \in Meetings
    PROVE  RequireHost(row[m].host) \subseteq Hosts
BY DEF IInv, TypeOK, RowType, RequireHost

\* The ways an owner's request moves on.
LEMMA UserMoves ==
    ASSUME IInv, NEW m \in Meetings,
           NEW pc \in {"idle", "cancelling", "refreshing", "stopping", "deleting"},
           NEW h \in Hosts \cup {NoHost},
           \/ user' = [user EXCEPT ![m].pc = pc]
           \/ user' = [user EXCEPT ![m].host = h]
           \/ user' = [user EXCEPT ![m].pc = pc, ![m].host = h]
           \/ user' = [user EXCEPT ![m].pc = pc, ![m].told = TRUE]
    PROVE  user' \in [Meetings -> User]
<1> DEFINE u == user[m]
<1>1. u \in User
  BY DEF IInv, TypeOK
<1>2. \/ user' = [user EXCEPT ![m] = [u EXCEPT !.pc = pc]]
      \/ user' = [user EXCEPT ![m] = [u EXCEPT !.host = h]]
      \/ user' = [user EXCEPT ![m] = [u EXCEPT !.pc = pc, !.host = h]]
      \/ user' = [user EXCEPT ![m] = [u EXCEPT !.pc = pc, !.told = TRUE]]
  BY Zenon
<1>3. /\ [u EXCEPT !.pc = pc] \in User
      /\ [u EXCEPT !.host = h] \in User
  BY <1>1 DEF User
<1>4. [u EXCEPT !.pc = pc, !.host = h] \in User
  BY <1>1 DEF User
<1>5. [u EXCEPT !.pc = pc, !.told = TRUE] \in User
  BY <1>1 DEF User
<1> QED BY <1>2, <1>3, <1>4, <1>5 DEF IInv, TypeOK

LEMMA UserStepKeeps ==
    ASSUME IInv, NEW m \in Meetings, UserStep(m)
    PROVE  IInv'
<1> USE DEF IInv, TypeOK
<1>1. CASE StopRead(m)
  <2> USE <1>1 DEF StopRead
  <2>1. user' \in [Meetings -> User]
    BY UserTyped, UserMoves
  <2>2. TypeOK' /\ SessionsSound'
    BY <2>1 DEF SessionsSound
  <2> QED BY <2>2, RowsUnchanged, JobsAlone
<1>2. CASE CancelQueued(m)
  <2> USE <1>2 DEF CancelQueued
  <2>1. RowsTame
    BY PlainWritesTame, OneRowTame
  <2>2. user' \in [Meetings -> User]
    BY UserTyped, UserMoves
  <2>3. TypeOK' /\ SessionsSound'
    BY <2>1, <2>2 DEF RowsTame, SessionsSound
  <2> QED BY <2>1, <2>3, JobsAlone
<1>3. CASE RefreshRow(m)
  <2> USE <1>3 DEF RefreshRow
  <2>1. user' \in [Meetings -> User]
    BY UserTyped, UserMoves
  <2>2. TypeOK' /\ SessionsSound'
    BY <2>1 DEF SessionsSound
  <2> QED BY <2>2, RowsUnchanged, JobsAlone
<1>4. CASE StopBot(m)
  <2> USE <1>4 DEF StopBot
  <2>1. user' \in [Meetings -> User]
    BY UserMoves
  <2>2. TypeOK' /\ SessionsSound'
    BY <2>1, CancelTyped
  <2> QED BY <2>2, RowsUnchanged, JobsAlone
<1>5. CASE DeleteRead(m)
  <2> USE <1>5 DEF DeleteRead
  <2>1. user' \in [Meetings -> User]
    BY UserTyped, UserMoves
  <2>2. TypeOK' /\ SessionsSound'
    BY <2>1 DEF SessionsSound
  <2> QED BY <2>2, RowsUnchanged, JobsAlone
<1>6. CASE DeleteStopsBot(m)
  <2> USE <1>6 DEF DeleteStopsBot
  <2>1. user' \in [Meetings -> User]
    BY UserMoves
  <2>2. TypeOK' /\ SessionsSound'
    BY <2>1, CancelTyped
  <2> QED BY <2>2, RowsUnchanged, JobsAlone
<1>7. CASE DeleteRow(m)
  <2> USE <1>7 DEF DeleteRow
  <2>1. RowsTame
    BY PlainWritesTame, OneRowTame
  <2>2. user' \in [Meetings -> User]
    BY UserMoves
  <2>3. TypeOK' /\ SessionsSound'
    BY <2>1, <2>2 DEF RowsTame, SessionsSound
  <2> QED BY <2>1, <2>3, JobsAlone
<1> QED BY <1>1, <1>2, <1>3, <1>4, <1>5, <1>6, <1>7 DEF UserStep

LEMMA BackendKeeps ==
    ASSUME IInv,
           \/ \E m \in Meetings : Sweep(m) \/ TranscriptionEnds(m)
           \/ \E p \in ping : ReceivePing(p)
    PROVE  IInv'
<1> USE DEF IInv, TypeOK
<1>1. ASSUME NEW m \in Meetings, Sweep(m)
      PROVE  IInv'
  <2> USE <1>1 DEF Sweep
  <2>1. RowsTame
    BY PlainWritesTame, OneRowTame
  <2>2. TypeOK' /\ SessionsSound'
    BY <2>1 DEF RowsTame, SessionsSound
  <2> QED BY <2>1, <2>2, JobsAlone
<1>2. ASSUME NEW m \in Meetings, TranscriptionEnds(m)
      PROVE  IInv'
  <2> USE <1>2 DEF TranscriptionEnds
  <2>1. PICK outcome \in {"completed", "failed"} :
           row' = [row EXCEPT ![m] = [row[m] EXCEPT !.status = outcome]]
    BY Zenon
  <2>2. Tame(row[m], [row[m] EXCEPT !.status = outcome])
    <3>1. row[m] \in RowType
      OBVIOUS
    <3> QED BY <3>1 DEF Tame, RowType, Status
  <2>3. RowsTame
    BY <2>1, <2>2, OneRowTame
  <2>4. TypeOK' /\ SessionsSound'
    BY <2>3 DEF RowsTame, SessionsSound
  <2> QED BY <2>3, <2>4, JobsAlone
<1>3. ASSUME NEW p \in ping, ReceivePing(p)
      PROVE  IInv'
  <2> USE <1>3 DEF ReceivePing
  <2>1. p.m \in Meetings
    BY DEF Ping
  <2>2. RowsTame
    BY <2>1, PingsTame, OneRowTame, RowsUnchanged
  <2>3. TypeOK' /\ SessionsSound'
    BY <2>2 DEF RowsTame, SessionsSound
  <2> QED BY <2>2, <2>3, JobsAlone
<1> QED BY <1>1, <1>2, <1>3

LEMMA FaultKeeps ==
    ASSUME IInv, FaultStep
    PROVE  IInv'
<1> USE DEF IInv, TypeOK
<1>1. ASSUME NEW j \in Jobs, CrashJob(j)
      PROVE  IInv'
  <2> USE <1>1 DEF CrashJob
  <2> DEFINE x == NewJob(job[j].m, job[j].attempt)
  <2>1. SoundJob(x) /\ x.pc = "pending"
    BY JobsAreSound, NewJobSound, DispatchAssumption DEF NewJob, JobsSound, Job
  <2>2. job' \in [Jobs -> Job] /\ JobsSound' /\ SessionsSound' /\ NoNewClaim
    BY <2>1, OneJobMoves
  <2>3. TypeOK'
    BY <2>2, DispatchAssumption
  <2> QED BY <2>2, <2>3, RowsUnchanged, TameStep
<1>2. ASSUME NEW j \in Jobs, LoseJob(j)
      PROVE  IInv'
  <2> USE <1>2 DEF LoseJob
  <2>1. job' \in [Jobs -> Job] /\ JobsSound' /\ SessionsSound' /\ NoNewClaim
    BY FreeJobSound, OneJobMoves DEF FreeJob
  <2>2. TypeOK'
    BY <2>1, DispatchAssumption
  <2> QED BY <2>1, <2>2, RowsUnchanged, TameStep
<1>3. ASSUME NEW j \in Jobs, NEW k \in Jobs, CrashAfterRequeue(j, k)
      PROVE  IInv'
  <2> USE <1>3 DEF CrashAfterRequeue
  <2> DEFINE x == NewJob(job[j].m, job[j].attempt)
             y == NewJob(job[j].m, job[j].attempt + 1)
  <2>1. job[j].attempt \in 1..MaxAttempts /\ job[j].attempt + 1 \in 1..MaxAttempts
    BY DispatchAssumption DEF JobsSound, Job
  <2>2. SoundJob(x) /\ SoundJob(y) /\ x.pc = "pending" /\ y.pc = "pending"
    BY <2>1, JobsAreSound, NewJobSound DEF NewJob
  <2>3. /\ \A i \in Jobs : job'[i] \in {job[i], x, y}
        /\ job' \in [Jobs -> Job]
    <3>1. x \in Job /\ y \in Job
      BY <2>2 DEF SoundJob
    <3> HIDE DEF x, y
    <3> QED BY <3>1 DEF x, y
  <2>4. JobsSound' /\ NoNewClaim
    <3> HIDE DEF x, y
    <3> QED BY <2>2, <2>3 DEF JobsSound, NoNewClaim, Claiming, SoundJob
  <2>5. TypeOK' /\ SessionsSound'
    BY <2>3, DispatchAssumption DEF SessionsSound
  <2> QED BY <2>4, <2>5, RowsUnchanged, TameStep
<1>4. ASSUME NEW h \in Hosts, CrashHost(h)
      PROVE  IInv'
  <2> USE <1>4 DEF CrashHost
  <2>1. NoSession \in Session /\ NoSession.stage = "none"
    BY DispatchAssumption DEF Session, NoSession
  <2>2. TypeOK' /\ SessionsSound'
    BY <2>1, DispatchAssumption DEF SessionsSound
  <2> QED BY <2>2, RowsUnchanged, JobsAlone
<1> QED BY <1>1, <1>2, <1>3, <1>4 DEF FaultStep

-----------------------------------------------------------------------------
(* The inductive invariant *)

LEMMA InitHolds == Init => IInv
<1> SUFFICES ASSUME Init PROVE IInv
  OBVIOUS
<1> USE DEF Init
<1>1. TypeOK
  BY DispatchAssumption, RowValues
     DEF TypeOK, Job, FreeJob, Session, NoSession, User, Idle, Request, Ping
<1>2. JobsSound /\ SessionsSound /\ ClaimedNotQueued /\ ClaimExclusive
  BY DEF JobsSound, SessionsSound, ClaimedNotQueued, ClaimExclusive, Claiming,
         FreeJob, NoSession
<1>3. NeverUploading /\ JoiningHasRecorder
  BY DEF NeverUploading, JoiningHasRecorder, Absent
<1> QED BY <1>1, <1>2, <1>3 DEF IInv

LEMMA StutterKeeps == IInv /\ UNCHANGED vars => IInv'
BY DEF IInv, vars, TypeOK, JobsSound, SessionsSound, NeverUploading,
       JoiningHasRecorder, ClaimedNotQueued, ClaimExclusive, Claiming

LEMMA StepKeeps == IInv /\ [Next]_vars => IInv'
<1> SUFFICES ASSUME IInv, [Next]_vars PROVE IInv'
  OBVIOUS
<1>1. CASE UNCHANGED vars
  BY <1>1, StutterKeeps
<1>2. CASE \E m \in Meetings :
              CreateStep(m) \/ UserStep(m) \/ Sweep(m) \/ TranscriptionEnds(m)
  BY <1>2, CreateStepKeeps, UserStepKeeps, BackendKeeps
<1>3. CASE \E j \in Jobs : JobStep(j)
  BY <1>3, JobStepKeeps
<1>4. CASE \E q \in request : ReceiveJoin(q)
  BY <1>4, ReceiveJoinKeeps
<1>5. CASE \E h \in Hosts, m \in Meetings : SessionStep(h, m)
  BY <1>5, SessionStepKeeps
<1>6. CASE \E p \in ping : ReceivePing(p)
  BY <1>6, BackendKeeps
<1>7. CASE FaultStep
  BY <1>7, FaultKeeps
<1> QED BY <1>1, <1>2, <1>3, <1>4, <1>5, <1>6, <1>7 DEF Next

\* What every reachable state of the dispatcher satisfies, for any number of
\* meetings, recorders, jobs, losses and crashes.
THEOREM Invariance == Spec => []IInv
BY InitHolds, StepKeeps, PTL DEF Spec

\* Type correctness: every value stays in its declared range, the attempt
\* counter of _requeue included.
THEOREM TypeCorrect == Spec => []TypeOK
<1>1. IInv => TypeOK
  BY DEF IInv
<1> QED BY <1>1, Invariance, PTL

\* At most one dispatch job of a meeting is between its claim and the end of its
\* join: the conditional UPDATE of dispatch_queued_meeting is a mutual exclusion.
THEOREM ClaimsExclusive == Spec => []ClaimExclusive
<1>1. IInv => ClaimExclusive
  BY DEF IInv
<1> QED BY <1>1, Invariance, PTL

\* A joining meeting always has a recorder recorded against it, for stop and
\* delete to act on.
THEOREM JoiningAlwaysHasRecorder == Spec => []JoiningHasRecorder
<1>1. IInv => JoiningHasRecorder
  BY DEF IInv
<1> QED BY <1>1, Invariance, PTL

-----------------------------------------------------------------------------
(* The row only moves forward *)

\* Every row a step can leave behind, but for the insert of a new one.
Written(r) ==
    {r, Absent, ForceFailed(r), ReturnQueued(r), FailQueued(r), Swept(r),
     AdmissionPing(r), RecordingPing(r)}
    \cup {ClaimQueued(r, h) : h \in Hosts}
    \cup UNION {FinalReport(r, outcome) : outcome \in {"completed", "failed"}}

Ended(r) == {[r EXCEPT !.status = outcome] : outcome \in {"completed", "failed"}}

RowWritten(m) ==
    \/ row'[m] \in Written(row[m])
    \/ row[m].status = "transcribing" /\ row'[m] \in Ended(row[m])
    \/ api[m] = "none" /\ api'[m] # "none" /\ row'[m] = Inserted

\* For the row of m alone, whichever row a step is about.
LEMMA OneRowWritten ==
    ASSUME IInv, NEW k \in Meetings, NEW m \in Meetings, NEW s,
           row' = [row EXCEPT ![k] = s],
           \/ s \in Written(row[k])
           \/ row[k].status = "transcribing" /\ s \in Ended(row[k])
           \/ api[k] = "none" /\ api'[k] # "none" /\ s = Inserted
    PROVE  RowWritten(m)
<1>1. CASE m = k
  BY <1>1 DEF IInv, TypeOK, RowWritten
<1>2. CASE m # k
  BY <1>2 DEF IInv, TypeOK, RowWritten, Written
<1> QED BY <1>1, <1>2

LEMMA StepWrites ==
    ASSUME IInv, [Next]_vars, NEW m \in Meetings
    PROVE  RowWritten(m)
<1>1. CASE row' = row
  BY <1>1 DEF RowWritten, Written
<1>2. ASSUME NEW k \in Meetings, CreateStep(k), row' # row
      PROVE  RowWritten(m)
  BY <1>2, OneRowWritten DEF IInv, TypeOK, CreateStep, CreateMeeting, CreateReturns, CreateFails,
     EnqueueDispatch, Written
<1>3. ASSUME NEW k \in Meetings, UserStep(k), row' # row
      PROVE  RowWritten(m)
  BY <1>3, OneRowWritten DEF UserStep, StopRead, CancelQueued, RefreshRow, StopBot, DeleteRead,
     DeleteStopsBot, DeleteRow, Written
<1>4. ASSUME NEW k \in Meetings, Sweep(k) \/ TranscriptionEnds(k)
      PROVE  RowWritten(m)
  BY <1>4, OneRowWritten DEF Sweep, TranscriptionEnds, Written, Ended
<1>5. ASSUME NEW j \in Jobs, JobStep(j), row' # row
      PROVE  RowWritten(m)
  <2>1. job[j].m \in Meetings /\ (job[j].pc = "chosen" => job[j].host \in Hosts)
    BY <1>5 DEF IInv, JobsSound, JobStep, ReadMeeting, ChooseHost, ClaimMeeting, PostJoin,
       ConnectFails, JoinTimesOut, ReturnToQueue, Requeue, RecordDispatchExhausted
  <2> QED BY <1>5, <2>1, OneRowWritten DEF JobStep, ReadMeeting, ChooseHost, ClaimMeeting,
         PostJoin, ConnectFails, JoinTimesOut, ReturnToQueue, Requeue,
         RecordDispatchExhausted, Written
<1>6. ASSUME NEW h \in Hosts, NEW k \in Meetings, SessionStep(h, k), row' # row
      PROVE  RowWritten(m)
  <2>1. PICK s \in FinalReport(row[k], session[h][k].stage) : row' = [row EXCEPT ![k] = s]
    BY <1>6 DEF SessionStep, JoinSucceeds, Admitted, SessionFails, MeetingEnds, UploadEnds,
       NotifyBackend
  <2>2. session[h][k].stage \in {"completed", "failed"}
    BY <1>6 DEF SessionStep, JoinSucceeds, Admitted, SessionFails, MeetingEnds, UploadEnds,
       NotifyBackend
  <2> QED BY <2>1, <2>2, OneRowWritten DEF Written
<1>7. ASSUME NEW p \in ping, ReceivePing(p), row' # row
      PROVE  RowWritten(m)
  BY <1>7, OneRowWritten DEF ReceivePing, Written, IInv, TypeOK, Ping
<1>8. (\E q \in request : ReceiveJoin(q)) \/ FaultStep \/ UNCHANGED vars => row' = row
  BY DEF ReceiveJoin, FaultStep, CrashJob, LoseJob, CrashAfterRequeue, CrashHost, vars
<1> QED BY <1>1, <1>2, <1>3, <1>4, <1>5, <1>6, <1>7, <1>8 DEF Next

LEMMA WritesForward ==
    ASSUME NEW r \in RowType, r.status # "uploading", NEW s \in Written(r)
    PROVE  Forward(r, s) /\ (~Exists(r) => ~Exists(s))
<1> USE DEF Forward, Rank, Exists
<1>1. CASE s \in {r, Absent, ForceFailed(r), FailQueued(r), Swept(r)}
  BY <1>1 DEF RowType, Absent, ForceFailed, FailQueued, Swept, Status, NonTerminal
<1>2. CASE s = ReturnQueued(r)
  BY <1>2 DEF RowType, ReturnQueued
<1>5. CASE \E h \in Hosts : s = ClaimQueued(r, h)
  BY <1>5 DEF RowType, ClaimQueued
<1>3. CASE s = AdmissionPing(r) \/ s = RecordingPing(r)
  BY <1>3 DEF RowType, AdmissionPing, RecordingPing, Status, NonTerminal
<1>4. ASSUME NEW outcome \in {"completed", "failed"}, s \in FinalReport(r, outcome)
      PROVE  Forward(r, s) /\ (~Exists(r) => ~Exists(s))
  <2>1. CASE s = FailedReport(r)
    BY <2>1 DEF RowType, FailedReport, Status, NonTerminal
  <2>2. CASE s = CompletedReport(r)
    BY <2>2 DEF RowType, CompletedReport, AcceptsCompleted, Status, NonTerminal
  <2>3. CASE AcceptsCompleted(r) /\ s = UndoCompleted(CompletedReport(r))
    <3>1. s.status = "failed" /\ Exists(r)
      BY <2>3 DEF RowType, UndoCompleted, CompletedReport, AcceptsCompleted
    <3> QED BY <3>1 DEF RowType, Status, NonTerminal
  <2> QED BY <1>4, <2>1, <2>2, <2>3 DEF FinalReport
<1> QED BY <1>1, <1>2, <1>3, <1>4, <1>5 DEF Written

\* A meeting whose POST has not inserted it has no row.
Unbooked == \A m \in Meetings : api[m] = "none" => ~Exists(row[m])

LEMMA UnbookedInvariant == Spec => []Unbooked
<1>1. Init => Unbooked
  BY DEF Init, Unbooked, Absent, Exists
<1>2. IInv /\ Unbooked /\ [Next]_vars => Unbooked'
  <2> SUFFICES ASSUME IInv, Unbooked, [Next]_vars, NEW m \in Meetings, api'[m] = "none"
               PROVE  ~Exists(row'[m])
    BY DEF Unbooked, Exists
  <2>1. api[m] = "none"
    <3>1. ASSUME NEW k \in Meetings, CreateStep(k)
          PROVE  api[m] = "none"
      BY <3>1 DEF IInv, TypeOK, CreateStep, CreateMeeting, CreateReturns, CreateFails,
         EnqueueDispatch
    <3>2. ASSUME NEW k \in Meetings, UserStep(k) \/ Sweep(k) \/ TranscriptionEnds(k)
          PROVE  UNCHANGED api
      BY <3>2 DEF UserStep, StopRead, CancelQueued, RefreshRow, StopBot, DeleteRead, DeleteStopsBot,
         DeleteRow, Sweep, TranscriptionEnds
    <3>3. ASSUME NEW j \in Jobs, JobStep(j)
          PROVE  UNCHANGED api
      BY <3>3 DEF JobStep, ReadMeeting, ChooseHost, ClaimMeeting, PostJoin, ConnectFails,
         JoinTimesOut, ReturnToQueue, Requeue, RecordDispatchExhausted
    <3>4. ASSUME NEW h \in Hosts, NEW k \in Meetings, SessionStep(h, k)
          PROVE  UNCHANGED api
      BY <3>4 DEF SessionStep, JoinSucceeds, Admitted, SessionFails, MeetingEnds,
         UploadEnds, NotifyBackend
    <3>5. (\E q \in request : ReceiveJoin(q)) \/ (\E p \in ping : ReceivePing(p))
             \/ FaultStep \/ UNCHANGED vars => UNCHANGED api
      BY DEF ReceiveJoin, ReceivePing, FaultStep, CrashJob, LoseJob, CrashAfterRequeue,
         CrashHost, vars
    <3> QED BY <3>1, <3>2, <3>3, <3>4, <3>5 DEF Next
  <2>2. ~Exists(row[m]) /\ row[m] \in RowType /\ row[m].status # "uploading" /\ RowWritten(m)
    BY <2>1, StepWrites DEF Unbooked, IInv, TypeOK, NeverUploading
  <2>3. row'[m] \in Written(row[m])
    BY <2>2 DEF RowWritten, Exists
  <2> QED BY <2>2, <2>3, WritesForward
<1> QED BY <1>1, <1>2, Invariance, PTL DEF Spec

\* No interleaving of jobs, pings, reports, sweeps and requests moves a row
\* backwards, but for the dispatcher's own return to the queue; a deleted meeting
\* never comes back.
THEOREM RowsMoveForward == Spec => ForwardOnly
<1>1. IInv /\ Unbooked /\ [Next]_vars => [ForwardStep]_vars
  <2> SUFFICES ASSUME IInv, Unbooked, [Next]_vars, NEW m \in Meetings
               PROVE  /\ Forward(row[m], row'[m])
                      /\ ~Exists(row[m]) /\ api[m] # "none" => ~Exists(row'[m])
    BY DEF ForwardStep
  <2>1. row[m] \in RowType /\ row[m].status # "uploading" /\ RowWritten(m)
    BY StepWrites DEF IInv, TypeOK, NeverUploading
  <2>2. CASE row'[m] \in Written(row[m])
    BY <2>1, <2>2, WritesForward
  <2>3. CASE row[m].status = "transcribing" /\ row'[m] \in Ended(row[m])
    BY <2>1, <2>3 DEF Ended, Forward, Rank, Exists, RowType
  <2>4. CASE api[m] = "none" /\ row'[m] = Inserted
    BY <2>4 DEF Forward, Unbooked
  <2> QED BY <2>1, <2>2, <2>3, <2>4 DEF RowWritten
<1> QED BY <1>1, Invariance, UnbookedInvariant, PTL DEF Spec, ForwardOnly
=============================================================================
