---------------------------- MODULE MCScheduler ----------------------------
(***************************************************************************)
(* Scheduler for TLC: the constants are given in the .cfg file.  Two       *)
(* replicas sweep one meeting, or one of them sweeps two: once a second    *)
(* meeting is in the table, the second replica sleeps.  Ids and requests   *)
(* are used in order, and a behaviour has one fault or edit.               *)
(***************************************************************************)
EXTENDS Scheduler, TLC

CONSTANTS SecondReplica, SecondMeeting, SecondRequest

Alone == row[SecondMeeting] = None

EitherNext ==
    /\ Next
    /\ \A m \in Meetings : row'[SecondMeeting] # None => row'[m] # None
    /\ \A q \in Requests : request'[SecondRequest] # NewRequest => request'[q] # NewRequest
    /\ edits' + lost' + crashes' <= 1
    /\ ~Alone => sweep'[SecondReplica] = sweep[SecondReplica]
    /\ Alone /\ row'[SecondMeeting] # None => sweep[SecondReplica] = Asleep

EitherSpec ==
    /\ Init
    /\ [][EitherNext]_vars
    /\ WF_vars(Tick)
    /\ \A r \in Replicas : WF_vars(SweepStep(r) /\ (Alone \/ r # SecondReplica))
    /\ \A m \in Meetings : WF_vars(Dispatch(m)) /\ WF_vars(SweepQueued(m)) /\ WF_vars(SweepUntimed(m))
=============================================================================
