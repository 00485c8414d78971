--------------------------- MODULE MCRecorderPool ---------------------------
(***************************************************************************)
(* RecorderPool for TLC: the constants are given in the .cfg file.  A      *)
(* behaviour looks at one of three things: two recorders and two meetings  *)
(* when nothing fails; one recorder and two meetings with a fault; or one  *)
(* recorder and one meeting while the sign-in it needs comes and goes.      *)
(***************************************************************************)
EXTENDS RecorderPool, TLC

CONSTANTS FirstHost, FirstMeeting

VARIABLE focus

fvars == <<vars, focus>>

FocusInit ==
    /\ Init
    /\ focus \in {"pool", "faults", "sign-in"}
    /\ pool = IF focus = "pool" THEN Hosts ELSE {FirstHost}
    /\ job = IF focus = "sign-in" THEN [[m \in Meetings |-> Ended] EXCEPT ![FirstMeeting] = Waiting]
             ELSE [m \in Meetings |-> Waiting]
    /\ focus # "sign-in" => platform = [m \in Meetings |-> Google]

FocusNext ==
    /\ Next
    /\ UNCHANGED focus
    /\ focus # "faults" => faults' = faults
    /\ focus # "sign-in" => keeper' = keeper /\ cred' = cred
    /\ \A h \in Hosts, p \in Platforms : cred'[h][p] # cred[h][p] => p = platform[FirstMeeting]

FocusSpec ==
    /\ FocusInit
    /\ [][FocusNext]_fvars
    /\ WF_vars(Tick)
    /\ \A h \in Hosts : WF_vars(PollHost(h)) /\ WF_vars(WriteBeat(h))
    /\ WF_vars(focus = "sign-in" /\ CheckStarts(FirstHost))
    /\ \A p \in Platforms :
         /\ SF_vars(keeper[FirstHost].platform = p /\ CheckLands(FirstHost))
         /\ SF_vars(keeper[FirstHost].platform = p /\ CheckRecorded(FirstHost))
    /\ \A m \in Meetings : WF_vars(DispatchStep(m))
=============================================================================
