--------------------------- MODULE RecorderLease ---------------------------
(***************************************************************************)
(* What the bot-join queue promises, with no rows, jobs, requests or       *)
(* sessions: a meeting is booked once, is given to at most one recorder at *)
(* a time, and once it is closed no recorder is given it again, nor does   *)
(* it open again.  A recorder may go on holding a meeting that closed      *)
(* under it (the watchdog swept it, the owner deleted it): it has to end   *)
(* its session by itself.                                                  *)
(*                                                                         *)
(* A step may move several meetings (a recorder's crash gives back all it  *)
(* held), so each action below speaks of one meeting and Next of them all. *)
(***************************************************************************)
CONSTANTS Meetings, Hosts, NoHost

VARIABLES
    phase,    \* of each meeting: "unbooked", "open" or "closed"
    holder    \* the recorder each meeting is given to

vars == <<phase, holder>>

Init ==
    /\ phase = [m \in Meetings |-> "unbooked"]
    /\ holder = [m \in Meetings |-> NoHost]

PhaseStays(m) == phase'[m] = phase[m]
HolderStays(m) == holder'[m] = holder[m]

Book(m) == phase[m] = "unbooked" /\ phase'[m] = "open" /\ HolderStays(m)

Give(m, h) ==
    phase[m] = "open" /\ holder[m] = NoHost /\ holder'[m] = h /\ PhaseStays(m)

\* The recorder refused the meeting, could not be reached, or ended it.
GiveBack(m) == holder[m] # NoHost /\ holder'[m] = NoHost

Close(m) == phase[m] = "open" /\ phase'[m] = "closed"

Move(m) ==
    \/ Book(m)
    \/ \E h \in Hosts : Give(m, h)
    \/ GiveBack(m) /\ PhaseStays(m)
    \/ Close(m) /\ HolderStays(m)
    \/ GiveBack(m) /\ Close(m)       \* a recorder's last report does both
    \/ PhaseStays(m) /\ HolderStays(m)

Next == \A m \in Meetings : Move(m)

Spec == Init /\ [][Next]_vars
=============================================================================
