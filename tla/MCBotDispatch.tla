--------------------------- MODULE MCBotDispatch ---------------------------
(* BotDispatch for TLC: the constants are given in the .cfg files.         *)
EXTENDS BotDispatch, TLC

\* Recorders and job slots are interchangeable where no liveness is checked.
Symmetry == Permutations(Hosts) \cup Permutations(Jobs)

\* Two meetings contending for one recorder, with owners who only wait: their
\* requests can only take a meeting out of the queue earlier.
ContendedSpec == Init /\ [][Next /\ UNCHANGED user]_vars /\ Running
=============================================================================
