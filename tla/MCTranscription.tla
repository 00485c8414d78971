-------------------------- MODULE MCTranscription --------------------------
(* Transcription for TLC: the constants are given in the .cfg files.       *)
EXTENDS Transcription, TLC

\* Webhook requests are interchangeable, and so are job slots.
Symmetry == Permutations(Hooks) \cup Permutations(Jobs)
=============================================================================
