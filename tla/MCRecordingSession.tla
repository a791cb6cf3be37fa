-------------------------- MODULE MCRecordingSession --------------------------
(***************************************************************************)
(* Model-checking instances of RecordingSession. Recordings, workers and   *)
(* dispatchers are interchangeable: no action or property tells one        *)
(* member of a set from another, so the invariant runs use symmetry.       *)
(***************************************************************************)
EXTENDS RecordingSession, TLC

Symmetry == Permutations(Recordings) \cup Permutations(Workers)
              \cup Permutations(ApiThreads)
===============================================================================
