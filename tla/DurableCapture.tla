---------------------------- MODULE DurableCapture ----------------------------
(***************************************************************************)
(* What the recording session promises about the audio of one recording    *)
(* after another: once any of it is on disk it stays within the user's     *)
(* reach, as a file to recover or as a transcript, until the user gives it *)
(* up. Threads, handlers, crashes and restarts are invisible here.         *)
(***************************************************************************)
CONSTANT Recordings

VARIABLE fate     \* what the user may expect of each recording

Fates == {"unknown", "live", "kept", "transcribed", "dropped"}

Init == fate = [r \in Recordings |-> "unknown"]

Move(r, from, to) == fate[r] \in from /\ fate' = [fate EXCEPT ![r] = to]

\* The manifest row exists; nothing has been heard yet.
Begin(r) == Move(r, {"unknown"}, "live")

\* A first chunk is on disk.
Keep(r) == Move(r, {"live"}, "kept")

\* A transcript is stored.
Transcribe(r) == Move(r, {"kept"}, "transcribed")

\* The user cancels or deletes it, or it proves too short.
Drop(r) == Move(r, {"unknown", "live", "kept", "transcribed"}, "dropped")

Next == \E r \in Recordings : Begin(r) \/ Keep(r) \/ Transcribe(r) \/ Drop(r)

Spec == Init /\ [][Next]_fate
===============================================================================
