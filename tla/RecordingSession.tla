--------------------------- MODULE RecordingSession ---------------------------
(***************************************************************************)
(* The recording session of src/core/handlers/recording_handlers.py: the   *)
(* intent handlers that begin, stop and cancel a capture, the loop thread  *)
(* each capture runs in, the transcription pipeline, the threads that      *)
(* transcribe a recovered recording, and process exit and restart, down to *)
(* the durable state they leave: the vault file of each recording (its     *)
(* chunks are the business of AudioVault) and its database rows.           *)
(*                                                                         *)
(* Handlers run on the thread that dispatches the intent (the API event    *)
(* loop or the hotkey listener) and all but the first lines of             *)
(* handle_begin run without the lock, so a handler is split at every read  *)
(* or write of state another thread uses.                                  *)
(***************************************************************************)
EXTENDS Naturals, FiniteSets

CONSTANTS
  Recordings,    \* recordings ever begun; each also names its loop thread
  Workers,       \* threads for TranscribeRecoveredRecordingIntent
  Dispatchers,   \* threads that dispatch intents
  ApiThreads,    \* those that serve the API: they may cancel, recover, delete
  NoRec,         \* Python's None where a writer or recording id may be
  MinFrames,     \* recording.min_duration_ms, in frames
  MaxFrames,     \* recording.max_recording_minutes, in frames
  MaxCrashes,    \* bound on the number of process exits explored
  MaxTranscripts,\* bound: a recovered recording is transcribed again only
                 \* while it has fewer transcripts than this
  MayCancel,     \* whether the user cancels recordings
  MayShutdown,   \* whether the user closes the window
  LiveRecovery,  \* whether the user also recovers or deletes a recording
                 \* that a thread still works on
  Faults         \* whether the disk, the device or the engine may fail

Threads == Recordings \cup Workers

ASSUME ConstantsAssumption ==
  /\ NoRec \notin Recordings
  /\ Recordings \cap Workers = {}
  /\ ApiThreads \subseteq Dispatchers
  /\ MinFrames \in Nat /\ MaxFrames \in Nat
  /\ MaxCrashes \in Nat /\ MaxTranscripts \in Nat
  /\ MayCancel \in BOOLEAN /\ MayShutdown \in BOOLEAN
  /\ LiveRecovery \in BOOLEAN /\ Faults \in BOOLEAN

VARIABLES
  isRecording, stopEvent, spool,
                   \* _is_recording, _recording_stop and _spool
  closing,         \* how far shutdown_coordinator is
  dpc, drec,       \* where each dispatcher is in a handler; its recording
  tpc, job, mic,   \* where each thread is; the recording it works on (None
                   \* without a writer); the frames it holds in memory
  fh, heard, durable, file,
                   \* per recording: the writer's file handle, the frames it
                   \* was given, those fsynced, and whether the file exists
  status, linked, made, assets,
                   \* per recording: its recording_sessions status, whether
                   \* transcript_id is set, and the transcripts and audio
                   \* assets inserted for it
  up, crashes,     \* whether the process runs; how often it has died
  forsaken,        \* history: recordings whose audio was given up on purpose
  redone           \* history: recordings of which a transcription began while
                   \* another one was at work, or ended after it had stored a
                   \* transcript, or whose deletion left the file

sessionVars  == <<isRecording, stopEvent, spool, closing>>
dispatchVars == <<dpc, drec>>
threadVars   == <<tpc, job, mic>>
vaultVars    == <<fh, heard, durable, file>>
dbVars       == <<status, linked, made, assets>>
processVars  == <<up, crashes>>
history      == <<forsaken, redone>>
vars == <<sessionVars, dispatchVars, threadVars, vaultVars, dbVars,
          processVars, history>>

Recoverable == {"active", "recorded", "transcribing", "recovered", "failed"}
Statuses    == Recoverable \cup {"none", "completed", "cancelled", "deleted"}
HandlerSteps ==
  {"idle", "clear", "open", "row", "stop_set", "cancel_stop", "cancel_flag",
   "cancel_spool", "discard_close", "discard_unlink", "discard_mark",
   "del_unlink", "del_mark"}
ThreadSteps ==
  {"unborn", "start", "capture", "finalize", "fin_mark", "check", "short",
   "except", "except_mark", "load", "guard", "model", "run", "add", "asset",
   "complete", "derived", "done"}

TypeOK ==
  /\ isRecording \in BOOLEAN /\ stopEvent \in BOOLEAN
  /\ closing \in {"no", "event", "stop", "done"}
  /\ spool \in Recordings \cup {NoRec}
  /\ dpc \in [Dispatchers -> HandlerSteps]
  /\ drec \in [Dispatchers -> Recordings \cup {NoRec}]
  /\ tpc \in [Threads -> ThreadSteps]
  /\ job \in [Threads -> Recordings \cup {NoRec}]
  /\ mic \in [Threads -> Nat]
  /\ fh \in [Recordings -> {"none", "open", "closed"}]
  /\ heard \in [Recordings -> Nat]
  /\ durable \in [Recordings -> Nat]
  /\ file \in [Recordings -> BOOLEAN]
  /\ status \in [Recordings -> Statuses]
  /\ linked \in [Recordings -> BOOLEAN]
  /\ made \in [Recordings -> Nat]
  /\ assets \in [Recordings -> Nat]
  /\ up \in BOOLEAN /\ crashes \in Nat
  /\ forsaken \subseteq Recordings /\ redone \subseteq Recordings

Init ==
  /\ isRecording = FALSE /\ stopEvent = FALSE /\ spool = NoRec
  /\ closing = "no"
  /\ dpc = [d \in Dispatchers |-> "idle"]
  /\ drec = [d \in Dispatchers |-> NoRec]
  /\ tpc = [t \in Threads |-> "unborn"]
  /\ job = [t \in Threads |-> NoRec]
  /\ mic = [t \in Threads |-> 0]
  /\ fh = [r \in Recordings |-> "none"]
  /\ heard = [r \in Recordings |-> 0]
  /\ durable = [r \in Recordings |-> 0]
  /\ file = [r \in Recordings |-> FALSE]
  /\ status = [r \in Recordings |-> "none"]
  /\ linked = [r \in Recordings |-> FALSE]
  /\ made = [r \in Recordings |-> 0]
  /\ assets = [r \in Recordings |-> 0]
  /\ up = TRUE /\ crashes = 0
  /\ forsaken = {} /\ redone = {}

\* _shutdown_event is set.
shuttingDown == closing # "no"

Step(d, from, to)   == dpc[d] = from /\ dpc' = [dpc EXCEPT ![d] = to]
Advance(t, from, to) == tpc[t] = from /\ tpc' = [tpc EXCEPT ![t] = to]

\* mark_recording_status; a thread without a writer marks nothing.
Mark(r, s) == status' = IF r = NoRec THEN status ELSE [status EXCEPT ![r] = s]

-----------------------------------------------------------------------------
(* handle_begin *)

\* Bound: a begin is explored only while a recording is left for it.
RecordingLeft ==
  Cardinality({d \in Dispatchers : dpc[d] \in {"clear", "open"}})
    < Cardinality({r \in Recordings : fh[r] = "none"})

\* Under _recording_lock: refuse unless idle, else claim the session.
BeginClaim(d) ==
  /\ up /\ ~isRecording /\ RecordingLeft
  /\ Step(d, "idle", "clear")
  /\ isRecording' = TRUE
  /\ UNCHANGED <<stopEvent, spool, closing, drec,
                 threadVars, vaultVars, dbVars, processVars, history>>

BeginClear(d) ==
  /\ Step(d, "clear", "open")
  /\ stopEvent' = FALSE
  /\ UNCHANGED <<isRecording, spool, closing, drec,
                 threadVars, vaultVars, dbVars, processVars, history>>

\* AudioVaultWriter: open a new file, write and fsync its header.
BeginOpen(d) ==
  \E r \in Recordings :
    /\ fh[r] = "none"
    /\ Step(d, "open", "row")
    /\ drec' = [drec EXCEPT ![d] = r]
    /\ fh' = [fh EXCEPT ![r] = "open"]
    /\ file' = [file EXCEPT ![r] = TRUE]
    /\ UNCHANGED <<sessionVars, threadVars, heard, durable, dbVars,
                   processVars, history>>

\* ... insert the row, publish the writer and start the loop thread.
BeginStart(d) ==
  LET r == drec[d] IN
  /\ Step(d, "row", "idle")
  /\ status' = [status EXCEPT ![r] = "active"]
  /\ spool' = r
  /\ tpc' = [tpc EXCEPT ![r] = "start"]
  /\ UNCHANGED <<isRecording, stopEvent, closing, drec,
                 job, mic, vaultVars, linked, made, assets, processVars, history>>

\* No database, or the writer raises: an AudioVaultError releases the session,
\* any other exception ends the handler with the session still claimed.
BeginFails(d) ==
  /\ Faults
  /\ Step(d, "open", "idle") \/ Step(d, "row", "idle")
  /\ isRecording' \in {FALSE, isRecording}
  /\ UNCHANGED <<stopEvent, spool, closing, drec,
                 threadVars, vaultVars, dbVars, processVars, history>>

-----------------------------------------------------------------------------
(* handle_stop and handle_cancel: neither takes the lock *)

StopCheck(d) ==
  /\ isRecording
  /\ Step(d, "idle", "stop_set")
  /\ UNCHANGED <<sessionVars, drec, threadVars, vaultVars, dbVars,
                 processVars, history>>

StopSet(d) ==
  /\ Step(d, "stop_set", "idle")
  /\ stopEvent' = TRUE
  /\ UNCHANGED <<isRecording, spool, closing, drec,
                 threadVars, vaultVars, dbVars, processVars, history>>

\* handle_toggle reads the flag and calls one of the two handlers, which check
\* it again: what it does is what one of them does, or nothing.
Toggle(d) == BeginClaim(d) \/ StopCheck(d)

CancelCheck(d) ==
  /\ MayCancel /\ isRecording
  /\ Step(d, "idle", "cancel_stop")
  /\ UNCHANGED <<sessionVars, drec, threadVars, vaultVars, dbVars,
                 processVars, history>>

CancelStop(d) ==
  /\ Step(d, "cancel_stop", "cancel_flag")
  /\ stopEvent' = TRUE
  /\ UNCHANGED <<isRecording, spool, closing, drec,
                 threadVars, vaultVars, dbVars, processVars, history>>

CancelFlag(d) ==
  /\ Step(d, "cancel_flag", "cancel_spool")
  /\ isRecording' = FALSE
  /\ UNCHANGED <<stopEvent, spool, closing, drec,
                 threadVars, vaultVars, dbVars, processVars, history>>

CancelSpool(d) ==
  /\ Step(d, "cancel_spool", IF spool = NoRec THEN "idle" ELSE "discard_close")
  /\ drec' = [drec EXCEPT ![d] = spool]
  /\ UNCHANGED <<sessionVars, threadVars, vaultVars, dbVars, processVars,
                 history>>

\* AudioVaultWriter.discard, whose three effects a loop thread may see apart.
DiscardClose(d) ==
  /\ Step(d, "discard_close", "discard_unlink")
  /\ fh' = [fh EXCEPT ![drec[d]] = "closed"]
  /\ forsaken' = forsaken \cup {drec[d]}
  /\ UNCHANGED <<sessionVars, drec, threadVars, heard, durable, file, dbVars,
                 processVars, redone>>

DiscardUnlink(d) ==
  /\ Step(d, "discard_unlink", "discard_mark")
  /\ file' = [file EXCEPT ![drec[d]] = FALSE]
  /\ UNCHANGED <<sessionVars, drec, threadVars, fh, heard, durable, dbVars,
                 processVars, history>>

\* unlink raises: the row stays as it is, and the session keeps the writer.
DiscardFails(d) ==
  /\ Faults /\ Step(d, "discard_unlink", "idle")
  /\ UNCHANGED <<sessionVars, drec, threadVars, vaultVars, dbVars, processVars,
                 history>>

DiscardMark(d) ==
  /\ Step(d, "discard_mark", "idle")
  /\ Mark(drec[d], "cancelled")
  /\ spool' = NoRec
  /\ UNCHANGED <<isRecording, stopEvent, closing, drec,
                 threadVars, vaultVars, linked, made, assets, processVars,
                 history>>

-----------------------------------------------------------------------------
(* _recording_loop, in the thread that the begin of recording t started *)

LoopStart(t) ==
  /\ Advance(t, "start", "capture")
  /\ job' = [job EXCEPT ![t] = spool]
  /\ UNCHANGED <<sessionVars, dispatchVars, mic, vaultVars, dbVars,
                 processVars, history>>

\* A frame of the device; write_frames keeps it pending or commits what is
\* pending as a chunk. A writer that discard has closed ignores it.
Capture(t) ==
  /\ Advance(t, "capture", "capture")
  /\ mic[t] < MaxFrames
  /\ mic' = [mic EXCEPT ![t] = @ + 1]
  /\ IF job[t] # NoRec /\ fh[job[t]] = "open"
     THEN /\ heard' = [heard EXCEPT ![job[t]] = @ + 1]
          /\ \E n \in {durable[job[t]], heard[job[t]] + 1} :
               durable' = [durable EXCEPT ![job[t]] = n]
     ELSE UNCHANGED <<heard, durable>>
  /\ UNCHANGED <<sessionVars, dispatchVars, job, fh, file, dbVars,
                 processVars, history>>

\* Mutant: the stop event is polled only after a frame has arrived.
CaptureEndAfterFrame(t) ==
  /\ Advance(t, "capture", "finalize")
  /\ mic[t] > 0 /\ (stopEvent \/ mic[t] = MaxFrames)
  /\ UNCHANGED <<sessionVars, dispatchVars, job, mic, vaultVars, dbVars,
                 processVars, history>>

\* Mutant: the capture's audio is used without finalizing the vault file.
CaptureEndUnfinalized(t) ==
  /\ Advance(t, "capture", "check")
  /\ stopEvent \/ mic[t] = MaxFrames
  /\ UNCHANGED <<sessionVars, dispatchVars, job, mic, vaultVars, dbVars,
                 processVars, history>>

\* record_audio returns once it polls the stop event or reaches its limit.
CaptureEnd(t) ==
  /\ Advance(t, "capture", "finalize")
  /\ stopEvent \/ mic[t] = MaxFrames
  /\ UNCHANGED <<sessionVars, dispatchVars, job, mic, vaultVars, dbVars,
                 processVars, history>>

\* A discard is closing the file the thread writes to.
ClosedUnder(t) ==
  \E d \in Dispatchers : dpc[d] = "discard_unlink" /\ drec[d] = job[t]

\* The device is lost, a write fails, or discard closes the file under a write;
\* or finalize closes the file but cannot mark the row.
CaptureFails(t) ==
  /\ \/ /\ Advance(t, "capture", "except") \/ Advance(t, "finalize", "except")
        /\ Faults \/ ClosedUnder(t)
     \/ Faults /\ Advance(t, "fin_mark", "except")
  /\ UNCHANGED <<sessionVars, dispatchVars, job, mic, vaultVars, dbVars,
                 processVars, history>>

\* finalize commits what is pending and closes the file; a writer that is
\* closed already returns without marking the row.
Finalize(t) ==
  LET r == job[t]
      live == r # NoRec /\ fh[r] = "open"
  IN  /\ Advance(t, "finalize", IF live THEN "fin_mark" ELSE "check")
      /\ IF live
         THEN /\ durable' = [durable EXCEPT ![r] = heard[r]]
              /\ fh' = [fh EXCEPT ![r] = "closed"]
         ELSE UNCHANGED <<durable, fh>>
      /\ spool' = IF r # NoRec /\ ~live THEN NoRec ELSE spool
      /\ UNCHANGED <<isRecording, stopEvent, closing,
                     dispatchVars, job, mic, heard, file, dbVars, processVars,
                     history>>

FinalizeMark(t) ==
  /\ Advance(t, "fin_mark", "check")
  /\ Mark(job[t], "recorded")
  /\ spool' = NoRec
  /\ UNCHANGED <<isRecording, stopEvent, closing,
                 dispatchVars, job, mic, vaultVars, linked, made, assets,
                 processVars, history>>

\* A session that is no longer recording was cancelled: nothing more to do.
\* Otherwise release it and transcribe what was captured.
LoopCheck(t) ==
  /\ Advance(t, "check", IF ~isRecording THEN "done"
                         ELSE IF mic[t] = 0 \/ mic[t] < MinFrames THEN "short"
                         ELSE "guard")
  /\ isRecording' = FALSE
  /\ UNCHANGED <<stopEvent, spool, closing, dispatchVars,
                 job, mic, vaultVars, dbVars, processVars, history>>

\* Too short or empty: _cleanup_spool unlinks the vault file.
TooShort(t) ==
  /\ Advance(t, "short", "done")
  /\ IF job[t] = NoRec
     THEN UNCHANGED <<file, forsaken>>
     ELSE /\ file' = [file EXCEPT ![job[t]] = FALSE]
          /\ forsaken' = forsaken \cup {job[t]}
  /\ UNCHANGED <<sessionVars, dispatchVars, job, mic, fh, heard, durable,
                 dbVars, processVars, redone>>

\* The except path finalizes what it can ...
LoopExcept(t) ==
  LET r == job[t] IN
  /\ Advance(t, "except", "except_mark")
  /\ spool' = IF r = NoRec THEN spool ELSE NoRec
  /\ IF r # NoRec /\ fh[r] = "open"
     THEN \/ /\ durable' = [durable EXCEPT ![r] = heard[r]]
             /\ fh' = [fh EXCEPT ![r] = "closed"]
             /\ Mark(r, "recorded")
          \/ Faults /\ UNCHANGED <<durable, fh, status>>
     ELSE UNCHANGED <<durable, fh, status>>
  /\ UNCHANGED <<isRecording, stopEvent, closing,
                 dispatchVars, job, mic, heard, file, linked, made, assets,
                 processVars, history>>

\* ... marks the row failed and releases the session, whoever claimed it.
LoopExceptMark(t) ==
  /\ Advance(t, "except_mark", "done")
  /\ Mark(job[t], "failed")
  /\ isRecording' = FALSE
  /\ UNCHANGED <<stopEvent, spool, closing, dispatchVars,
                 job, mic, vaultVars, linked, made, assets, processVars,
                 history>>

-----------------------------------------------------------------------------
(* _transcribe_and_store, in a loop thread or a recovery worker *)

Guard(t) ==
  /\ Advance(t, "guard", IF shuttingDown THEN "done" ELSE "model")
  /\ UNCHANGED <<isRecording, stopEvent, spool, closing, dispatchVars,
                 job, mic, vaultVars, dbVars, processVars, history>>

\* The model is loaded; the row is marked before inference starts.
MarkTranscribing(t) ==
  /\ Advance(t, "model", "run")
  /\ Mark(job[t], "transcribing")
  /\ UNCHANGED <<sessionVars, dispatchVars, job, mic, vaultVars, linked, made,
                 assets, processVars, history>>

Transcribe(t) ==
  /\ Advance(t, "run", "add")
  /\ UNCHANGED <<sessionVars, dispatchVars, job, mic, vaultVars, dbVars,
                 processVars, history>>

\* Mutant: no speech ends the transcription without marking the row.
TranscriptionFailsUnmarked(t) ==
  /\ Advance(t, "run", "done")
  /\ UNCHANGED <<isRecording, stopEvent, spool, closing, dispatchVars,
                 job, mic, vaultVars, dbVars, processVars, history>>

\* Mutant: no speech cleans up the spool of a vault recording too.
TranscriptionFailsUnlinks(t) ==
  /\ Advance(t, "run", "done")
  /\ Mark(job[t], "failed")
  /\ file' = [r \in Recordings |-> file[r] /\ r # job[t]]
  /\ UNCHANGED <<isRecording, stopEvent, spool, closing, dispatchVars,
                 job, mic, fh, heard, durable, linked, made, assets,
                 processVars, history>>

\* It has stored a transcript.
Stored(t) == tpc[t] \in {"asset", "complete", "derived"} /\ job[t] # NoRec

\* No speech, or a stage raises: the row is marked failed. A stage after
\* add_transcript may raise too, and what it had stored stays.
TranscriptionFails(t) ==
  /\ \/ Advance(t, "run", "done")
     \/ /\ Faults
        /\ \E s \in {"model", "add", "asset", "complete", "derived"} :
             Advance(t, s, "done")
  /\ Mark(job[t], "failed")
  /\ redone' = IF Stored(t) THEN redone \cup {job[t]} ELSE redone
  /\ UNCHANGED <<isRecording, stopEvent, spool, closing, dispatchVars,
                 job, mic, vaultVars, linked, made, assets, processVars,
                 forsaken>>

\* Mutant: the row is completed without an audio asset.
AddTranscriptOnly(t) ==
  /\ Advance(t, "add", "complete")
  /\ made' = [made EXCEPT ![job[t]] = @ + 1]
  /\ UNCHANGED <<sessionVars, dispatchVars, job, mic, vaultVars, status,
                 linked, assets, processVars, history>>

\* _persist_transcript is three transactions: the transcript, the audio asset
\* that points at the vault file, and the row's completion. Without a
\* recording id there is only the first.
AddTranscript(t) ==
  LET r == IF job[t] = NoRec THEN t ELSE job[t] IN
  /\ Advance(t, "add", IF job[t] = NoRec THEN "derived" ELSE "asset")
  /\ made' = [made EXCEPT ![r] = @ + 1]
  /\ UNCHANGED <<sessionVars, dispatchVars, job, mic, vaultVars, status,
                 linked, assets, processVars, history>>

AddAudioAsset(t) ==
  /\ Advance(t, "asset", "complete")
  /\ assets' = [assets EXCEPT ![job[t]] = @ + 1]
  /\ UNCHANGED <<sessionVars, dispatchVars, job, mic, vaultVars, status,
                 linked, made, processVars, history>>

Complete(t) ==
  /\ Advance(t, "complete", "derived")
  /\ Mark(job[t], "completed")
  /\ linked' = [linked EXCEPT ![job[t]] = TRUE]
  /\ UNCHANGED <<sessionVars, dispatchVars, job, mic, vaultVars, made, assets,
                 processVars, history>>

\* Insight, title and clipboard work, then the finally clause.
DeriveAndFinish(t) ==
  /\ Advance(t, "derived", "done")
  /\ UNCHANGED <<isRecording, stopEvent, spool, closing, dispatchVars,
                 job, mic, vaultVars, dbVars, processVars, history>>

-----------------------------------------------------------------------------
(* handle_transcribe_recovered and handle_delete_recovered *)

\* No thread still works on the recording.
Settled(r) ==
  /\ \A t \in Threads : job[t] = r => tpc[t] \in {"unborn", "done"}
  /\ tpc[r] \in {"unborn", "done"}

\* Mutant: a completed recording is not refused.
TranscribeRecoveredAgain(d) ==
  \E r \in Recordings, w \in Workers :
    /\ up /\ dpc[d] = "idle"
    /\ status[r] # "none" /\ made[r] < MaxTranscripts /\ Settled(r)
    /\ tpc[w] \in {"unborn", "done"}
    /\ tpc' = [tpc EXCEPT ![w] = "load"]
    /\ job' = [job EXCEPT ![w] = r]
    /\ UNCHANGED <<sessionVars, dispatchVars, mic, vaultVars, dbVars,
                   processVars, history>>

TranscribeRecovered(d) ==
  \E r \in Recordings, w \in Workers :
    /\ up /\ dpc[d] = "idle"
    /\ status[r] # "none" /\ ~(status[r] = "completed" /\ linked[r])
    /\ made[r] < MaxTranscripts
    /\ LiveRecovery \/ Settled(r)
    /\ tpc[w] \in {"unborn", "done"}
    /\ tpc' = [tpc EXCEPT ![w] = "load"]
    /\ job' = [job EXCEPT ![w] = r]
    /\ redone' = IF Settled(r) THEN redone ELSE redone \cup {r}
    /\ UNCHANGED <<sessionVars, dispatchVars, mic, vaultVars, dbVars,
                   processVars, forsaken>>

\* load_audio reads every fsynced chunk; a missing file, an empty vault or an
\* exception marks the row failed.
LoadAudio(t) ==
  \E loaded \in BOOLEAN :
    /\ Advance(t, "load", IF loaded THEN "guard" ELSE "done")
    /\ loaded => file[job[t]] /\ durable[job[t]] > 0
    /\ ~loaded => Faults \/ ~file[job[t]] \/ durable[job[t]] = 0
    /\ IF loaded THEN UNCHANGED status ELSE Mark(job[t], "failed")
    /\ mic' = [mic EXCEPT ![t] = IF loaded THEN durable[job[t]] ELSE 0]
    /\ UNCHANGED <<sessionVars, dispatchVars, job, vaultVars, linked, made,
                   assets, processVars, history>>

DeleteCheck(d) ==
  \E r \in Recordings :
    /\ up
    /\ status[r] \notin {"none", "active", "transcribing"}
    /\ LiveRecovery \/ Settled(r)
    /\ Step(d, "idle", "del_unlink")
    /\ drec' = [drec EXCEPT ![d] = r]
    /\ UNCHANGED <<sessionVars, threadVars, vaultVars, dbVars, processVars,
                   history>>

\* The row is marked deleted even when unlink raises.
DeleteUnlink(d) ==
  /\ Step(d, "del_unlink", "del_mark")
  /\ \/ file' = [file EXCEPT ![drec[d]] = FALSE] /\ UNCHANGED redone
     \/ Faults /\ UNCHANGED file /\ redone' = redone \cup {drec[d]}
  /\ forsaken' = forsaken \cup {drec[d]}
  /\ UNCHANGED <<sessionVars, drec, threadVars, fh, heard, durable, dbVars,
                 processVars>>

DeleteMark(d) ==
  /\ Step(d, "del_mark", "idle")
  /\ Mark(drec[d], "deleted")
  /\ UNCHANGED <<sessionVars, drec, threadVars, vaultVars, linked, made,
                 assets, processVars, history>>

-----------------------------------------------------------------------------
(* Shutdown, process exit and restart *)

\* shutdown_coordinator sets the shutdown event, then cancel_for_shutdown sets
\* the stop event and releases the session.
Shutdown ==
  /\ MayShutdown /\ up /\ closing = "no"
  /\ closing' = "event"
  /\ UNCHANGED <<isRecording, stopEvent, spool, dispatchVars,
                 threadVars, vaultVars, dbVars, processVars, history>>

ShutdownStops ==
  /\ closing = "event"
  /\ closing' = "stop" /\ stopEvent' = TRUE
  /\ UNCHANGED <<isRecording, spool, dispatchVars, threadVars,
                 vaultVars, dbVars, processVars, history>>

ShutdownReleases ==
  /\ closing = "stop"
  /\ closing' = "done" /\ isRecording' = FALSE
  /\ UNCHANGED <<stopEvent, spool, dispatchVars, threadVars,
                 vaultVars, dbVars, processVars, history>>

\* A crash, a power cut, or the exit that follows cleanup: every thread is a
\* daemon. What was pending in a writer is lost.
Exit ==
  /\ up /\ crashes < MaxCrashes
  /\ up' = FALSE /\ crashes' = crashes + 1
  /\ isRecording' = FALSE /\ stopEvent' = FALSE /\ spool' = NoRec
  /\ closing' = "no"
  /\ dpc' = [d \in Dispatchers |-> "idle"]
  /\ drec' = [d \in Dispatchers |-> NoRec]
  /\ tpc' = [t \in Threads |-> "unborn"]
  /\ job' = [t \in Threads |-> NoRec]
  /\ mic' = [t \in Threads |-> 0]
  /\ fh' = [r \in Recordings |-> IF fh[r] = "none" THEN "none" ELSE "closed"]
  /\ heard' = durable
  /\ redone' = redone \cup {job[t] : t \in {u \in Threads : tpc[u] \in {"asset", "complete"}}}
  /\ UNCHANGED <<durable, file, dbVars, forsaken>>

\* Mutant: an interrupted row is recovered as one the user gave up.
RecoveredAsCancelled(r) ==
  IF status[r] \in {"active", "transcribing"} THEN "cancelled" ELSE status[r]

\* recover_interrupted_recordings, before any new recording can start.
Recovered(r) ==
  IF status[r] \in {"active", "transcribing"}
  THEN IF file[r] THEN "recovered" ELSE "failed"
  ELSE status[r]

Restart ==
  /\ ~up
  /\ up' = TRUE
  /\ status' = [r \in Recordings |-> Recovered(r)]
  /\ UNCHANGED <<sessionVars, dispatchVars, threadVars, vaultVars, linked,
                 made, assets, crashes, history>>

-----------------------------------------------------------------------------
\* The rest of a handler that has been entered.
HandlerStep(d) ==
  \/ BeginClear(d) \/ BeginOpen(d) \/ BeginStart(d) \/ BeginFails(d)
  \/ StopSet(d)
  \/ CancelStop(d) \/ CancelFlag(d) \/ CancelSpool(d)
  \/ DiscardClose(d) \/ DiscardUnlink(d) \/ DiscardFails(d) \/ DiscardMark(d)
  \/ DeleteUnlink(d) \/ DeleteMark(d)

\* An intent is dispatched; Toggle stands for begin and stop as well.
Dispatch(d) ==
  \/ Toggle(d)
  \/ d \in ApiThreads /\ CancelCheck(d)
  \/ d \in ApiThreads /\ TranscribeRecovered(d)
  \/ d \in ApiThreads /\ DeleteCheck(d)

\* The steps a thread takes on its own; Capture and CaptureFails are up to the
\* device.
ThreadStep(t) ==
  \/ LoopStart(t) \/ CaptureEnd(t)
  \/ Finalize(t) \/ FinalizeMark(t) \/ LoopCheck(t) \/ TooShort(t)
  \/ LoopExcept(t) \/ LoopExceptMark(t)
  \/ Guard(t) \/ MarkTranscribing(t) \/ Transcribe(t) \/ TranscriptionFails(t)
  \/ AddTranscript(t) \/ AddAudioAsset(t) \/ Complete(t) \/ DeriveAndFinish(t)
  \/ LoadAudio(t)

Next ==
  \/ \E d \in Dispatchers : Dispatch(d) \/ HandlerStep(d)
  \/ \E t \in Threads : Capture(t) \/ CaptureFails(t) \/ ThreadStep(t)
  \/ Shutdown \/ ShutdownStops \/ ShutdownReleases
  \/ Exit \/ Restart

Spec == Init /\ [][Next]_vars

\* Threads and handlers that can proceed do; nobody owes the system an intent,
\* a frame, a fault or a crash, but an exited application is started again.
Fairness ==
  /\ \A d \in Dispatchers : WF_vars(HandlerStep(d))
  /\ \A t \in Threads : WF_vars(ThreadStep(t))
  /\ WF_vars(Restart)

FairSpec == Spec /\ Fairness

-----------------------------------------------------------------------------
(* Properties *)

\* Audio that reached the disk is never lost by anything but a user's cancel or
\* delete, or the too-short rule: its file exists and its row is one that
\* list_recoverable_recordings offers, or a transcript of it was stored and the
\* row completed. About every order of handlers, threads, faults and crashes.
AudioSurvives ==
  \A r \in Recordings :
    status[r] # "none" /\ durable[r] > 0 /\ r \notin forsaken =>
      /\ file[r]
      /\ status[r] \in Recoverable \/ (status[r] = "completed" /\ made[r] > 0)

\* A completed row has its transcript and an audio asset, whichever of the
\* three transactions of _persist_transcript a crash or a failure fell between.
CompletionIsBacked ==
  \A r \in Recordings :
    status[r] = "completed" => linked[r] /\ made[r] > 0 /\ assets[r] > 0

\* Without cancels and shutdowns one loop thread captures at a time, under a
\* claimed session, into the writer of the begin that started it.
OneCapture ==
  \A t \in Recordings :
    tpc[t] \in {"capture", "finalize"} =>
      /\ isRecording /\ job[t] = t
      /\ \A u \in Recordings \ {t} : tpc[u] \notin {"start", "capture", "finalize"}

\* Without cancels and shutdowns, what a loop thread transcribes from memory is
\* exactly what finalize left in the vault for a later transcription.
VaultMatchesMemory ==
  \A t \in Recordings :
    tpc[t] \in {"check", "guard", "model", "run", "add", "asset", "complete"} =>
      job[t] = t /\ mic[t] = durable[t] /\ fh[t] = "closed"

\* Captures do not mix: one at a time, each with all of its audio in its vault.
CapturesAreSound == OneCapture /\ VaultMatchesMemory

\* A recording gets a second transcript only for a reason: one of its
\* transcriptions failed or was cut off after it had stored one, began while
\* another one was at work, or followed a deletion that left the file.
SecondHasReason == \A r \in Recordings \ redone : made[r] <= 1

\* "Cancel recording without transcription": a row that discard marked
\* cancelled is not transcribed afterwards.
CancelledIsNotTranscribed ==
  [][\A r \in Recordings :
       status[r] = "cancelled" => status'[r] \notin {"transcribing", "completed"}]_vars

\* A capture that is under way when the stop event is set ends, even when the
\* device delivers nothing more: nobody clears the event under it.
StopEndsCapture ==
  \A r \in Recordings :
    (tpc[r] = "capture" /\ stopEvent) ~> tpc[r] \notin {"capture", "start"}

\* Once its capture ended, a recording comes to rest: completed, failed, given
\* up, or left for recovery by a shutdown or a crash.
CaptureSettles ==
  \A r \in Recordings :
    (tpc[r] = "finalize") ~>
      /\ tpc[r] \in {"done", "unborn"}
      /\ \/ status[r] \in {"completed", "failed"} \/ r \in forsaken
         \/ status[r] \in {"recorded", "recovered"} /\ (shuttingDown \/ crashes > 0)

\* The fate of a recording as DurableCapture knows it; audio that is on disk but
\* out of reach would be lost, a fate it does not have.
Fate(r) ==
  CASE r \in forsaken -> "dropped"
    [] r \notin forsaken /\ status[r] = "none" -> "unknown"
    [] r \notin forsaken /\ status[r] # "none" /\ made[r] > 0 -> "transcribed"
    [] r \notin forsaken /\ status[r] # "none" /\ made[r] = 0 /\ durable[r] = 0 -> "live"
    [] r \notin forsaken /\ made[r] = 0 /\ durable[r] > 0
         /\ file[r] /\ status[r] \in Recoverable -> "kept"
    [] OTHER -> "lost"

Abstract == INSTANCE DurableCapture WITH fate <- [r \in Recordings |-> Fate(r)]

\* Handlers, threads, faults and crashes together keep the promise of
\* DurableCapture: audio goes from live to kept to transcribed, or is dropped.
ImplementsDurableCapture == Abstract!Spec
===============================================================================
