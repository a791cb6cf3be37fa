------------------------ MODULE RecordingSession_proofs ------------------------
(***************************************************************************)
(* Theorems about RecordingSession: audio that reached the disk survives,   *)
(* for any number of recordings, dispatchers and workers, with cancels,     *)
(* faults, crashes and live recovery.                                       *)
(***************************************************************************)
EXTENDS RecordingSession, TLAPS

\* A row whose recording nobody gave up has its file.
FileIsKept ==
  \A r \in Recordings : status[r] # "none" /\ r \notin forsaken => file[r]

\* Only giving a recording up leads to a row that recovery does not list.
GivenUpIsForsaken ==
  \A r \in Recordings : status[r] \in {"cancelled", "deleted"} => r \in forsaken

\* A recovery worker has a recording; a pipeline past add_transcript has its
\* transcript, then its asset.
PipelineIsBacked ==
  \A t \in Threads :
    /\ tpc[t] \in {"load", "asset", "complete"} => job[t] \in Recordings
    /\ tpc[t] \in {"asset", "complete"} => made[job[t]] > 0
    /\ tpc[t] = "complete" => assets[job[t]] > 0

\* Writers in use have their row.
RowsExist ==
  /\ spool # NoRec => status[spool] # "none"
  /\ \A t \in Threads : job[t] # NoRec => status[job[t]] # "none"

\* What each handler in progress holds.
HandlersHold ==
  \A d \in Dispatchers :
    /\ dpc[d] = "row" => drec[d] \in Recordings
                         /\ (file[drec[d]] \/ drec[d] \in forsaken)
    /\ dpc[d] \in {"discard_close", "del_unlink"} => drec[d] \in Recordings
    /\ dpc[d] \in {"discard_unlink", "discard_mark", "del_mark"} =>
         drec[d] \in forsaken

Safe ==
  TypeOK /\ FileIsKept /\ GivenUpIsForsaken /\ CompletionIsBacked
    /\ PipelineIsBacked /\ RowsExist /\ HandlersHold

LEMMA InitSafe == Init => Safe
  <1> SUFFICES ASSUME Init PROVE Safe
    OBVIOUS
  <1> USE ConstantsAssumption
     DEF Init, Safe, TypeOK, FileIsKept, GivenUpIsForsaken, CompletionIsBacked,
         PipelineIsBacked, RowsExist, HandlersHold, Statuses, Recoverable,
         HandlerSteps, ThreadSteps, Threads
  <1>1. TypeOK
    OBVIOUS
  <1>2. FileIsKept /\ GivenUpIsForsaken /\ CompletionIsBacked
    OBVIOUS
  <1>3. PipelineIsBacked /\ RowsExist /\ HandlersHold
    OBVIOUS
  <1> QED
    BY <1>1, <1>2, <1>3

LEMMA NextSafe == Safe /\ [Next]_vars => Safe'
  <1> SUFFICES ASSUME Safe, [Next]_vars
               PROVE  Safe'
    OBVIOUS
  <1> USE ConstantsAssumption
      DEF Safe, TypeOK, FileIsKept, GivenUpIsForsaken, CompletionIsBacked,
          PipelineIsBacked, RowsExist, HandlersHold, Statuses, Recoverable,
          HandlerSteps, ThreadSteps, Threads, vars, sessionVars, dispatchVars, threadVars,
          vaultVars, dbVars, processVars, history
  <1>1. ASSUME NEW d \in Dispatchers, BeginClaim(d)
        PROVE  Safe'
    BY <1>1 DEF BeginClaim, Step, Advance, Mark
  <1>2. ASSUME NEW d \in Dispatchers, StopCheck(d)
        PROVE  Safe'
    BY <1>2 DEF StopCheck, Step, Advance, Mark
  <1>3. ASSUME NEW d \in Dispatchers, CancelCheck(d)
        PROVE  Safe'
    BY <1>3 DEF CancelCheck, Step, Advance, Mark
  <1>4. ASSUME NEW d \in Dispatchers, TranscribeRecovered(d)
        PROVE  Safe'
    BY <1>4 DEF TranscribeRecovered, Step, Advance, Mark
  <1>5. ASSUME NEW d \in Dispatchers, DeleteCheck(d)
        PROVE  Safe'
    BY <1>5 DEF DeleteCheck, Step, Advance, Mark
  <1>6. ASSUME NEW d \in Dispatchers, BeginClear(d)
        PROVE  Safe'
    BY <1>6, ZenonT(40) DEF BeginClear, Step, Advance, Mark
  <1>7. ASSUME NEW d \in Dispatchers, BeginOpen(d)
        PROVE  Safe'
    BY <1>7 DEF BeginOpen, Step, Advance, Mark
  <1>8. ASSUME NEW d \in Dispatchers, BeginStart(d)
        PROVE  Safe'
    BY <1>8 DEF BeginStart, Step, Advance, Mark
  <1>9. ASSUME NEW d \in Dispatchers, BeginFails(d)
        PROVE  Safe'
    <2>1. TypeOK'
      BY <1>9 DEF BeginFails, Step, Advance, Mark
    <2>2. FileIsKept'
      BY <1>9 DEF BeginFails, Step, Advance, Mark
    <2>3. GivenUpIsForsaken'
      BY <1>9 DEF BeginFails, Step, Advance, Mark
    <2>4. CompletionIsBacked'
      BY <1>9 DEF BeginFails, Step, Advance, Mark
    <2>5. PipelineIsBacked'
      BY <1>9 DEF BeginFails, Step, Advance, Mark
    <2>6. RowsExist'
      BY <1>9 DEF BeginFails, Step, Advance, Mark
    <2>7. HandlersHold'
      BY <1>9 DEF BeginFails, Step, Advance, Mark
    <2> QED
      BY <2>1, <2>2, <2>3, <2>4, <2>5, <2>6, <2>7
  <1>10. ASSUME NEW d \in Dispatchers, StopSet(d)
        PROVE  Safe'
    BY <1>10 DEF StopSet, Step, Advance, Mark
  <1>11. ASSUME NEW d \in Dispatchers, CancelStop(d)
        PROVE  Safe'
    BY <1>11 DEF CancelStop, Step, Advance, Mark
  <1>12. ASSUME NEW d \in Dispatchers, CancelFlag(d)
        PROVE  Safe'
    BY <1>12, ZenonT(40) DEF CancelFlag, Step, Advance, Mark
  <1>13. ASSUME NEW d \in Dispatchers, CancelSpool(d)
        PROVE  Safe'
    BY <1>13 DEF CancelSpool, Step, Advance, Mark
  <1>14. ASSUME NEW d \in Dispatchers, DiscardClose(d)
        PROVE  Safe'
    BY <1>14 DEF DiscardClose, Step, Advance, Mark
  <1>15. ASSUME NEW d \in Dispatchers, DiscardUnlink(d)
        PROVE  Safe'
    BY <1>15 DEF DiscardUnlink, Step, Advance, Mark
  <1>16. ASSUME NEW d \in Dispatchers, DiscardMark(d)
        PROVE  Safe'
    BY <1>16 DEF DiscardMark, Step, Advance, Mark
  <1>17. ASSUME NEW d \in Dispatchers, DeleteUnlink(d)
        PROVE  Safe'
    <2>1. TypeOK'
      <3>1. forsaken' \subseteq Recordings
        BY <1>17 DEF DeleteUnlink, Step
      <3>2. file' \in [Recordings -> BOOLEAN]
        BY <1>17 DEF DeleteUnlink, Step
      <3> QED
        BY <3>1, <3>2, <1>17 DEF DeleteUnlink, Step
    <2>2. FileIsKept'
      BY <1>17 DEF DeleteUnlink, Step, Advance, Mark
    <2>3. GivenUpIsForsaken'
      BY <1>17 DEF DeleteUnlink, Step, Advance, Mark
    <2>4. CompletionIsBacked'
      BY <1>17 DEF DeleteUnlink, Step, Advance, Mark
    <2>5. PipelineIsBacked'
      BY <1>17 DEF DeleteUnlink, Step, Advance, Mark
    <2>6. RowsExist'
      BY <1>17 DEF DeleteUnlink, Step, Advance, Mark
    <2>7. HandlersHold'
      BY <1>17 DEF DeleteUnlink, Step, Advance, Mark
    <2> QED
      BY <2>1, <2>2, <2>3, <2>4, <2>5, <2>6, <2>7
  <1>18. ASSUME NEW d \in Dispatchers, DeleteMark(d)
        PROVE  Safe'
    BY <1>18 DEF DeleteMark, Step, Advance, Mark
  <1>19. ASSUME NEW t \in Threads, Capture(t)
        PROVE  Safe'
    BY <1>19 DEF Capture, Step, Advance, Mark
  <1>20. ASSUME NEW t \in Threads, LoopStart(t)
        PROVE  Safe'
    BY <1>20 DEF LoopStart, Step, Advance, Mark
  <1>21. ASSUME NEW t \in Threads, CaptureEnd(t)
        PROVE  Safe'
    BY <1>21 DEF CaptureEnd, Step, Advance, Mark
  <1>22. ASSUME NEW t \in Threads, CaptureFails(t)
        PROVE  Safe'
    BY <1>22 DEF CaptureFails, Step, Advance, Mark
  <1>23. ASSUME NEW t \in Threads, Finalize(t)
        PROVE  Safe'
    BY <1>23 DEF Finalize, Step, Advance, Mark
  <1>24. ASSUME NEW t \in Threads, FinalizeMark(t)
        PROVE  Safe'
    BY <1>24 DEF FinalizeMark, Step, Advance, Mark
  <1>25. ASSUME NEW t \in Threads, LoopCheck(t)
        PROVE  Safe'
    BY <1>25 DEF LoopCheck, Step, Advance, Mark
  <1>26. ASSUME NEW t \in Threads, TooShort(t)
        PROVE  Safe'
    <2>1. TypeOK'
      <3>1. forsaken' \subseteq Recordings /\ file' \in [Recordings -> BOOLEAN]
        <4>1. CASE job[t] = NoRec
          BY <4>1, <1>26 DEF TooShort
        <4>2. CASE job[t] \in Recordings
          <5>1. forsaken' = forsaken \cup {job[t]}
            BY <4>2, <1>26 DEF TooShort
          <5>2. file' = [file EXCEPT ![job[t]] = FALSE]
            BY <4>2, <1>26 DEF TooShort
          <5> QED
            BY <4>2, <5>1, <5>2
        <4> QED
          BY <4>1, <4>2
      <3> QED
        BY <3>1, <1>26 DEF TooShort, Advance
    <2>2. FileIsKept'
      BY <1>26 DEF TooShort, Step, Advance, Mark
    <2>3. GivenUpIsForsaken'
      BY <1>26 DEF TooShort, Step, Advance, Mark
    <2>4. CompletionIsBacked'
      BY <1>26 DEF TooShort, Step, Advance, Mark
    <2>5. PipelineIsBacked'
      BY <1>26 DEF TooShort, Step, Advance, Mark
    <2>6. RowsExist'
      BY <1>26 DEF TooShort, Step, Advance, Mark
    <2>7. HandlersHold'
      BY <1>26 DEF TooShort, Step, Advance, Mark
    <2> QED
      BY <2>1, <2>2, <2>3, <2>4, <2>5, <2>6, <2>7
  <1>27. ASSUME NEW t \in Threads, LoopExcept(t)
        PROVE  Safe'
    BY <1>27 DEF LoopExcept, Step, Advance, Mark
  <1>28. ASSUME NEW t \in Threads, LoopExceptMark(t)
        PROVE  Safe'
    <2>1. TypeOK'
      BY <1>28 DEF LoopExceptMark, Step, Advance, Mark
    <2>2. FileIsKept'
      BY <1>28 DEF LoopExceptMark, Step, Advance, Mark
    <2>3. GivenUpIsForsaken'
      BY <1>28 DEF LoopExceptMark, Step, Advance, Mark
    <2>4. CompletionIsBacked'
      BY <1>28 DEF LoopExceptMark, Step, Advance, Mark
    <2>5. PipelineIsBacked'
      BY <1>28 DEF LoopExceptMark, Step, Advance, Mark
    <2>6. RowsExist'
      BY <1>28 DEF LoopExceptMark, Step, Advance, Mark
    <2>7. HandlersHold'
      BY <1>28 DEF LoopExceptMark, Step, Advance, Mark
    <2> QED
      BY <2>1, <2>2, <2>3, <2>4, <2>5, <2>6, <2>7
  <1>29. ASSUME NEW t \in Threads, Guard(t)
        PROVE  Safe'
    BY <1>29 DEF Guard, Step, Advance, Mark
  <1>30. ASSUME NEW t \in Threads, MarkTranscribing(t)
        PROVE  Safe'
    BY <1>30 DEF MarkTranscribing, Step, Advance, Mark
  <1>31. ASSUME NEW t \in Threads, Transcribe(t)
        PROVE  Safe'
    BY <1>31 DEF Transcribe, Step, Advance, Mark
  <1>32. ASSUME NEW t \in Threads, TranscriptionFails(t)
        PROVE  Safe'
    <2>1. TypeOK'
      <3>1. redone' \subseteq Recordings
        BY <1>32 DEF TranscriptionFails, Stored
      <3>2. status' \in [Recordings -> Statuses]
        BY <1>32 DEF TranscriptionFails, Mark
      <3>3. tpc' \in [Threads -> ThreadSteps]
        BY <1>32 DEF TranscriptionFails, Advance
      <3> QED
        BY <3>1, <3>2, <3>3, <1>32 DEF TranscriptionFails
    <2>2. FileIsKept'
      BY <1>32 DEF TranscriptionFails, Step, Advance, Mark
    <2>3. GivenUpIsForsaken'
      BY <1>32 DEF TranscriptionFails, Step, Advance, Mark
    <2>4. CompletionIsBacked'
      BY <1>32 DEF TranscriptionFails, Step, Advance, Mark
    <2>5. PipelineIsBacked'
      BY <1>32 DEF TranscriptionFails, Step, Advance, Mark
    <2>6. RowsExist'
      BY <1>32 DEF TranscriptionFails, Step, Advance, Mark
    <2>7. HandlersHold'
      BY <1>32 DEF TranscriptionFails, Step, Advance, Mark
    <2> QED
      BY <2>1, <2>2, <2>3, <2>4, <2>5, <2>6, <2>7
  <1>33. ASSUME NEW t \in Threads, AddTranscript(t)
        PROVE  Safe'
    <2>1. TypeOK'
      <3>1. PICK r \in Threads \cup Recordings :
              made' = [made EXCEPT ![r] = made[r] + 1]
        BY <1>33 DEF AddTranscript
      <3>2. made' \in [Recordings -> Nat]
        <4>1. CASE r \in Recordings
          BY <3>1, <4>1
        <4>2. CASE r \notin Recordings
          BY <3>1, <4>2
        <4> QED
          BY <4>1, <4>2
      <3> QED
        BY <3>2, <1>33 DEF AddTranscript, Advance
    <2>2. FileIsKept'
      BY <1>33 DEF AddTranscript, Step, Advance, Mark
    <2>3. GivenUpIsForsaken'
      BY <1>33 DEF AddTranscript, Step, Advance, Mark
    <2>4. CompletionIsBacked'
      BY <1>33 DEF AddTranscript, Step, Advance, Mark
    <2>5. PipelineIsBacked'
      BY <1>33 DEF AddTranscript, Step, Advance, Mark
    <2>6. RowsExist'
      BY <1>33 DEF AddTranscript, Step, Advance, Mark
    <2>7. HandlersHold'
      BY <1>33 DEF AddTranscript, Step, Advance, Mark
    <2> QED
      BY <2>1, <2>2, <2>3, <2>4, <2>5, <2>6, <2>7
  <1>34. ASSUME NEW t \in Threads, AddAudioAsset(t)
        PROVE  Safe'
    BY <1>34 DEF AddAudioAsset, Step, Advance, Mark
  <1>35. ASSUME NEW t \in Threads, Complete(t)
        PROVE  Safe'
    BY <1>35 DEF Complete, Step, Advance, Mark
  <1>36. ASSUME NEW t \in Threads, DeriveAndFinish(t)
        PROVE  Safe'
    BY <1>36 DEF DeriveAndFinish, Step, Advance, Mark
  <1>37. ASSUME NEW t \in Threads, LoadAudio(t)
        PROVE  Safe'
    <2>1. TypeOK'
      <3>1. PICK loaded \in BOOLEAN :
              /\ tpc[t] = "load"
              /\ tpc' = [tpc EXCEPT ![t] = IF loaded THEN "guard" ELSE "done"]
              /\ mic' = [mic EXCEPT ![t] = IF loaded THEN durable[job[t]] ELSE 0]
              /\ IF loaded THEN UNCHANGED status ELSE Mark(job[t], "failed")
        BY <1>37 DEF LoadAudio, Advance
      <3>2. job[t] \in Recordings
        BY <3>1
      <3>3. CASE loaded
        BY <3>1, <3>2, <3>3, <1>37 DEF LoadAudio
      <3>4. CASE ~loaded
        BY <3>1, <3>2, <3>4, <1>37 DEF LoadAudio, Mark
      <3> QED
        BY <3>3, <3>4
    <2>2. FileIsKept'
      BY <1>37 DEF LoadAudio, Step, Advance, Mark
    <2>3. GivenUpIsForsaken'
      BY <1>37 DEF LoadAudio, Step, Advance, Mark
    <2>4. CompletionIsBacked'
      BY <1>37 DEF LoadAudio, Step, Advance, Mark
    <2>5. PipelineIsBacked'
      BY <1>37 DEF LoadAudio, Step, Advance, Mark
    <2>6. RowsExist'
      BY <1>37 DEF LoadAudio, Step, Advance, Mark
    <2>7. HandlersHold'
      BY <1>37 DEF LoadAudio, Step, Advance, Mark
    <2> QED
      BY <2>1, <2>2, <2>3, <2>4, <2>5, <2>6, <2>7
  <1>38. ASSUME Shutdown
        PROVE  Safe'
    BY <1>38 DEF Shutdown, Step, Advance, Mark
  <1>39. ASSUME Exit
        PROVE  Safe'
    <2>1. TypeOK'
      <3>1. fh' \in [Recordings -> {"none", "open", "closed"}]
        BY <1>39 DEF Exit
      <3>2. /\ dpc' \in [Dispatchers -> HandlerSteps]
            /\ drec' \in [Dispatchers -> Recordings \cup {NoRec}]
            /\ tpc' \in [Threads -> ThreadSteps]
            /\ job' \in [Threads -> Recordings \cup {NoRec}]
            /\ mic' \in [Threads -> Nat]
        BY <1>39 DEF Exit
      <3>3. heard' \in [Recordings -> Nat] /\ durable' \in [Recordings -> Nat]
        BY <1>39 DEF Exit
      <3>4. /\ file' = file /\ status' = status /\ linked' = linked
            /\ made' = made /\ assets' = assets /\ forsaken' = forsaken
        BY <1>39 DEF Exit
      <3>5. up' \in BOOLEAN /\ crashes' \in Nat
        <4>1. up' = FALSE /\ crashes' = crashes + 1
          BY <1>39 DEF Exit
        <4>2. up' \in BOOLEAN
          BY <4>1
        <4>3. crashes \in Nat
          OBVIOUS
        <4>4. crashes' \in Nat
          BY ONLY <4>1, <4>3
        <4> QED
          BY ONLY <4>2, <4>4
      <3>6. /\ isRecording' \in BOOLEAN /\ stopEvent' \in BOOLEAN
            /\ closing' = "no"
            /\ spool' \in Recordings \cup {NoRec}
        BY <1>39 DEF Exit
      <3>7. redone' \subseteq Recordings
        BY <1>39 DEF Exit
      <3> QED
        BY <3>1, <3>2, <3>3, <3>4, <3>5, <3>6, <3>7
    <2>2. FileIsKept'
      BY <1>39 DEF Exit, Step, Advance, Mark
    <2>3. GivenUpIsForsaken'
      BY <1>39 DEF Exit, Step, Advance, Mark
    <2>4. CompletionIsBacked'
      BY <1>39 DEF Exit, Step, Advance, Mark
    <2>5. PipelineIsBacked'
      BY <1>39 DEF Exit, Step, Advance, Mark
    <2>6. RowsExist'
      BY <1>39 DEF Exit, Step, Advance, Mark
    <2>7. HandlersHold'
      BY <1>39 DEF Exit, Step, Advance, Mark
    <2> QED
      BY <2>1, <2>2, <2>3, <2>4, <2>5, <2>6, <2>7
  <1>40. ASSUME Restart
        PROVE  Safe'
    BY <1>40 DEF Restart, Step, Advance, Mark, Recovered
  <1>41. ASSUME NEW d \in Dispatchers, DiscardFails(d)
        PROVE  Safe'
    BY <1>41 DEF DiscardFails, Step, Advance, Mark
  <1>42. ASSUME ShutdownStops \/ ShutdownReleases
        PROVE  Safe'
    <2>1. UNCHANGED <<spool, dpc, drec, tpc, job, mic, fh, heard, durable, file,
                      status, linked, made, assets, up, crashes, forsaken, redone>>
      BY <1>42 DEF ShutdownStops, ShutdownReleases
    <2>2. TypeOK'
      BY <2>1, <1>42 DEF ShutdownStops, ShutdownReleases
    <2>3. FileIsKept' /\ GivenUpIsForsaken' /\ CompletionIsBacked'
      BY <2>1
    <2>4. PipelineIsBacked' /\ RowsExist' /\ HandlersHold'
      BY <2>1
    <2> QED
      BY <2>2, <2>3, <2>4
  <1>43. CASE UNCHANGED vars
    BY <1>43
  <1> QED
    BY <1>1, <1>2, <1>3, <1>4, <1>5, <1>6, <1>7, <1>8, <1>9, <1>10, <1>11, <1>12, <1>13, <1>14, <1>15, <1>16, <1>17, <1>18, <1>19, <1>20, <1>21, <1>22, <1>23, <1>24, <1>25, <1>26, <1>27, <1>28, <1>29, <1>30, <1>31, <1>32, <1>33, <1>34, <1>35, <1>36, <1>37, <1>38, <1>39, <1>40, <1>41,
       <1>42, <1>43,
       ZenonT(40)
    DEF Next, Dispatch, HandlerStep, ThreadStep, Toggle

\* For every number of recordings, dispatchers and workers, and with any
\* interleaving of handlers and threads, faults, crashes and restarts, the
\* session's state is well formed: a handler never works on a missing writer.
THEOREM TypeCorrect == Spec => []TypeOK
  <1>1. Safe => TypeOK
    BY DEF Safe
  <1> QED
    BY <1>1, InitSafe, NextSafe, PTL DEF Spec

\* Audio that reached the disk stays within the user's reach until it is given
\* up, whatever races and crashes the recording met.
THEOREM AudioAlwaysSurvives == Spec => []AudioSurvives
  <1>1. Safe => AudioSurvives
    BY DEF Safe, TypeOK, FileIsKept, GivenUpIsForsaken, CompletionIsBacked,
           AudioSurvives, Statuses
  <1> QED
    BY <1>1, InitSafe, NextSafe, PTL DEF Spec

\* A completed row has its transcript and its audio asset, although they are
\* stored in three transactions.
THEOREM CompletionAlwaysBacked == Spec => []CompletionIsBacked
  <1>1. Safe => CompletionIsBacked
    BY DEF Safe
  <1> QED
    BY <1>1, InitSafe, NextSafe, PTL DEF Spec

-----------------------------------------------------------------------------
(* Captures do not mix, when nobody cancels and nobody shuts down *)

Begins == {"clear", "open", "row"}
Loops  == {"start", "capture", "finalize", "fin_mark", "check", "except",
           "except_mark"}

\* A begin in progress holds the session, alone: no other begin, no loop.
BeginIsSole ==
  \A d \in Dispatchers :
    dpc[d] \in Begins =>
      /\ isRecording
      /\ \A e \in Dispatchers \ {d} : dpc[e] \notin Begins
      /\ \A t \in Recordings : tpc[t] \notin Loops

\* So does a loop until it checks the session.
LoopIsSole ==
  \A t \in Recordings :
    tpc[t] \in Loops =>
      isRecording /\ \A u \in Recordings \ {t} : tpc[u] \notin Loops

\* A loop finds the writer of its own begin, and keeps it.
LoopHasWriter ==
  \A t \in Recordings :
    /\ tpc[t] = "start" => spool = t
    /\ tpc[t] \in Loops \ {"start"} => job[t] = t

\* A recording that was not begun, or not started yet, has heard nothing.
Fresh(r) == tpc[r] = "unborn" /\ mic[r] = 0 /\ heard[r] = 0 /\ durable[r] = 0

NewIsFresh ==
  /\ \A r \in Recordings : fh[r] = "none" => Fresh(r)
  /\ \A d \in Dispatchers :
       dpc[d] = "row" => /\ drec[d] \in Recordings
                         /\ fh[drec[d]] = "open" /\ Fresh(drec[d])

\* The writer was given every frame the loop holds.
WriterHearsAll ==
  \A t \in Recordings :
    tpc[t] \in {"start", "capture", "finalize"} =>
      fh[t] = "open" /\ mic[t] = heard[t]

\* Where handlers and threads cannot be: in a cancel; a worker in a loop; a
\* loop where a worker starts; the process in a shutdown.
InPlace ==
  /\ closing = "no"
  /\ \A d \in Dispatchers :
       dpc[d] \in Begins \cup {"idle", "stop_set", "del_unlink", "del_mark"}
  /\ \A w \in Workers : tpc[w] \notin Loops \cup {"short"}
  /\ \A t \in Recordings : tpc[t] # "load"

\* What a loop that has finalized holds is in its vault.
MemoryInVault ==
  \A t \in Recordings :
    tpc[t] \in {"fin_mark", "check", "guard", "model", "run", "add", "asset",
                "complete"} =>
      job[t] = t /\ mic[t] = durable[t] /\ fh[t] = "closed"

Apart ==
  BeginIsSole /\ LoopIsSole /\ LoopHasWriter /\ NewIsFresh /\ WriterHearsAll
    /\ InPlace /\ MemoryInVault

LEMMA InitApart == Init => Apart
  BY ConstantsAssumption
  DEF Init, Apart, BeginIsSole, LoopIsSole, LoopHasWriter, NewIsFresh,
      WriterHearsAll, InPlace, MemoryInVault, Fresh, Begins, Loops, Threads

\* The steps of a cancel.
CancelStep(d) ==
  \/ CancelCheck(d) \/ CancelStop(d) \/ CancelFlag(d) \/ CancelSpool(d)
  \/ DiscardClose(d) \/ DiscardUnlink(d) \/ DiscardFails(d) \/ DiscardMark(d)

ShutdownStep == Shutdown \/ ShutdownStops \/ ShutdownReleases

LEMMA NobodyCancels ==
  ASSUME MayCancel = FALSE, MayShutdown = FALSE
  PROVE  Apart => ~ShutdownStep /\ \A d \in Dispatchers : ~CancelStep(d)
  BY DEF Apart, InPlace, Begins, ShutdownStep, Shutdown, ShutdownStops,
         ShutdownReleases, CancelStep, CancelCheck, CancelStop, CancelFlag,
         CancelSpool, DiscardClose, DiscardUnlink, DiscardFails, DiscardMark, Step

LEMMA NextApart ==
  ASSUME MayCancel = FALSE, MayShutdown = FALSE
  PROVE  Safe /\ Apart /\ [Next]_vars => Apart'
  <1> SUFFICES ASSUME Safe, Apart, [Next]_vars
               PROVE  Apart'
    OBVIOUS
  <1> USE ConstantsAssumption
      DEF Safe, TypeOK, Apart, Begins, Loops, Fresh, Threads, vars,
          sessionVars, dispatchVars, threadVars, vaultVars, dbVars, processVars, history,
          Step, Advance, BeginIsSole, LoopIsSole, LoopHasWriter, NewIsFresh,
          WriterHearsAll, InPlace, MemoryInVault
  <1>1. ASSUME NEW d \in Dispatchers, BeginClaim(d)
        PROVE  Apart'
    BY <1>1 DEF BeginClaim
  <1>2. ASSUME NEW d \in Dispatchers, StopCheck(d)
        PROVE  Apart'
    BY <1>2 DEF StopCheck
  <1>3. ASSUME NEW d \in Dispatchers, TranscribeRecovered(d)
        PROVE  Apart'
    BY <1>3 DEF TranscribeRecovered
  <1>4. ASSUME NEW d \in Dispatchers, DeleteCheck(d)
        PROVE  Apart'
    BY <1>4 DEF DeleteCheck
  <1>5. ASSUME NEW d \in Dispatchers, BeginClear(d)
        PROVE  Apart'
    BY <1>5 DEF BeginClear
  <1>6. ASSUME NEW d \in Dispatchers, BeginOpen(d)
        PROVE  Apart'
    BY <1>6 DEF BeginOpen
  <1>7. ASSUME NEW d \in Dispatchers, BeginStart(d)
        PROVE  Apart'
    BY <1>7 DEF BeginStart
  <1>8. ASSUME NEW d \in Dispatchers, BeginFails(d)
        PROVE  Apart'
    BY <1>8 DEF BeginFails
  <1>9. ASSUME NEW d \in Dispatchers, StopSet(d)
        PROVE  Apart'
    BY <1>9 DEF StopSet
  <1>10. ASSUME NEW d \in Dispatchers, DeleteUnlink(d)
        PROVE  Apart'
    BY <1>10 DEF DeleteUnlink
  <1>11. ASSUME NEW d \in Dispatchers, DeleteMark(d)
        PROVE  Apart'
    BY <1>11 DEF DeleteMark
  <1>12. ASSUME NEW t \in Threads, Capture(t)
        PROVE  Apart'
    BY <1>12 DEF Capture
  <1>13. ASSUME NEW t \in Threads, CaptureFails(t)
        PROVE  Apart'
    BY <1>13 DEF CaptureFails, ClosedUnder
  <1>14. ASSUME NEW t \in Threads, LoopStart(t)
        PROVE  Apart'
    BY <1>14 DEF LoopStart
  <1>15. ASSUME NEW t \in Threads, CaptureEnd(t)
        PROVE  Apart'
    BY <1>15 DEF CaptureEnd
  <1>16. ASSUME NEW t \in Threads, Finalize(t)
        PROVE  Apart'
    BY <1>16 DEF Finalize
  <1>17. ASSUME NEW t \in Threads, FinalizeMark(t)
        PROVE  Apart'
    BY <1>17 DEF FinalizeMark
  <1>18. ASSUME NEW t \in Threads, LoopCheck(t)
        PROVE  Apart'
    BY <1>18 DEF LoopCheck
  <1>19. ASSUME NEW t \in Threads, TooShort(t)
        PROVE  Apart'
    BY <1>19 DEF TooShort
  <1>20. ASSUME NEW t \in Threads, LoopExcept(t)
        PROVE  Apart'
    BY <1>20 DEF LoopExcept
  <1>21. ASSUME NEW t \in Threads, LoopExceptMark(t)
        PROVE  Apart'
    BY <1>21 DEF LoopExceptMark
  <1>22. ASSUME NEW t \in Threads, Guard(t)
        PROVE  Apart'
    BY <1>22 DEF Guard
  <1>23. ASSUME NEW t \in Threads, MarkTranscribing(t)
        PROVE  Apart'
    BY <1>23 DEF MarkTranscribing
  <1>24. ASSUME NEW t \in Threads, Transcribe(t)
        PROVE  Apart'
    BY <1>24 DEF Transcribe
  <1>25. ASSUME NEW t \in Threads, TranscriptionFails(t)
        PROVE  Apart'
    BY <1>25 DEF TranscriptionFails
  <1>26. ASSUME NEW t \in Threads, AddTranscript(t)
        PROVE  Apart'
    BY <1>26 DEF AddTranscript
  <1>27. ASSUME NEW t \in Threads, AddAudioAsset(t)
        PROVE  Apart'
    BY <1>27 DEF AddAudioAsset
  <1>28. ASSUME NEW t \in Threads, Complete(t)
        PROVE  Apart'
    BY <1>28 DEF Complete
  <1>29. ASSUME NEW t \in Threads, DeriveAndFinish(t)
        PROVE  Apart'
    BY <1>29 DEF DeriveAndFinish
  <1>30. ASSUME NEW t \in Threads, LoadAudio(t)
        PROVE  Apart'
    BY <1>30 DEF LoadAudio
  <1>31. CASE Exit
    BY <1>31 DEF Exit
  <1>32. CASE Restart
    BY <1>32 DEF Restart
  <1>33. ~ShutdownStep /\ \A d \in Dispatchers : ~CancelStep(d)
    BY NobodyCancels
  <1>34. CASE UNCHANGED vars
    BY <1>34
  <1> QED
    BY ONLY [Next]_vars, <1>1, <1>2, <1>3, <1>4, <1>5, <1>6, <1>7, <1>8,
       <1>9, <1>10, <1>11, <1>12, <1>13, <1>14, <1>15, <1>16, <1>17,
       <1>18, <1>19, <1>20, <1>21, <1>22, <1>23, <1>24, <1>25, <1>26,
       <1>27, <1>28, <1>29, <1>30, <1>31, <1>32, <1>33, <1>34,
       ZenonT(60)
    DEF Next, Dispatch, HandlerStep, ThreadStep, Toggle, CancelStep,
        ShutdownStep

\* Captures do not mix: one at a time, each with all of its audio in its vault,
\* as long as nobody cancels or closes the window, for any number of recordings,
\* handlers and workers, with faults, crashes and recovery under way.
THEOREM CapturesStaySound ==
  ASSUME MayCancel = FALSE, MayShutdown = FALSE
  PROVE  Spec => []CapturesAreSound
  <1>1. Safe /\ Apart => CapturesAreSound
    BY ConstantsAssumption
    DEF Apart, BeginIsSole, LoopIsSole, LoopHasWriter, MemoryInVault, Loops,
        CapturesAreSound, OneCapture, VaultMatchesMemory
  <1> QED
    BY <1>1, InitSafe, NextSafe, InitApart, NextApart, PTL DEF Spec

-----------------------------------------------------------------------------
(* DurableCapture is implemented, when nobody cancels and nobody shuts down *)

\* Without a row there is neither audio nor a transcript, nor a loop.
RowComesFirst ==
  \A r \in Recordings :
    status[r] = "none" =>
      durable[r] = 0 /\ made[r] = 0 /\ tpc[r] = "unborn"

\* What is on disk is part of what the writer was given.
VaultIsHeard == \A r \in Recordings : durable[r] <= heard[r]

\* A transcription has audio on disk to fall back on.
PipelineHasAudio ==
  \A t \in Threads :
    tpc[t] \in {"guard", "model", "run", "add"} =>
      job[t] \in Recordings /\ durable[job[t]] > 0

Kept == RowComesFirst /\ VaultIsHeard /\ PipelineHasAudio

LEMMA InitKept == Init => Kept
  BY ConstantsAssumption
  DEF Init, Kept, RowComesFirst, VaultIsHeard, PipelineHasAudio, Threads

LEMMA NextKept ==
  ASSUME MayCancel = FALSE, MayShutdown = FALSE
  PROVE  Safe /\ Apart /\ Kept /\ [Next]_vars => Kept'
  <1> SUFFICES ASSUME Safe, Apart, Kept, [Next]_vars
               PROVE  Kept'
    OBVIOUS
  <1> USE ConstantsAssumption
      DEF Safe, TypeOK, RowsExist, PipelineIsBacked, Apart, BeginIsSole, LoopIsSole,
          LoopHasWriter, NewIsFresh, WriterHearsAll, InPlace, MemoryInVault, Begins,
          Loops, Fresh, Kept, RowComesFirst, VaultIsHeard, PipelineHasAudio,
          Threads, vars, sessionVars, dispatchVars, threadVars, vaultVars,
          dbVars, processVars, history, Step, Advance
  <1>1. ASSUME NEW d \in Dispatchers, BeginClaim(d)
        PROVE  Kept'
    BY <1>1 DEF BeginClaim
  <1>2. ASSUME NEW d \in Dispatchers, StopCheck(d)
        PROVE  Kept'
    BY <1>2 DEF StopCheck
  <1>3. ASSUME NEW d \in Dispatchers, TranscribeRecovered(d)
        PROVE  Kept'
    BY <1>3 DEF TranscribeRecovered
  <1>4. ASSUME NEW d \in Dispatchers, DeleteCheck(d)
        PROVE  Kept'
    BY <1>4 DEF DeleteCheck
  <1>5. ASSUME NEW d \in Dispatchers, BeginClear(d)
        PROVE  Kept'
    BY <1>5 DEF BeginClear
  <1>6. ASSUME NEW d \in Dispatchers, BeginOpen(d)
        PROVE  Kept'
    BY <1>6 DEF BeginOpen
  <1>7. ASSUME NEW d \in Dispatchers, BeginStart(d)
        PROVE  Kept'
    BY <1>7 DEF BeginStart
  <1>8. ASSUME NEW d \in Dispatchers, BeginFails(d)
        PROVE  Kept'
    BY <1>8 DEF BeginFails
  <1>9. ASSUME NEW d \in Dispatchers, StopSet(d)
        PROVE  Kept'
    BY <1>9 DEF StopSet
  <1>10. ASSUME NEW d \in Dispatchers, DeleteUnlink(d)
        PROVE  Kept'
    BY <1>10 DEF DeleteUnlink
  <1>11. ASSUME NEW d \in Dispatchers, DeleteMark(d)
        PROVE  Kept'
    BY <1>11 DEF DeleteMark, Mark
  <1>12. ASSUME NEW t \in Threads, Capture(t)
        PROVE  Kept'
    BY <1>12 DEF Capture
  <1>13. ASSUME NEW t \in Threads, CaptureFails(t)
        PROVE  Kept'
    BY <1>13 DEF CaptureFails, ClosedUnder
  <1>14. ASSUME NEW t \in Threads, LoopStart(t)
        PROVE  Kept'
    BY <1>14 DEF LoopStart
  <1>15. ASSUME NEW t \in Threads, CaptureEnd(t)
        PROVE  Kept'
    BY <1>15 DEF CaptureEnd
  <1>16. ASSUME NEW t \in Threads, Finalize(t)
        PROVE  Kept'
    BY <1>16 DEF Finalize
  <1>17. ASSUME NEW t \in Threads, FinalizeMark(t)
        PROVE  Kept'
    BY <1>17 DEF FinalizeMark, Mark
  <1>18. ASSUME NEW t \in Threads, LoopCheck(t)
        PROVE  Kept'
    BY <1>18 DEF LoopCheck
  <1>19. ASSUME NEW t \in Threads, TooShort(t)
        PROVE  Kept'
    BY <1>19 DEF TooShort
  <1>20. ASSUME NEW t \in Threads, LoopExcept(t)
        PROVE  Kept'
    BY <1>20 DEF LoopExcept, Mark
  <1>21. ASSUME NEW t \in Threads, LoopExceptMark(t)
        PROVE  Kept'
    BY <1>21 DEF LoopExceptMark, Mark
  <1>22. ASSUME NEW t \in Threads, Guard(t)
        PROVE  Kept'
    BY <1>22 DEF Guard
  <1>23. ASSUME NEW t \in Threads, MarkTranscribing(t)
        PROVE  Kept'
    BY <1>23 DEF MarkTranscribing, Mark
  <1>24. ASSUME NEW t \in Threads, Transcribe(t)
        PROVE  Kept'
    BY <1>24 DEF Transcribe
  <1>25. ASSUME NEW t \in Threads, TranscriptionFails(t)
        PROVE  Kept'
    BY <1>25 DEF TranscriptionFails, Mark
  <1>26. ASSUME NEW t \in Threads, AddTranscript(t)
        PROVE  Kept'
    BY <1>26 DEF AddTranscript
  <1>27. ASSUME NEW t \in Threads, AddAudioAsset(t)
        PROVE  Kept'
    BY <1>27 DEF AddAudioAsset
  <1>28. ASSUME NEW t \in Threads, Complete(t)
        PROVE  Kept'
    BY <1>28 DEF Complete, Mark
  <1>29. ASSUME NEW t \in Threads, DeriveAndFinish(t)
        PROVE  Kept'
    BY <1>29 DEF DeriveAndFinish
  <1>30. ASSUME NEW t \in Threads, LoadAudio(t)
        PROVE  Kept'
    BY <1>30 DEF LoadAudio, Mark
  <1>31. CASE Exit
    BY <1>31 DEF Exit
  <1>32. CASE Restart
    BY <1>32 DEF Restart, Recovered
  <1>33. ~ShutdownStep /\ \A d \in Dispatchers : ~CancelStep(d)
    BY NobodyCancels
  <1>34. CASE UNCHANGED vars
    BY <1>34
  <1> QED
    BY ONLY [Next]_vars, <1>1, <1>2, <1>3, <1>4, <1>5, <1>6, <1>7, <1>8,
       <1>9, <1>10, <1>11, <1>12, <1>13, <1>14, <1>15, <1>16, <1>17,
       <1>18, <1>19, <1>20, <1>21, <1>22, <1>23, <1>24, <1>25, <1>26,
       <1>27, <1>28, <1>29, <1>30, <1>31, <1>32, <1>33, <1>34,
       ZenonT(60)
    DEF Next, Dispatch, HandlerStep, ThreadStep, Toggle, CancelStep,
        ShutdownStep

\* What becomes of a recording, where nothing is lost.
Becomes(r) ==
  IF r \in forsaken THEN "dropped"
  ELSE IF status[r] = "none" THEN "unknown"
  ELSE IF made[r] > 0 THEN "transcribed"
  ELSE IF durable[r] = 0 THEN "live" ELSE "kept"

Stays(r) == Becomes(r)' = Becomes(r)

Moves(r) ==
  \/ Becomes(r) = "unknown" /\ Becomes(r)' = "live"
  \/ Becomes(r) = "live" /\ Becomes(r)' = "kept"
  \/ Becomes(r) = "kept" /\ Becomes(r)' = "transcribed"
  \/ Becomes(r) # "dropped" /\ Becomes(r)' = "dropped"

OneMoves ==
  \/ \A r \in Recordings : Stays(r)
  \/ \E r \in Recordings : Moves(r) /\ \A q \in Recordings \ {r} : Stays(q)

\* A step moves the fate of one recording at most, along DurableCapture.
LEMMA NextMovesOne ==
  ASSUME MayCancel = FALSE, MayShutdown = FALSE
  PROVE  Safe /\ Apart /\ Kept /\ [Next]_vars => OneMoves
  <1> SUFFICES ASSUME Safe, Apart, Kept, [Next]_vars
               PROVE  OneMoves
    OBVIOUS
  <1> USE ConstantsAssumption
      DEF Safe, TypeOK, RowsExist, PipelineIsBacked, HandlersHold, Apart,
          LoopIsSole, LoopHasWriter, NewIsFresh, WriterHearsAll, InPlace,
          MemoryInVault, Begins, Loops, Fresh, Kept, RowComesFirst,
          VaultIsHeard, PipelineHasAudio, OneMoves, Stays, Moves, Becomes,
          Threads, vars, sessionVars, dispatchVars, threadVars, vaultVars,
          dbVars, processVars, history, Step, Advance
  <1>1. ASSUME NEW d \in Dispatchers, BeginClaim(d)
        PROVE  OneMoves
    BY <1>1 DEF BeginClaim
  <1>2. ASSUME NEW d \in Dispatchers, StopCheck(d)
        PROVE  OneMoves
    BY <1>2 DEF StopCheck
  <1>3. ASSUME NEW d \in Dispatchers, TranscribeRecovered(d)
        PROVE  OneMoves
    BY <1>3 DEF TranscribeRecovered
  <1>4. ASSUME NEW d \in Dispatchers, DeleteCheck(d)
        PROVE  OneMoves
    BY <1>4 DEF DeleteCheck
  <1>5. ASSUME NEW d \in Dispatchers, BeginClear(d)
        PROVE  OneMoves
    BY <1>5 DEF BeginClear
  <1>6. ASSUME NEW d \in Dispatchers, BeginOpen(d)
        PROVE  OneMoves
    BY <1>6 DEF BeginOpen
  <1>7. ASSUME NEW d \in Dispatchers, BeginStart(d)
        PROVE  OneMoves
    BY <1>7 DEF BeginStart
  <1>8. ASSUME NEW d \in Dispatchers, BeginFails(d)
        PROVE  OneMoves
    BY <1>8 DEF BeginFails
  <1>9. ASSUME NEW d \in Dispatchers, StopSet(d)
        PROVE  OneMoves
    BY <1>9 DEF StopSet
  <1>10. ASSUME NEW d \in Dispatchers, DeleteUnlink(d)
        PROVE  OneMoves
    BY <1>10 DEF DeleteUnlink
  <1>11. ASSUME NEW d \in Dispatchers, DeleteMark(d)
        PROVE  OneMoves
    BY <1>11 DEF DeleteMark, Mark
  <1>12. ASSUME NEW t \in Threads, Capture(t)
        PROVE  OneMoves
    BY <1>12 DEF Capture
  <1>13. ASSUME NEW t \in Threads, CaptureFails(t)
        PROVE  OneMoves
    BY <1>13 DEF CaptureFails, ClosedUnder
  <1>14. ASSUME NEW t \in Threads, LoopStart(t)
        PROVE  OneMoves
    BY <1>14 DEF LoopStart
  <1>15. ASSUME NEW t \in Threads, CaptureEnd(t)
        PROVE  OneMoves
    BY <1>15 DEF CaptureEnd
  <1>16. ASSUME NEW t \in Threads, Finalize(t)
        PROVE  OneMoves
    BY <1>16 DEF Finalize
  <1>17. ASSUME NEW t \in Threads, FinalizeMark(t)
        PROVE  OneMoves
    BY <1>17 DEF FinalizeMark, Mark
  <1>18. ASSUME NEW t \in Threads, LoopCheck(t)
        PROVE  OneMoves
    BY <1>18 DEF LoopCheck
  <1>19. ASSUME NEW t \in Threads, TooShort(t)
        PROVE  OneMoves
    BY <1>19 DEF TooShort
  <1>20. ASSUME NEW t \in Threads, LoopExcept(t)
        PROVE  OneMoves
    BY <1>20 DEF LoopExcept, Mark
  <1>21. ASSUME NEW t \in Threads, LoopExceptMark(t)
        PROVE  OneMoves
    BY <1>21 DEF LoopExceptMark, Mark
  <1>22. ASSUME NEW t \in Threads, Guard(t)
        PROVE  OneMoves
    BY <1>22 DEF Guard
  <1>23. ASSUME NEW t \in Threads, MarkTranscribing(t)
        PROVE  OneMoves
    BY <1>23 DEF MarkTranscribing, Mark
  <1>24. ASSUME NEW t \in Threads, Transcribe(t)
        PROVE  OneMoves
    BY <1>24 DEF Transcribe
  <1>25. ASSUME NEW t \in Threads, TranscriptionFails(t)
        PROVE  OneMoves
    BY <1>25 DEF TranscriptionFails, Mark
  <1>26. ASSUME NEW t \in Threads, AddTranscript(t)
        PROVE  OneMoves
    BY <1>26 DEF AddTranscript
  <1>27. ASSUME NEW t \in Threads, AddAudioAsset(t)
        PROVE  OneMoves
    BY <1>27 DEF AddAudioAsset
  <1>28. ASSUME NEW t \in Threads, Complete(t)
        PROVE  OneMoves
    BY <1>28 DEF Complete, Mark
  <1>29. ASSUME NEW t \in Threads, DeriveAndFinish(t)
        PROVE  OneMoves
    BY <1>29 DEF DeriveAndFinish
  <1>30. ASSUME NEW t \in Threads, LoadAudio(t)
        PROVE  OneMoves
    BY <1>30 DEF LoadAudio, Mark
  <1>31. CASE Exit
    BY <1>31 DEF Exit
  <1>32. CASE Restart
    BY <1>32 DEF Restart, Recovered
  <1>33. ~ShutdownStep /\ \A d \in Dispatchers : ~CancelStep(d)
    BY NobodyCancels
  <1>34. CASE UNCHANGED vars
    BY <1>34
  <1> QED
    BY ONLY [Next]_vars, <1>1, <1>2, <1>3, <1>4, <1>5, <1>6, <1>7, <1>8,
       <1>9, <1>10, <1>11, <1>12, <1>13, <1>14, <1>15, <1>16, <1>17,
       <1>18, <1>19, <1>20, <1>21, <1>22, <1>23, <1>24, <1>25, <1>26,
       <1>27, <1>28, <1>29, <1>30, <1>31, <1>32, <1>33, <1>34,
       ZenonT(60)
    DEF Next, Dispatch, HandlerStep, ThreadStep, Toggle, CancelStep,
        ShutdownStep

\* A recording nobody gave up has its audio within reach, or a transcript.
LEMMA NothingIsLost == Safe => \A r \in Recordings : Fate(r) = Becomes(r)
  <1> SUFFICES ASSUME Safe, NEW r \in Recordings PROVE Fate(r) = Becomes(r)
    OBVIOUS
  <1>1. made[r] \in Nat /\ durable[r] \in Nat
    BY DEF Safe, TypeOK
  <1>2. CASE r \in forsaken
    BY <1>2 DEF Fate, Becomes
  <1>3. CASE r \notin forsaken /\ status[r] = "none"
    BY <1>3 DEF Fate, Becomes, Recoverable
  <1>4. CASE r \notin forsaken /\ status[r] # "none" /\ made[r] > 0
    BY <1>1, <1>4 DEF Fate, Becomes
  <1>5. CASE r \notin forsaken /\ status[r] # "none" /\ made[r] = 0
    <2>1. file[r] /\ status[r] \in Recoverable
      BY <1>5 DEF Safe, TypeOK, FileIsKept, GivenUpIsForsaken,
                  CompletionIsBacked, Statuses
    <2> QED
      BY <1>1, <1>5, <2>1 DEF Fate, Becomes
  <1> QED
    BY <1>1, <1>2, <1>3, <1>4, <1>5

\* Handlers, loops, workers, faults and crashes, of any number of recordings,
\* keep the promise of DurableCapture, as long as nobody cancels or closes the
\* window: every step is one of its steps or leaves every fate alone.
THEOREM CaptureIsDurable ==
  ASSUME MayCancel = FALSE, MayShutdown = FALSE
  PROVE  Spec => ImplementsDurableCapture
  <1>1. Init => Abstract!Init
    <2>1. ASSUME Init, NEW r \in Recordings PROVE Fate(r) = "unknown"
      BY <2>1 DEF Init, Fate
    <2> QED
      BY <2>1 DEF Abstract!Init
  <1>2. ASSUME Safe, Safe', OneMoves
        PROVE  [Abstract!Next]_[r \in Recordings |-> Fate(r)]
    <2>1. \A r \in Recordings : Fate(r) = Becomes(r) /\ Fate(r)' = Becomes(r)'
      <3>1. \A r \in Recordings : Fate(r) = Becomes(r)
        BY <1>2, NothingIsLost
      <3>2. (\A r \in Recordings : Fate(r) = Becomes(r))'
        BY <1>2, NothingIsLost, PTL
      <3> QED
        BY <3>1, <3>2
    <2>2. CASE \A r \in Recordings : Stays(r)
      BY <2>1, <2>2 DEF Stays
    <2>3. ASSUME NEW r \in Recordings, Moves(r),
                 \A q \in Recordings \ {r} : Stays(q)
          PROVE  Abstract!Next
      <3>1. [q \in Recordings |-> Fate(q)]'
              = [[q \in Recordings |-> Fate(q)] EXCEPT ![r] = Fate(r)']
        BY <2>1, <2>3 DEF Stays
      <3>2. Abstract!Begin(r) \/ Abstract!Keep(r) \/ Abstract!Transcribe(r)
              \/ Abstract!Drop(r)
        BY <2>1, <2>3, <3>1
        DEF Moves, Becomes, Abstract!Begin, Abstract!Keep, Abstract!Transcribe,
            Abstract!Drop, Abstract!Move
      <3> QED
        BY <3>2 DEF Abstract!Next
    <2> QED
      BY <1>2, <2>2, <2>3 DEF OneMoves
  <1> QED
    BY <1>1, <1>2, InitSafe, NextSafe, InitApart, NextApart, InitKept, NextKept,
       NextMovesOne, PTL
    DEF Spec, ImplementsDurableCapture, Abstract!Spec

-----------------------------------------------------------------------------
(* A second transcript has its reason, when nobody cancels or shuts down    *)

Busy(t) == tpc[t] \notin {"unborn", "done"}

\* The recording a thread is there for.
Aim(t) == IF tpc[t] = "start" THEN t ELSE job[t]

\* It has a transcript, and had no reason for a second one.
Spent(r) == r \notin redone /\ made[r] > 0

\* A recording not begun, or not started yet, has no thread, row or transcript.
Untouched(r) == tpc[r] = "unborn" /\ status[r] = "none" /\ made[r] = 0

NewIsUntouched ==
  /\ \A r \in Recordings : fh[r] = "none" => Untouched(r)
  /\ \A d \in Dispatchers :
       dpc[d] = "row" => /\ drec[d] \in Recordings
                         /\ fh[drec[d]] # "none" /\ Untouched(drec[d])

\* A row is not marked deleted while its file stays, but where unlink raised.
DeletedHasNoFile ==
  /\ \A d \in Dispatchers :
       dpc[d] \in {"del_unlink", "del_mark"} =>
         drec[d] \in Recordings /\ status[drec[d]] # "none"
  /\ \A d \in Dispatchers :
       dpc[d] = "del_mark" => ~file[drec[d]] \/ drec[d] \in redone

\* A loop is there for its own recording; without a reason no two threads are
\* there for the same one ...
ThreadsApart ==
  /\ \A t \in Threads : Busy(t) => Aim(t) \in Recordings
  /\ \A t \in Recordings : Busy(t) => Aim(t) = t
  /\ \A t, u \in Threads :
       Busy(t) /\ Busy(u) /\ Aim(t) = Aim(u) => t = u \/ Aim(t) \in redone

\* ... and one that has its transcript is being completed, is completed, or is
\* out of the reach of another transcription, its file gone.
SpentIsOver ==
  /\ \A t \in Threads :
       Busy(t) /\ tpc[t] \notin {"asset", "complete", "derived"} /\ Spent(Aim(t)) =>
         tpc[t] = "load" /\ ~file[Aim(t)]
  /\ \A r \in Recordings :
       Spent(r) =>
         \/ \E t \in Threads : tpc[t] \in {"asset", "complete"} /\ job[t] = r
         \/ status[r] = "completed" /\ linked[r]
         \/ ~file[r]

Once ==
  NewIsUntouched /\ DeletedHasNoFile /\ ThreadsApart /\ SpentIsOver
    /\ SecondHasReason

LEMMA InitOnce == Init => Once
  BY ConstantsAssumption
  DEF Init, Once, NewIsUntouched, DeletedHasNoFile, ThreadsApart, SpentIsOver,
      SecondHasReason, Untouched, Busy, Spent, Aim, Threads

LEMMA NextOnce ==
  ASSUME MayCancel = FALSE, MayShutdown = FALSE
  PROVE  Safe /\ Apart /\ Once /\ [Next]_vars => Once'
  <1> SUFFICES ASSUME Safe, Apart, Once, [Next]_vars PROVE Once'
    OBVIOUS
  <1> USE ConstantsAssumption
      DEF Safe, TypeOK, RowsExist, PipelineIsBacked, Apart, BeginIsSole, LoopIsSole,
          LoopHasWriter, InPlace, Begins, Loops, Once, NewIsUntouched,
          DeletedHasNoFile, ThreadsApart, SpentIsOver, SecondHasReason, Untouched,
          Busy, Spent, Aim, Threads, vars, sessionVars, dispatchVars, threadVars,
          vaultVars, dbVars, processVars, history, Step, Advance, Mark
  <1>1. ASSUME NEW d \in Dispatchers, BeginClaim(d) PROVE Once'
    <2>1. NewIsUntouched'
      BY <1>1 DEF BeginClaim
    <2>2. DeletedHasNoFile'
      BY <1>1 DEF BeginClaim
    <2>3. ThreadsApart'
      BY <1>1 DEF BeginClaim
    <2>4. SpentIsOver'
      BY <1>1 DEF BeginClaim
    <2>5. SecondHasReason'
      BY <1>1 DEF BeginClaim
    <2> QED
      BY <2>1, <2>2, <2>3, <2>4, <2>5
  <1>2. ASSUME NEW d \in Dispatchers, StopCheck(d) PROVE Once'
    <2>1. NewIsUntouched'
      BY <1>2 DEF StopCheck
    <2>2. DeletedHasNoFile'
      BY <1>2 DEF StopCheck
    <2>3. ThreadsApart'
      BY <1>2 DEF StopCheck
    <2>4. SpentIsOver'
      BY <1>2 DEF StopCheck
    <2>5. SecondHasReason'
      BY <1>2 DEF StopCheck
    <2> QED
      BY <2>1, <2>2, <2>3, <2>4, <2>5
  <1>3. ASSUME NEW d \in Dispatchers, TranscribeRecovered(d) PROVE Once'
    <2>1. NewIsUntouched'
      BY <1>3 DEF TranscribeRecovered, Settled
    <2>2. DeletedHasNoFile'
      BY <1>3 DEF TranscribeRecovered, Settled
    <2>3. ThreadsApart'
      BY <1>3 DEF TranscribeRecovered, Settled
    <2>4. SpentIsOver'
      BY <1>3 DEF TranscribeRecovered, Settled
    <2>5. SecondHasReason'
      BY <1>3 DEF TranscribeRecovered, Settled
    <2> QED
      BY <2>1, <2>2, <2>3, <2>4, <2>5
  <1>4. ASSUME NEW d \in Dispatchers, DeleteCheck(d) PROVE Once'
    <2>1. NewIsUntouched'
      BY <1>4 DEF DeleteCheck, Settled
    <2>2. DeletedHasNoFile'
      BY <1>4 DEF DeleteCheck, Settled
    <2>3. ThreadsApart'
      BY <1>4 DEF DeleteCheck, Settled
    <2>4. SpentIsOver'
      BY <1>4 DEF DeleteCheck, Settled
    <2>5. SecondHasReason'
      BY <1>4 DEF DeleteCheck, Settled
    <2> QED
      BY <2>1, <2>2, <2>3, <2>4, <2>5
  <1>5. ASSUME NEW d \in Dispatchers, BeginClear(d) PROVE Once'
    <2>1. NewIsUntouched'
      BY <1>5 DEF BeginClear
    <2>2. DeletedHasNoFile'
      BY <1>5 DEF BeginClear
    <2>3. ThreadsApart'
      BY <1>5 DEF BeginClear
    <2>4. SpentIsOver'
      BY <1>5 DEF BeginClear
    <2>5. SecondHasReason'
      BY <1>5 DEF BeginClear
    <2> QED
      BY <2>1, <2>2, <2>3, <2>4, <2>5
  <1>6. ASSUME NEW d \in Dispatchers, BeginOpen(d) PROVE Once'
    <2>1. NewIsUntouched'
      BY <1>6 DEF BeginOpen
    <2>2. DeletedHasNoFile'
      BY <1>6 DEF BeginOpen
    <2>3. ThreadsApart'
      BY <1>6 DEF BeginOpen
    <2>4. SpentIsOver'
      BY <1>6 DEF BeginOpen
    <2>5. SecondHasReason'
      BY <1>6 DEF BeginOpen
    <2> QED
      BY <2>1, <2>2, <2>3, <2>4, <2>5
  <1>7. ASSUME NEW d \in Dispatchers, BeginStart(d) PROVE Once'
    <2>1. NewIsUntouched'
      BY <1>7 DEF BeginStart
    <2>2. DeletedHasNoFile'
      BY <1>7 DEF BeginStart
    <2>3. ThreadsApart'
      <3>1. PICK r \in Recordings : r = drec[d]
        BY <1>7 DEF BeginStart
      <3>2. /\ tpc[r] = "unborn" /\ job' = job /\ redone' = redone
            /\ tpc' = [tpc EXCEPT ![r] = "start"]
        BY <3>1, <1>7 DEF BeginStart
      <3>3. \A t \in Threads : Busy(t) => Aim(t) # r
        BY <3>1, <1>7 DEF BeginStart
      <3>4. Busy(r)' /\ Aim(r)' = r
        BY <3>2
      <3>5. \A t \in Threads \ {r} : (Busy(t)' <=> Busy(t)) /\ Aim(t)' = Aim(t)
        BY <3>2
      <3>6. ThreadsApart /\ r \in Threads
        OBVIOUS
      <3> QED
        BY ONLY <3>2, <3>3, <3>4, <3>5, <3>6 DEF ThreadsApart
    <2>4. SpentIsOver'
      BY <1>7 DEF BeginStart
    <2>5. SecondHasReason'
      BY <1>7 DEF BeginStart
    <2> QED
      BY <2>1, <2>2, <2>3, <2>4, <2>5
  <1>8. ASSUME NEW d \in Dispatchers, BeginFails(d) PROVE Once'
    <2>1. NewIsUntouched'
      BY <1>8 DEF BeginFails
    <2>2. DeletedHasNoFile'
      BY <1>8 DEF BeginFails
    <2>3. ThreadsApart'
      BY <1>8 DEF BeginFails
    <2>4. SpentIsOver'
      BY <1>8 DEF BeginFails
    <2>5. SecondHasReason'
      BY <1>8 DEF BeginFails
    <2> QED
      BY <2>1, <2>2, <2>3, <2>4, <2>5
  <1>9. ASSUME NEW d \in Dispatchers, StopSet(d) PROVE Once'
    <2>1. NewIsUntouched'
      BY <1>9 DEF StopSet
    <2>2. DeletedHasNoFile'
      BY <1>9 DEF StopSet
    <2>3. ThreadsApart'
      BY <1>9 DEF StopSet
    <2>4. SpentIsOver'
      BY <1>9 DEF StopSet
    <2>5. SecondHasReason'
      BY <1>9 DEF StopSet
    <2> QED
      BY <2>1, <2>2, <2>3, <2>4, <2>5
  <1>10. ASSUME NEW d \in Dispatchers, DeleteUnlink(d) PROVE Once'
    <2>1. NewIsUntouched'
      BY <1>10 DEF DeleteUnlink
    <2>2. DeletedHasNoFile'
      BY <1>10 DEF DeleteUnlink
    <2>3. ThreadsApart'
      BY <1>10 DEF DeleteUnlink
    <2>4. SpentIsOver'
      BY <1>10 DEF DeleteUnlink
    <2>5. SecondHasReason'
      BY <1>10 DEF DeleteUnlink
    <2> QED
      BY <2>1, <2>2, <2>3, <2>4, <2>5
  <1>11. ASSUME NEW d \in Dispatchers, DeleteMark(d) PROVE Once'
    <2>1. NewIsUntouched'
      BY <1>11 DEF DeleteMark
    <2>2. DeletedHasNoFile'
      BY <1>11 DEF DeleteMark
    <2>3. ThreadsApart'
      BY <1>11 DEF DeleteMark
    <2>4. SpentIsOver'
      BY <1>11 DEF DeleteMark
    <2>5. SecondHasReason'
      BY <1>11 DEF DeleteMark
    <2> QED
      BY <2>1, <2>2, <2>3, <2>4, <2>5
  <1>12. ASSUME NEW t \in Threads, Capture(t) PROVE Once'
    <2>1. NewIsUntouched'
      BY <1>12 DEF Capture
    <2>2. DeletedHasNoFile'
      BY <1>12 DEF Capture
    <2>3. ThreadsApart'
      BY <1>12 DEF Capture
    <2>4. SpentIsOver'
      BY <1>12 DEF Capture
    <2>5. SecondHasReason'
      BY <1>12 DEF Capture
    <2> QED
      BY <2>1, <2>2, <2>3, <2>4, <2>5
  <1>13. ASSUME NEW t \in Threads, CaptureFails(t) PROVE Once'
    <2>1. NewIsUntouched'
      BY <1>13 DEF CaptureFails, ClosedUnder
    <2>2. DeletedHasNoFile'
      BY <1>13 DEF CaptureFails, ClosedUnder
    <2>3. ThreadsApart'
      <3>1. /\ tpc[t] \in {"capture", "finalize", "fin_mark"}
            /\ tpc' = [tpc EXCEPT ![t] = "except"]
        BY <1>13 DEF CaptureFails
      <3>2. /\ job' = job /\ redone' = redone /\ made' = made /\ file' = file
            /\ status' = status /\ linked' = linked
        BY <1>13 DEF CaptureFails
      <3>3. \A u \in Threads : (Busy(u)' <=> Busy(u)) /\ Aim(u)' = Aim(u)
        BY <3>1, <3>2
      <3>4. ThreadsApart
        OBVIOUS
      <3> QED
        BY ONLY <3>2, <3>3, <3>4, ConstantsAssumption DEF ThreadsApart, Threads
    <2>4. SpentIsOver'
      <3>1. /\ tpc[t] \in {"capture", "finalize", "fin_mark"}
            /\ tpc' = [tpc EXCEPT ![t] = "except"]
        BY <1>13 DEF CaptureFails
      <3>2. /\ job' = job /\ redone' = redone /\ made' = made /\ file' = file
            /\ status' = status /\ linked' = linked
        BY <1>13 DEF CaptureFails
      <3>3. \A u \in Threads : (Busy(u)' <=> Busy(u)) /\ Aim(u)' = Aim(u)
        BY <3>1, <3>2
      <3>4. /\ \A u \in Threads : tpc'[u] = tpc[u] \/ u = t
            /\ tpc'[t] = "except"
        BY <3>1
      <3>5. SpentIsOver
        OBVIOUS
      <3> QED
        BY ONLY <3>1, <3>2, <3>3, <3>4, <3>5 DEF SpentIsOver, Spent
    <2>5. SecondHasReason'
      BY <1>13 DEF CaptureFails, ClosedUnder
    <2> QED
      BY <2>1, <2>2, <2>3, <2>4, <2>5
  <1>14. ASSUME NEW t \in Threads, LoopStart(t) PROVE Once'
    <2>1. NewIsUntouched'
      BY <1>14 DEF LoopStart
    <2>2. DeletedHasNoFile'
      BY <1>14 DEF LoopStart
    <2>3. ThreadsApart'
      BY <1>14 DEF LoopStart
    <2>4. SpentIsOver'
      BY <1>14 DEF LoopStart
    <2>5. SecondHasReason'
      BY <1>14 DEF LoopStart
    <2> QED
      BY <2>1, <2>2, <2>3, <2>4, <2>5
  <1>15. ASSUME NEW t \in Threads, CaptureEnd(t) PROVE Once'
    <2>1. NewIsUntouched'
      BY <1>15 DEF CaptureEnd
    <2>2. DeletedHasNoFile'
      BY <1>15 DEF CaptureEnd
    <2>3. ThreadsApart'
      BY <1>15 DEF CaptureEnd
    <2>4. SpentIsOver'
      BY <1>15 DEF CaptureEnd
    <2>5. SecondHasReason'
      BY <1>15 DEF CaptureEnd
    <2> QED
      BY <2>1, <2>2, <2>3, <2>4, <2>5
  <1>16. ASSUME NEW t \in Threads, Finalize(t) PROVE Once'
    <2>1. NewIsUntouched'
      BY <1>16 DEF Finalize
    <2>2. DeletedHasNoFile'
      BY <1>16 DEF Finalize
    <2>3. ThreadsApart'
      BY <1>16 DEF Finalize
    <2>4. SpentIsOver'
      BY <1>16 DEF Finalize
    <2>5. SecondHasReason'
      BY <1>16 DEF Finalize
    <2> QED
      BY <2>1, <2>2, <2>3, <2>4, <2>5
  <1>17. ASSUME NEW t \in Threads, FinalizeMark(t) PROVE Once'
    <2>1. NewIsUntouched'
      BY <1>17 DEF FinalizeMark
    <2>2. DeletedHasNoFile'
      BY <1>17 DEF FinalizeMark
    <2>3. ThreadsApart'
      BY <1>17 DEF FinalizeMark
    <2>4. SpentIsOver'
      BY <1>17 DEF FinalizeMark
    <2>5. SecondHasReason'
      BY <1>17 DEF FinalizeMark
    <2> QED
      BY <2>1, <2>2, <2>3, <2>4, <2>5
  <1>18. ASSUME NEW t \in Threads, LoopCheck(t) PROVE Once'
    <2>1. NewIsUntouched'
      BY <1>18 DEF LoopCheck
    <2>2. DeletedHasNoFile'
      BY <1>18 DEF LoopCheck
    <2>3. ThreadsApart'
      BY <1>18 DEF LoopCheck
    <2>4. SpentIsOver'
      BY <1>18 DEF LoopCheck
    <2>5. SecondHasReason'
      BY <1>18 DEF LoopCheck
    <2> QED
      BY <2>1, <2>2, <2>3, <2>4, <2>5
  <1>19. ASSUME NEW t \in Threads, TooShort(t) PROVE Once'
    <2>1. NewIsUntouched'
      BY <1>19 DEF TooShort
    <2>2. DeletedHasNoFile'
      BY <1>19 DEF TooShort
    <2>3. ThreadsApart'
      BY <1>19 DEF TooShort
    <2>4. SpentIsOver'
      BY <1>19 DEF TooShort
    <2>5. SecondHasReason'
      BY <1>19 DEF TooShort
    <2> QED
      BY <2>1, <2>2, <2>3, <2>4, <2>5
  <1>20. ASSUME NEW t \in Threads, LoopExcept(t) PROVE Once'
    <2>1. NewIsUntouched'
      BY <1>20 DEF LoopExcept
    <2>2. DeletedHasNoFile'
      BY <1>20 DEF LoopExcept
    <2>3. ThreadsApart'
      BY <1>20 DEF LoopExcept
    <2>4. SpentIsOver'
      BY <1>20 DEF LoopExcept
    <2>5. SecondHasReason'
      BY <1>20 DEF LoopExcept
    <2> QED
      BY <2>1, <2>2, <2>3, <2>4, <2>5
  <1>21. ASSUME NEW t \in Threads, LoopExceptMark(t) PROVE Once'
    <2>1. NewIsUntouched'
      BY <1>21 DEF LoopExceptMark
    <2>2. DeletedHasNoFile'
      BY <1>21 DEF LoopExceptMark
    <2>3. ThreadsApart'
      BY <1>21 DEF LoopExceptMark
    <2>4. SpentIsOver'
      BY <1>21 DEF LoopExceptMark
    <2>5. SecondHasReason'
      BY <1>21 DEF LoopExceptMark
    <2> QED
      BY <2>1, <2>2, <2>3, <2>4, <2>5
  <1>22. ASSUME NEW t \in Threads, Guard(t) PROVE Once'
    <2>1. NewIsUntouched'
      BY <1>22 DEF Guard
    <2>2. DeletedHasNoFile'
      BY <1>22 DEF Guard
    <2>3. ThreadsApart'
      BY <1>22 DEF Guard
    <2>4. SpentIsOver'
      BY <1>22 DEF Guard
    <2>5. SecondHasReason'
      BY <1>22 DEF Guard
    <2> QED
      BY <2>1, <2>2, <2>3, <2>4, <2>5
  <1>23. ASSUME NEW t \in Threads, MarkTranscribing(t) PROVE Once'
    <2>1. NewIsUntouched'
      BY <1>23 DEF MarkTranscribing
    <2>2. DeletedHasNoFile'
      BY <1>23 DEF MarkTranscribing
    <2>3. ThreadsApart'
      BY <1>23 DEF MarkTranscribing
    <2>4. SpentIsOver'
      BY <1>23 DEF MarkTranscribing
    <2>5. SecondHasReason'
      BY <1>23 DEF MarkTranscribing
    <2> QED
      BY <2>1, <2>2, <2>3, <2>4, <2>5
  <1>24. ASSUME NEW t \in Threads, Transcribe(t) PROVE Once'
    <2>1. NewIsUntouched'
      BY <1>24 DEF Transcribe
    <2>2. DeletedHasNoFile'
      BY <1>24 DEF Transcribe
    <2>3. ThreadsApart'
      BY <1>24 DEF Transcribe
    <2>4. SpentIsOver'
      BY <1>24 DEF Transcribe
    <2>5. SecondHasReason'
      BY <1>24 DEF Transcribe
    <2> QED
      BY <2>1, <2>2, <2>3, <2>4, <2>5
  <1>25. ASSUME NEW t \in Threads, TranscriptionFails(t) PROVE Once'
    <2>1. NewIsUntouched'
      BY <1>25 DEF TranscriptionFails, Stored
    <2>2. DeletedHasNoFile'
      BY <1>25 DEF TranscriptionFails, Stored
    <2>3. ThreadsApart'
      <3>1. /\ tpc' = [tpc EXCEPT ![t] = "done"] /\ job' = job
            /\ Busy(t) /\ tpc[t] # "start"
        BY <1>25 DEF TranscriptionFails
      <3>2. \A u \in Threads : Busy(u)' => Busy(u) /\ Aim(u)' = Aim(u)
        BY <3>1
      <3>3. ThreadsApart /\ \A r \in redone : r \in redone'
        BY <1>25 DEF TranscriptionFails
      <3> QED
        BY ONLY <3>2, <3>3, ConstantsAssumption DEF ThreadsApart, Threads
    <2>4. SpentIsOver'
      BY <1>25 DEF TranscriptionFails, Stored
    <2>5. SecondHasReason'
      BY <1>25 DEF TranscriptionFails, Stored
    <2> QED
      BY <2>1, <2>2, <2>3, <2>4, <2>5
  <1>26. ASSUME NEW t \in Threads, AddTranscript(t) PROVE Once'
    <2>1. NewIsUntouched'
      BY <1>26 DEF AddTranscript
    <2>2. DeletedHasNoFile'
      BY <1>26 DEF AddTranscript
    <2>3. ThreadsApart'
      BY <1>26 DEF AddTranscript
    <2>4. SpentIsOver'
      BY <1>26 DEF AddTranscript
    <2>5. SecondHasReason'
      BY <1>26 DEF AddTranscript
    <2> QED
      BY <2>1, <2>2, <2>3, <2>4, <2>5
  <1>27. ASSUME NEW t \in Threads, AddAudioAsset(t) PROVE Once'
    <2>1. NewIsUntouched'
      BY <1>27 DEF AddAudioAsset
    <2>2. DeletedHasNoFile'
      BY <1>27 DEF AddAudioAsset
    <2>3. ThreadsApart'
      BY <1>27 DEF AddAudioAsset
    <2>4. SpentIsOver'
      BY <1>27 DEF AddAudioAsset
    <2>5. SecondHasReason'
      BY <1>27 DEF AddAudioAsset
    <2> QED
      BY <2>1, <2>2, <2>3, <2>4, <2>5
  <1>28. ASSUME NEW t \in Threads, Complete(t) PROVE Once'
    <2>1. NewIsUntouched'
      BY <1>28 DEF Complete
    <2>2. DeletedHasNoFile'
      BY <1>28 DEF Complete
    <2>3. ThreadsApart'
      BY <1>28 DEF Complete
    <2>4. SpentIsOver'
      BY <1>28 DEF Complete
    <2>5. SecondHasReason'
      BY <1>28 DEF Complete
    <2> QED
      BY <2>1, <2>2, <2>3, <2>4, <2>5
  <1>29. ASSUME NEW t \in Threads, DeriveAndFinish(t) PROVE Once'
    <2>1. NewIsUntouched'
      BY <1>29 DEF DeriveAndFinish
    <2>2. DeletedHasNoFile'
      BY <1>29 DEF DeriveAndFinish
    <2>3. ThreadsApart'
      BY <1>29 DEF DeriveAndFinish
    <2>4. SpentIsOver'
      BY <1>29 DEF DeriveAndFinish
    <2>5. SecondHasReason'
      BY <1>29 DEF DeriveAndFinish
    <2> QED
      BY <2>1, <2>2, <2>3, <2>4, <2>5
  <1>30. ASSUME NEW t \in Threads, LoadAudio(t) PROVE Once'
    <2>1. NewIsUntouched'
      BY <1>30 DEF LoadAudio
    <2>2. DeletedHasNoFile'
      BY <1>30 DEF LoadAudio
    <2>3. ThreadsApart'
      BY <1>30 DEF LoadAudio
    <2>4. SpentIsOver'
      BY <1>30 DEF LoadAudio
    <2>5. SecondHasReason'
      BY <1>30 DEF LoadAudio
    <2> QED
      BY <2>1, <2>2, <2>3, <2>4, <2>5
  <1>31. ASSUME Exit PROVE Once'
    <2>1. NewIsUntouched'
      BY <1>31 DEF Exit
    <2>2. DeletedHasNoFile'
      BY <1>31 DEF Exit
    <2>3. ThreadsApart'
      BY <1>31 DEF Exit
    <2>4. SpentIsOver'
      BY <1>31 DEF Exit
    <2>5. SecondHasReason'
      BY <1>31 DEF Exit
    <2> QED
      BY <2>1, <2>2, <2>3, <2>4, <2>5
  <1>32. ASSUME Restart PROVE Once'
    <2>1. NewIsUntouched'
      BY <1>32 DEF Restart, Recovered
    <2>2. DeletedHasNoFile'
      BY <1>32 DEF Restart, Recovered
    <2>3. ThreadsApart'
      BY <1>32 DEF Restart, Recovered
    <2>4. SpentIsOver'
      BY <1>32 DEF Restart, Recovered
    <2>5. SecondHasReason'
      BY <1>32 DEF Restart, Recovered
    <2> QED
      BY <2>1, <2>2, <2>3, <2>4, <2>5
  <1>33. ~ShutdownStep /\ \A d \in Dispatchers : ~CancelStep(d)
    BY NobodyCancels
  <1>34. CASE UNCHANGED vars
    BY <1>34
  <1> QED
    BY ONLY [Next]_vars,
       <1>1, <1>2, <1>3, <1>4, <1>5, <1>6, <1>7, <1>8, <1>9, <1>10,
       <1>11, <1>12, <1>13, <1>14, <1>15, <1>16, <1>17, <1>18, <1>19,
       <1>20, <1>21, <1>22, <1>23, <1>24, <1>25, <1>26, <1>27, <1>28,
       <1>29, <1>30, <1>31, <1>32, <1>33, <1>34,
       ZenonT(60)
    DEF Next, Dispatch, HandlerStep, ThreadStep, Toggle, CancelStep,
        ShutdownStep

\* A recording gets a second transcript only for a reason, over any number of
\* crashes, failures of any stage and recoveries and deletions of recordings
\* that are being worked on, as long as nobody cancels or closes the window.
THEOREM SecondAlwaysHasReason ==
  ASSUME MayCancel = FALSE, MayShutdown = FALSE
  PROVE  Spec => []SecondHasReason
  <1>1. Once => SecondHasReason
    BY DEF Once
  <1> QED
    BY <1>1, InitSafe, NextSafe, InitApart, NextApart, InitOnce, NextOnce, PTL
    DEF Spec
===============================================================================
