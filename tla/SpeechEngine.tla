------------------------------ MODULE SpeechEngine ------------------------------
(***************************************************************************)
(* The speech engine of src/core/handlers/recording_handlers.py and        *)
(* src/services/transcription_service.py: one attribute _asr_model, which  *)
(* the start and an engine restart fill, which a restart empties, which a  *)
(* run fills when it finds it empty, and which runs read three times (is   *)
(* there one, transcribe with it, describe it) without a lock.             *)
(*                                                                         *)
(* A run stores a recording, an imported file, or a transcription of an    *)
(* old transcript's audio again; a shutdown before it starts is in         *)
(* RecordingSession. Settings are a provider, a device and a compute type; *)
(* an engine is the summary describe_asr_runtime makes of them, and a text *)
(* is the engine that heard it.                                            *)
(***************************************************************************)
EXTENDS Naturals, FiniteSets

CONSTANTS
  Runs,          \* runs; subset of {"record", "import", "again"}
  Configs,       \* the settings a user may choose
  MaxRetries,    \* max_retries of the external provider
  MaxChanges,    \* bound on changes of the settings
  MaxRestarts,   \* bound on engine restarts
  NoEngine, NoConfig  \* None

VARIABLES
  cuda,              \* whether CTranslate2 can use the GPU
  config, changes,   \* coordinator.settings, and how often it was changed
  engine, shown,     \* _asr_model; the "asr" of the last engine_status event
  restart, rconfig,  \* the engine-restart thread, and the settings it loads
  restarts,
  pc, mine, using,   \* each run: place, its settings, the engine it was given
  tries,             \* requests it has sent for what it is doing
  told,              \* what describe_transcription_capture said
  upload,            \* whether the imported file's temporary copy exists
  replaced,          \* history: the engine changed under the run
  applied, overtaken \* history: see SettingsTakeEffect

run == <<pc, mine, using, tries, told>>
rest == <<restart, rconfig, restarts>>
user == <<config, changes>>
history == <<replaced, applied, overtaken>>
vars == <<cuda, user, engine, shown, rest, run, upload, history>>

-----------------------------------------------------------------------------
(* describe_asr_runtime *)

Device(c) ==
  CASE c.provider # "local" -> "external"
    [] c.provider = "local" /\ c.device = "gpu" -> IF cuda THEN "cuda" ELSE "unavailable"
    [] c.provider = "local" /\ c.device = "cpu" -> "cpu"
    [] OTHER -> IF cuda THEN "cuda" ELSE "cpu"

Compute(c) ==
  CASE Device(c) = "external" -> "none"
    [] Device(c) = "cuda" /\ c.compute = "int8" -> "float16"
    [] Device(c) = "cpu" /\ c.compute \in {"float16", "bfloat16"} -> "float32"
    [] OTHER -> c.compute

Describe(c) == [provider |-> c.provider, device |-> Device(c), compute |-> Compute(c)]

\* create_local_model raises for a GPU that cannot be used.
Loadable(c) == Device(c) # "unavailable"

\* What CTranslate2 and the provider can run.
Usable(e) ==
  \/ e.provider # "local" /\ e.device = "external"
  \/ e.provider = "local" /\ e.device = "cuda" /\ cuda /\ e.compute # "int8"
  \/ e.provider = "local" /\ e.device = "cpu" /\ e.compute \notin {"float16", "bfloat16"}

Summaries == [provider : {"local", "groq"},
              device : {"cuda", "cpu", "external", "unavailable"},
              compute : {"int8", "float16", "bfloat16", "float32", "none"}]

\* The providers, devices and compute types the code knows by name.
ASSUME SettingsAssumption ==
  /\ Configs \subseteq [provider : {"local", "groq"}, device : {"auto", "cpu", "gpu"},
                        compute : {"int8", "float16", "bfloat16", "float32"}]
  /\ NoConfig \notin Configs /\ NoEngine \notin Summaries
  /\ MaxRetries \in Nat /\ MaxChanges \in Nat /\ MaxRestarts \in Nat

TypeOK ==
  /\ cuda \in BOOLEAN /\ config \in Configs /\ changes \in 0..MaxChanges
  /\ engine \in Summaries \cup {NoEngine}
  /\ engine # NoEngine => Usable(engine)
  /\ shown \in {"ready", "unavailable", "restarting"}
  /\ restart \in {"idle", "unload", "settings", "load", "emit", "release"}
  /\ rconfig \in Configs \cup {NoConfig} /\ restarts \in 0..MaxRestarts
  /\ upload \in BOOLEAN
  /\ \A r \in Runs :
       /\ pc[r] \in {"new", "read", "ensure", "load", "give", "own", "hear",
                     "describe", "store", "finally", "over"}
       /\ mine[r] \in Configs \cup {NoConfig} /\ using[r] \in Summaries \cup {NoEngine}
       /\ using[r] # NoEngine => Usable(using[r])
       /\ tries[r] \in 0..MaxRetries + 1
       /\ told[r] \in Summaries \cup {NoEngine}

\* start(): the engine is loaded before anything can ask for it.
Init ==
  /\ cuda \in BOOLEAN /\ config \in Configs /\ changes = 0
  /\ \/ Loadable(config) /\ engine = Describe(config) /\ shown = "ready"
     \/ engine = NoEngine /\ shown = "unavailable"
  /\ restart = "idle" /\ rconfig = NoConfig /\ restarts = 0
  /\ upload = FALSE
  /\ pc = [r \in Runs |-> "new"] /\ mine = [r \in Runs |-> NoConfig]
  /\ using = [r \in Runs |-> NoEngine] /\ tries = [r \in Runs |-> 0]
  /\ told = [r \in Runs |-> NoEngine]
  /\ replaced = [r \in Runs |-> FALSE] /\ applied = TRUE /\ overtaken = FALSE

-----------------------------------------------------------------------------
(* The user *)

UpdateConfig ==
  /\ changes < MaxChanges
  /\ \E c \in Configs \ {config} : config' = c
  /\ changes' = changes + 1 /\ applied' = FALSE
  /\ UNCHANGED <<cuda, engine, shown, rest, run, upload, replaced, overtaken>>

\* Every write of _asr_model is one that a run may not have noticed.
SetEngine(e) ==
  /\ engine' = e
  /\ replaced' = [r \in Runs |-> replaced[r] \/ (pc[r] \in {"own", "hear", "describe"} /\ e # engine)]

-----------------------------------------------------------------------------
(* restart_engine *)

\* Without the lock, the request is ignored.
RestartBegin ==
  /\ restart = "idle" /\ restarts < MaxRestarts
  /\ restart' = "unload" /\ restarts' = restarts + 1
  /\ shown' = "restarting"
  /\ UNCHANGED <<cuda, user, engine, rconfig, run, upload, history>>

RestartUnload ==
  /\ restart = "unload"
  /\ SetEngine(NoEngine)
  /\ restart' = "settings"
  /\ UNCHANGED <<cuda, user, shown, rconfig, restarts, run, upload, applied, overtaken>>

\* coordinator.settings = get_settings()
RestartSettings ==
  /\ restart = "settings"
  /\ rconfig' = config /\ restart' = "load"
  /\ applied' = TRUE /\ overtaken' = FALSE
  /\ UNCHANGED <<cuda, user, engine, shown, restarts, run, upload, replaced>>

RestartLoad ==
  /\ restart = "load" /\ Loadable(rconfig)
  /\ SetEngine(Describe(rconfig))
  /\ restart' = "emit"
  /\ UNCHANGED <<cuda, user, shown, rconfig, restarts, run, upload, applied, overtaken>>

RestartReady ==
  /\ restart = "emit"
  /\ shown' = "ready" /\ restart' = "release"
  /\ UNCHANGED <<cuda, user, engine, rconfig, restarts, run, upload, history>>

\* Mutant: a failure is not told.
RestartLoadFailsUntold ==
  /\ restart = "load"
  /\ shown' = "ready" /\ restart' = "release"
  /\ UNCHANGED <<cuda, user, engine, rconfig, restarts, run, upload, history>>

RestartLoadFails ==
  /\ restart = "load"
  /\ shown' = "unavailable" /\ restart' = "release"
  /\ UNCHANGED <<cuda, user, engine, rconfig, restarts, run, upload, history>>

\* Mutant: the lock is given back by a restart that loaded an engine.
RestartReleaseIfReady ==
  /\ restart = "release" /\ engine # NoEngine
  /\ restart' = "idle" /\ rconfig' = NoConfig
  /\ UNCHANGED <<cuda, user, engine, shown, restarts, run, upload, history>>

RestartRelease ==
  /\ restart = "release"
  /\ restart' = "idle" /\ rconfig' = NoConfig
  /\ UNCHANGED <<cuda, user, engine, shown, restarts, run, upload, history>>

-----------------------------------------------------------------------------
(* A run: _transcribe_and_store, handle_import, handle_retranscribe *)

Go(r, to) == pc' = [pc EXCEPT ![r] = to]
Fails(r) == Go(r, "finally")

\* A recording comes with its audio. An upload is stored before its worker starts.
Dispatch(r) ==
  /\ pc[r] = "new"
  /\ Go(r, IF r = "record" THEN "ensure" ELSE "read")
  /\ upload' = (upload \/ r = "import")
  /\ UNCHANGED <<cuda, user, engine, shown, rest, mine, using, tries, told, history>>

\* _decode_audio_file_to_int16 or load_audio; without audio the run ends.
ReadAudio(r) ==
  /\ pc[r] = "read"
  /\ Go(r, "ensure") \/ Fails(r)
  /\ UNCHANGED <<cuda, user, engine, shown, rest, mine, using, tries, told, upload, history>>

\* The settings of the run, and the first look at _asr_model.
Ensure(r) ==
  /\ pc[r] = "ensure"
  /\ mine' = [mine EXCEPT ![r] = config]
  /\ tries' = [tries EXCEPT ![r] = 0]
  /\ Go(r, IF engine # NoEngine THEN "give" ELSE "load")
  /\ UNCHANGED <<cuda, user, engine, shown, rest, using, told, upload, history>>

\* The lazy load; an external provider is asked for its models with retries.
LazyLoad(r) ==
  /\ pc[r] = "load" /\ Loadable(mine[r])
  /\ SetEngine(Describe(mine[r]))
  /\ overtaken' = (overtaken \/ mine[r] # config \/ restart # "idle")
  /\ Go(r, "give")
  /\ UNCHANGED <<cuda, user, shown, rest, mine, using, tries, told, upload, applied>>

\* Transcribing again says nothing of the engine's status.
LazyLoadFails(r) ==
  /\ pc[r] = "load"
  /\ shown' = IF r = "again" THEN shown ELSE "unavailable"
  /\ Fails(r)
  /\ UNCHANGED <<cuda, user, engine, rest, mine, using, tries, told, upload, history>>

\* The second look: transcribe() is given what is there now.
Give(r) ==
  /\ pc[r] = "give"
  /\ using' = [using EXCEPT ![r] = engine]
  /\ replaced' = [replaced EXCEPT ![r] = FALSE]
  /\ Go(r, IF engine = NoEngine THEN "own" ELSE "hear")
  /\ UNCHANGED <<cuda, user, engine, shown, rest, mine, tries, told, upload, applied, overtaken>>

\* transcribe() was given None: it makes an engine of its own.
MakeOwn(r) ==
  /\ pc[r] = "own"
  /\ \/ Loadable(mine[r]) /\ using' = [using EXCEPT ![r] = Describe(mine[r])] /\ Go(r, "hear")
     \/ Fails(r) /\ UNCHANGED using
  /\ UNCHANGED <<cuda, user, engine, shown, rest, mine, tries, told, upload, history>>

\* A local engine, or a request that is answered: a text, or none.
Hear(r) ==
  /\ pc[r] = "hear"
  /\ Go(r, "describe") \/ Fails(r)
  /\ UNCHANGED <<cuda, user, engine, shown, rest, mine, using, tries, told, upload, history>>

\* _request: an overloaded or unreachable provider is asked again.
Retry(r) ==
  /\ pc[r] = "hear" /\ using[r].provider # "local"
  /\ tries[r] < MaxRetries
  /\ tries' = [tries EXCEPT ![r] = @ + 1]
  /\ UNCHANGED <<cuda, user, engine, shown, rest, pc, mine, using, told, upload,
                 history>>

\* Mutant: the settings are described, not the engine.
DescribeSettings(r) ==
  /\ pc[r] = "describe"
  /\ told' = [told EXCEPT ![r] = Describe(mine[r])]
  /\ Go(r, "store")
  /\ UNCHANGED <<cuda, user, engine, shown, rest, mine, using, tries, upload, history>>

\* describe_transcription_capture: the third look.
DescribeCapture(r) ==
  /\ pc[r] = "describe"
  /\ told' = [told EXCEPT ![r] = IF engine # NoEngine THEN engine ELSE Describe(mine[r])]
  /\ Go(r, "store")
  /\ UNCHANGED <<cuda, user, engine, shown, rest, mine, using, tries, upload, history>>

\* _persist_transcript, or update_retranscription_processing_context: the row
\* gets the text using[r] heard, and told[r] as its provenance.
Store(r) ==
  /\ pc[r] = "store"
  /\ Go(r, "finally")
  /\ UNCHANGED <<cuda, user, engine, shown, rest, mine, using, tries, told, upload, history>>

\* A run that is over has no local state.
Forget(r) ==
  /\ mine' = [mine EXCEPT ![r] = NoConfig] /\ tries' = [tries EXCEPT ![r] = 0]
  /\ using' = [using EXCEPT ![r] = NoEngine] /\ told' = [told EXCEPT ![r] = NoEngine]
  /\ replaced' = [replaced EXCEPT ![r] = FALSE]

\* is_transcribing is reset, and the upload is removed.
Finally(r) ==
  /\ pc[r] = "finally"
  /\ Go(r, "over")
  /\ upload' = (upload /\ r # "import")
  /\ Forget(r)
  /\ UNCHANGED <<cuda, user, engine, shown, rest, applied, overtaken>>

RunStep(r) ==
  \/ ReadAudio(r) \/ Ensure(r) \/ LazyLoad(r) \/ LazyLoadFails(r) \/ Give(r)
  \/ MakeOwn(r) \/ Hear(r) \/ Retry(r) \/ DescribeCapture(r) \/ Store(r) \/ Finally(r)

RestartStep ==
  RestartUnload \/ RestartSettings \/ RestartLoad \/ RestartReady \/ RestartLoadFails
    \/ RestartRelease

Next ==
  \/ UpdateConfig
  \/ RestartBegin \/ RestartStep
  \/ \E r \in Runs : Dispatch(r) \/ RunStep(r)

Spec == Init /\ [][Next]_vars

\* Threads that were started go on; a request is answered, or times out.
Fairness == WF_vars(RestartStep) /\ \A r \in Runs : WF_vars(RunStep(r))

FairSpec == Spec /\ Fairness

-----------------------------------------------------------------------------
(* Properties *)

\* What the interface shows as a ready engine is there, outside a restart,
\* whatever runs found missing, loaded or failed to load in the meantime.
ReadyIsServed == shown = "ready" /\ restart = "idle" => engine # NoEngine

\* "Return the ASR provider/model plus the exact prompt text sent for this run."
\* A transcript names the engine that heard it, unless that engine was
\* replaced while it listened.
ProvenanceIsTrue ==
  \A r \in Runs : pc[r] = "store" => told[r] = using[r] \/ replaced[r]

\* A restart that ends ready serves the settings it was asked for, unless a
\* run loaded an engine meanwhile or with settings that were no longer current.
SettingsTakeEffect ==
  applied /\ ~overtaken /\ restart = "idle" /\ shown = "ready"
    => engine = Describe(config)

\* What the interface shows of the engine is so.
ShownIsTrue == TypeOK /\ ReadyIsServed /\ SettingsTakeEffect

\* Every restart gives its lock back, every run ends, and the copy of an
\* imported file is removed however its run went.
RunsEnd ==
  /\ restart # "idle" ~> restart = "idle"
  /\ \A r \in Runs : pc[r] # "new" ~> pc[r] = "over" /\ (r = "import" => ~upload)
===============================================================================
