# Vociferous: a TLA+ model of the parts that must not go wrong

Vociferous records speech, keeps the recording safe on disk, transcribes it
with a local engine, and refines, titles and analyses the text with a language
model. Almost everything interesting happens between threads: intents arrive on
the API's event loop and on the hotkey listener, each recording has a loop
thread, each recovery, refinement and title has a thread, the engines are loaded
by threads and replaced by others. The recording must survive the end of the
process at any of these steps; so must the library, the settings, the keys and
the upgrade of the database.

TLC checks the modules here on small instances; TLAPS proves the main safety
properties for all values of the constants. Python paths below are relative to
`src/` of the repository.

## 1. Inventory

| Component | State it keeps | Operations | Hard behaviour | What makes it correct |
|---|---|---|---|---|
| Recording session, `core/handlers/recording_handlers.py` | `_is_recording`, `_recording_stop`, `_spool` | begin, stop, cancel, toggle, the loop thread, transcribe and delete a recovered recording | handlers of two threads without a lock, a loop thread that reads the session's flags for its own, faults in every stage | audio on disk is never lost; one capture at a time; every capture comes to rest |
| Speech engine, the same file and `services/transcription_service.py` | `_asr_model`, what describes it | import, retranscribe, engine restart | a run reads the engine three times without a lock while a restart replaces it | a text names the engine that heard it; what is shown as ready is there |
| Audio vault, `services/audio_vault.py` | pending frames, chunk index, frame cursor, the file | write, finalize, discard, load, repair | torn writes, power loss, readers of a live file, a repair that takes any exception for corruption | a gapless prefix of the recording; what is fsynced stays |
| Recording rows, `database/db.py` | `recording_sessions`, `recording_chunks`, `audio_assets` | insert, mark, add chunk, list recoverable | three transactions per transcript, a crash between | rows agree with files |
| Transcript library, `database/db.py`, its handlers and routes | transcripts, compounds, tags, timestamps | add, edit, retranscribe, revert, append, delete, tag, clear | a method that fails with the transaction open, cascades, the clock | compounds are flat and whole; what was acknowledged is on disk |
| Migrations, `database/migrations.py` | schema version, tables, columns | v1 to v18 | statements that are durable one by one, a crash between | an opened database is migrated and whole |
| Refinement runtime, `services/slm_runtime.py` | `_state`, `_engine`, `_lock` | enable, disable, load, refine, generate | the state is written with and without the lock; restart under load | an engine in use stays; ready means loaded |
| Refinement handlers, `core/handlers/refinement_handlers.py` | bulk flag and cancel event, the text in work | refine, commit, bulk, cancel bulk | the text changes meanwhile, items fail, the engine goes | the Refined tag tells the truth; the user's text arrives |
| Provider, `refinement/providers/openai_compatible.py` | the budget of a call | chat, its retries and growths | a server that refuses large budgets and cuts off small ones | a call ends and spends a bounded budget |
| Title generator, `core/title_generator.py` | pending ids | schedule, generate | requests of many callers, transcript deleted meanwhile | one generation per transcript |
| Insight manager, `core/insight_manager.py` | cache, dirty flag, `_generating` | mark dirty, schedule, generate | dirty during a generation; called back by the runtime | the insight catches up |
| Hotkeys, `input_handler/` | pressed keys, devices, backend | key down, key up, plug, rescan, capture, change | keys come up unseen, devices come and go | a held recording ends; one toggle a press |
| Default prompt, `api/config.py`, the handlers and routes that delete | a setting that names a transcript | choose, clear, delete and forget | read, check, deletion and write are apart, in two stores | a prompt that is deleted is no default |
| Settings, `core/settings.py` | a file, its backup, four copies | load, migrate, update | crash and failure while saving, overlapping updates | copies agree with the file; old keys are moved |
| Secret store, `core/secret_store.py` | a key ring or one file | save, delete, create, restore | read-modify-write of a whole file without a lock | kept keys are found; recordings on disk can be opened |
| Event bus and WebSocket API, `core/event_bus.py`, `api/` | handlers, sockets, tasks | emit, connect, disconnect, write | tasks that overtake one another at a full socket | each window gets every event once, in order |
| Lifecycle, `main.py`, `core/runtime/` | flags, events, locks, the runtime | start, shutdown, cleanup, watchdog, engine restart | signals at any step, steps that hang | a process that is asked to end ends |
| Single-instance lock, `main.py` | two files | acquire, break, release | two breakers of one stale lock, an id that is not written yet | one instance |
| Audio cache and spool, pipeline, provisioning, statistics, logging, frontend | - | I/O, pure functions, presentation | see section 6 | - |

Interaction: an intent is dispatched by `CommandBus` on the caller's thread and
runs the handler there. A handler of the session starts a thread; the thread
calls the vault, which calls the database; results leave as events on the
`EventBus`. The runtime is reached through a provider that reads
`coordinator.slm_runtime` anew each time, so an engine restart changes it under
its users. The hotkey's callbacks dispatch intents from the listener's thread.

`PROJECT.json` lists the hazards of this code, each at its line, with the
properties that watch it.

## 2. Modules

Two modules are abstract. **DurableCapture** is the promise of the recording
session: a recording goes from `unknown` to `live` to `kept` (audio on disk, in
reach of the user) to `transcribed`, and only the user drops it; there is no
fate "lost". **Compounds** is the promise of the library: a shelf of compounds,
each a sequence of transcripts; two are joined end to end, one is thrown away as
a whole.

**RecordingSession** implements DurableCapture. One recording names its loop
thread; `tpc` is where each loop thread or recovery worker is, `dpc` where each
dispatching thread is in a handler. A handler or thread is cut at each read or
write of something another thread uses: the claim of `handle_begin`, its
`clear()` outside the lock, the check of `handle_stop` and the event it sets,
the four writes of `handle_cancel`, the three effects of `discard`, `finalize`
and its mark, the three transactions of `_persist_transcript`, the three writes
of a shutdown. `Capture`
abstracts a device block to a frame and leaves open whether the vault committed
a chunk. `Faults` lets the device, the vault, loading, the engine, `unlink` (of a
discard and of a deletion) and each stage fail; `Exit` ends the process between any two steps, `Restart` runs the
sweep of `recover_interrupted_recordings`. The status writes of the except paths
themselves are taken to succeed.

**SpeechEngine** is the engine the same runs use: start, a live recording,
import and retranscription read `_asr_model` in separate steps; settings change
between them; an engine restart empties and fills it. What is stored with a
text, and what the interface shows, are compared with the engine that heard it.

**AudioVault** is one vault file with its writer, readers, repair and rows. A
chunk is `[index, start, n]`. `Kill` leaves what the operating system was given,
`PowerLoss` what was fsynced and any part of the rest. A read of a complete record may raise
(`MaxFaults`): the key is out of reach, the record does not decrypt, its row is
not written. A load then ends, a start of the application fails, and a repair
takes the record for corrupt and cuts the file there. It is the detail behind
what RecordingSession calls `durable`; the two are not composed.

**Library** implements Compounds. A database method holds `_write_lock`, so it
is a step; a handler that calls two is two steps, the second waiting in
`pending`. The connection sees `db`, what is committed is `disk`, and a method
that raises between its first statement and its commit leaves a transaction that
the next commit of anybody commits. Text is the sequence of the transcripts
whose words it holds, so that "no words are lost" can be said; a retranscription
puts a row's own words in place of what it is shown as.

**DefaultPrompt** is the setting that names a transcript of the library. A
handler or route reads the default, deletes, and compares and forgets, or looks
for a transcript and sets it; each of these is a step, with others between.

**Migrations** opens a database of any version, in the steps that become durable
at once (v12 and v15 statement by statement), with deaths between them; **Refinement** follows a transcript's text
through single and bulk refinement, edits, reverts and deletions to the
clipboard; **SLMRuntime** is the runtime with its loading thread, the threads
that refine and generate and the engine restart, where every read and write of
`_state` is a step, because `refine_text_sync` and `generate_custom_sync` write
it before they have and after they have released the lock; **Completion** is one
call of the provider with the code's own numbers; **TitleGenerator** and
**InsightManager** are those two classes with their callers and threads;
**Hotkeys** has the keyboards of the user, what the kernel has not yet handed
over, both backends and the callbacks; **Settings** and **SecretStore** cut each
operation at its reads and writes of the file; **EventFanout** goes from `emit`
to the sockets, where a task writes to those it found (`todo`) in any order;
**Lifecycle** cuts `main()`, `shutdown` and the cleanup where a signal may come;
**InstanceLock** has each file operation of two or more processes as a step,
those of the pid file included: looking for it, reading it, and asking for the
owner are apart, and `opened` and `seen` are what a process found at each. The comment at the top of each module says what its state stands for.

A variable that only remembers (`missed`, `collided`, `unread`, `overlapped`,
`raced`, `crowded`, `torn`, `redone`, `retold`, `failedAt`, `unnoticed`) marks
that something happened under which the code does not keep the property; the
property then says what holds when it has not happened, and section 6 what
happens when it has. `quiet` of InstanceLock is the other way round: it has the
instances that nobody met on their way up. Such a variable constrains no step.

`MCRecordingSession`, `MCSpeechEngine` and `MCSettings` add constants or
symmetry for TLC. **MCLibrary**, **MCLive** and **MCSafe** put components that
share no state side by side, MCLibrary the library and the runtime, MCLive those
with properties about what happens in the end, MCSafe the others: `part` says which component a behaviour is of. The
others stay at their first state, so the state space is the sum of theirs and
not the product, and each property is that of the component. All three declare the
assumptions their theorems need by name, and TLC evaluates them on the run; the
two instances of the hotkeys in MCSafe are one (`Hot`) whose keyboards depend on
the part. Components that do
share state are in one module each time, at the grain their interaction needs
(the recording session with the vault's effects and the rows, the runtime with
its clients and the restart, refinement with the library's edits).

`RecordingSession_proofs`, `AudioVault_proofs`, `SLMRuntime_proofs`,
`Library_proofs`, `SpeechEngine_proofs`, `TitleGenerator_proofs`,
`MCSafe_proofs` and `MCLive_proofs` hold the theorems. Definitions commented "Mutant" are plausible bugs of the code next to
the definition they would replace; they are part of no specification. They show that each property
fails when the code is wrong in that way.

## 3. Runs

All passing runs set `CHECK_DEADLOCK FALSE`: an idle application with no intent
left in the bounds may stop.

| Run | Instance | Question |
|---|---|---|
| `session_live` | 2 recordings, API and hotkey, faults, no cancel, no recovery | one capture at a time, into the file it is transcribed from; stops and captures end |
| `session_crash` | 1 recording, 1 worker, API and hotkey, cancel, shutdown, live recovery, faults, 1 exit, 2 transcripts | audio survives, completion is backed, a second transcript has a reason, DurableCapture is implemented |
| `speech` | an import and a retranscription, 1 change of settings, 1 engine restart | provenance is true, what is shown is true, runs end |
| `library` | library: 3 transcripts of which 1 is shipped, 1 tag, 1 exit, a clock that stands or runs back; runtime: 2 runtimes, 1 refinement, 1 title, timeouts, early requests | compounds are flat and whole, acknowledged is durable, Compounds is implemented; the engine in use stays, ready is loaded, requests and restarts end |
| `live` | vault: blocks of 5, chunks of 3, 15 frames, 3 crashes of both kinds, 1 read that raises; refinement: 2 transcripts, 1 thread, 1 bulk, 1 outage, on and off; insight: 2 versions, 2 generations; migrations: 2 rows, 1 recording, 2 deaths; hotkeys: 1 keyboard plugged twice; completion: 3 lengths of text, 3 ceilings, 3 limits, 5 needs; lifecycle: 2 signals | the vault is gapless, what is fsynced stays, loss is bounded, rows agree, an interrupted recording is recovered; a bulk ends, text arrives; the insight catches up; an upgrade is whole and ends; a plugged keyboard is heard; calls end in budget; the process ends |
| `safe` | lock: 3 processes, 2 files; titles: 2 transcripts, 2 threads, 2 callers; hotkeys: 2 keyboards, or 1 with a request; secrets: 2 recordings, 1 provider, 2 failures; settings: 2 updates, 2 fields, 1 failure, 3 old keys; events: 2 sockets, 3 events; default prompt: 3 transcripts of which 1 is shipped, 2 handlers | one instance, if it came up in quiet; one title per transcript; recording follows the chord; keys are kept; copies of settings agree; events arrive once and in order; a deleted default is forgotten |

The bounds are small because the hazards are: each needs two recordings, or two
threads on one recording, or one exit and one restart, or two updates. In
`session_crash` a recording without a frame is too short and one with a frame is
long enough and at its limit; `MaxTranscripts = 2` lets it be transcribed twice
and no more, which is what `SecondHasReason` is about. Blocks of 5 and chunks of 3 give one, two and three chunks per
block with every remainder. Three transcripts give a compound of two that is
appended to a third, and one appended to a compound. Two deaths of a migration
are one in it and one in its repetition. Two sockets and three events let one
event overtake another at a full socket and a third follow. Three processes are
two that break the lock of a third. Completion's numbers are chosen on either
side of each of the code's thresholds (the seed, its doublings, the ceiling, the
server's limit). What separate instances give up to stay within a minute or
two: `session_live` has one frame and no recovery worker, `session_crash` one
recording.

Six runs show disagreements between the code and what it says of itself. Each
is the shortest behaviour TLC finds:

- `session_cancel_transcribed`: cancel, then begin before the first loop thread
  tests `_is_recording`. It finds the flag set by the second session, and
  transcribes and stores the recording that was cancelled.
- `migrations_crash`: v12 renames `transcripts` and builds it anew. Each
  statement is durable by itself. After a death in between, the next start
  creates an empty `transcripts`, and the database opens without the user's.
- `settings_migrate`: an old settings file with an API key and a refinement
  model that is no longer offered. The model is replaced and the file saved,
  without the key, before the key is moved to the secret store.
- `early_signal`: SIGTERM before the window exists. `shutdown` marks itself as
  done and finds nothing to close; the window opens, and no later signal counts.
- `lock_race`: the process id is written after the lock is taken, into a file
  that opening it has emptied. A second start that reads it in between takes the
  lock for stale and unlinks it, and two instances are up. ("Only one instance
  allowed", `main.py:241`.)
- `refinement_disabled`: auto-refine is on and refinement is off. The copy is
  deferred to a refinement (`recording_handlers.py:770`), nobody asks for one,
  and the text is never copied. ("We MUST still copy the raw text",
  `refinement_handlers.py:62`.)

## 4. Fairness

Weak fairness on the steps a thread or a handler can take by itself: the
operating system schedules runnable threads, inference and loading return or
raise. `CaptureEnd` is among them since `record_audio` polls the stop event with
a timeout. There is none on frames (a device may fall silent), on intents,
requests, restarts by the user, faults or crashes. `Restart` in RecordingSession
and AudioVault, and the start in Migrations, are fair: a property about recovery
is about applications that are started again. Locks are Python locks without an
order of waiting; the requests of a model are finitely many, so a waiter is not
overtaken for ever, and with an unbounded stream of requests `RequestsEnd` holds
by the time limit only.

In Completion a request is answered, fails or times out. In Hotkeys the input
thread handles what it reads, and the rescan runs every few seconds and is not
always interrupted by the queue. In Refinement the interface's request after a
transcription is served although others are served before it. In Lifecycle *no*
step of the cleanup is fair, since each may hang; timers fire. In InsightManager
the user goes on using the runtime and an inference succeeds now and then; an
insight nobody's runtime can generate never catches up.

In MCLive fairness of a component would be fairness of the whole, so it stands
before the property it is for: `part = "refine" /\ Refine!Fairness =>
Refine!BulkEnds`. The vault's is in `LiveSpec`, where it is implied by nothing
else and disturbs nothing: its actions are never enabled in another part. The
same holds of the runtime's in `BothSpec` of MCLibrary. Reads of a vault that
raise are finitely many (`MaxFaults`): a key that stays out of reach keeps the
application from starting, and then nothing is recovered.

## 5. Proofs

For every value of the constants that the named assumptions allow:

| Theorem | States |
|---|---|
| `RecordingSession_proofs!TypeCorrect` | `Spec => []TypeOK` |
| `RecordingSession_proofs!AudioAlwaysSurvives` | `Spec => []AudioSurvives` |
| `RecordingSession_proofs!CompletionAlwaysBacked` | `Spec => []CompletionIsBacked` |
| `RecordingSession_proofs!CapturesStaySound` | without cancels and shutdowns, `Spec => []CapturesAreSound` |
| `RecordingSession_proofs!CaptureIsDurable` | without cancels and shutdowns, `Spec => ImplementsDurableCapture` |
| `RecordingSession_proofs!SecondAlwaysHasReason` | without cancels and shutdowns, `Spec => []SecondHasReason` |
| `AudioVault_proofs!AlwaysGapless` | `Spec => []ChunksAreGapless` |
| `AudioVault_proofs!FsyncedIsKept` | `Spec => []FsyncedChunksSurvive` |
| `AudioVault_proofs!LossAlwaysBounded` | `Spec => []LossIsBounded` |
| `AudioVault_proofs!RowsAlwaysDescribe` | `Spec => []RowsDescribeVault` |
| `SLMRuntime_proofs!TypeCorrect` | `Spec => []TypeOK` |
| `SLMRuntime_proofs!EngineStaysLoaded` | `Spec => []InferenceHasEngine` |
| `SLMRuntime_proofs!ReadyIsTrue` | `Spec => []ReadyMeansLoaded` |
| `Library_proofs!AlwaysFlat` | `Spec => []CompoundsAreFlat` |
| `Library_proofs!NothingEverHidden` | `Spec => []NothingIsHidden` |
| `Library_proofs!AckedStaysOnDisk` | `Spec => []AckedIsDurable` |
| `Library_proofs!LibraryAlwaysAgrees` | `Spec => []LibraryAgrees` |
| `Library_proofs!LibraryImplementsCompounds` | `Spec => ImplementsCompounds` |
| `SpeechEngine_proofs!ProvenanceAlwaysTrue` | `Spec => []ProvenanceIsTrue` |
| `SpeechEngine_proofs!ShownAlwaysTrue` | `Spec => []ShownIsTrue` |
| `TitleGenerator_proofs!TypeCorrect` | `Spec => []TypeOK` |
| `TitleGenerator_proofs!OneTitleAlways` | `Spec => []OneTitlePerTranscript` |
| `MCSafe_proofs!SafeHasOneInstance` | `SafeSpec => []OneInstance` |
| `MCSafe_proofs!SafeDefaultExists` | `SafeSpec => []DefaultPromptExists` |
| `MCSafe_proofs!SafeKeepsSecrets` | `SafeSpec => []SecretsAreKept` |
| `MCSafe_proofs!SafeSettingsAgree` | `SafeSpec => []SettingsAgree` |
| `MCSafe_proofs!SafeDeliversInOrder` | `SafeSpec => []DeliveredInOrder` |
| `MCSafe_proofs!SafeFollowsChord` | `SafeSpec => []RecordingFollowsChord` |
| `MCLive_proofs!LiveRefinementAgrees` | `LiveSpec => []RefinementAgrees` |
| `MCLive_proofs!LiveUpgradeIsWhole` | `LiveSpec => []UpgradeIsWhole` |
| `MCLive_proofs!LiveSpendsWithReason` | `LiveSpec => SpendsWithReason`, the safety of `CallsStayInBudget` |
| `MCLive_proofs!LiveOneGeneration` | `LiveSpec => [](Insight!TypeOK /\ Insight!OneGeneration)` |

*RecordingSession* (`Safe`). `AudioSurvives` is not inductive: that a row is
completed only with its audio in place depends on where the threads are. `Safe`
adds what each step of a thread knows (a thread past `asset` has stored a
transcript and an asset, a thread about to mark has a recording with a row),
which recordings a handler in the middle of `discard` or `delete` has forsaken,
and that a row exists as soon as a thread works on it. The proof has one step
per action. Cancels, faults, live recovery and crashes are all in it, for any
number of recordings.

`CapturesStaySound` and `CaptureIsDurable` take `MayCancel = FALSE` and
`MayShutdown = FALSE`, because the code needs them: the loop thread of a
cancelled recording can set `_spool` to None under the next begin, which then
captures without a writer (section 6). Faults, crashes, recovery and deletion
stay. For `CapturesAreSound`, `Apart` says that a begin in progress or a loop up
to its check holds the session alone, that a loop's writer is that of its own
begin and was given every frame the loop holds, and that what it holds after
`finalize` is in the vault. For DurableCapture, `Kept` adds that there is no
audio and no transcript before the row, and that whoever transcribes has audio
on disk to fall back on; `NextMovesOne` then shows that a step moves the fate of
one recording at most, along DurableCapture, and `NothingIsLost` that the
mapping never takes its case "lost". The run `session_crash` checks the
refinement with cancels and shutdowns, for one recording.

`SecondAlwaysHasReason` has faults, live recovery, deletions under a worker and
crashes in it, and takes the same two assumptions. `redone` has the recordings
for which the code gives a second transcript: a stage or the process ended after
the transcript was stored and before the row was completed, two transcriptions
ran at once, or `unlink` failed in a deletion. For the others `Once` says that
each thread is alone with its recording (`ThreadsApart`) and that a recording
with a transcript has a thread about to complete it, is completed, or has no
file (`SpentIsOver`); so no retry finds anything to transcribe.

*AudioVault* (`IInv`). `LossIsBounded` needs that pending audio is less than a
chunk plus a block at each writer step, which depends on the cursor agreeing
with the file's end (`WriterInStep`), and after a crash on what the crash could
cut off (`CutIsBounded`). `FsyncedChunksSurvive` needs `PromiseIsSynced`: what
was promised is synced and as it was, or a repair raised at or before it
(`failedAt`); that a repair has no writer beside it is `RepairedLater`. Both
properties are weakened by `failedAt` because the code needs it (section 6).
`RowsAlwaysDescribe` adds `RInv`: nobody records a row of a chunk that is not
written, no row lies beyond the file while the writer may append, whoever has
finished has recorded every chunk (`RowsHold`), and a load has passed the last
chunk before it ends (`CountersHold`).

*SLMRuntime* (`IInv`). `InferenceHasEngine` needs that whoever is past the lock
holds it. `ReadyMeansLoaded` needs `ReadyIsBacked`: not only the state but each
"ready" a thread remembers and may write back has an engine, until a restart
takes it; and that nobody knows a runtime before it exists.

*Library* (`IInv`). The rows the connection sees are the rows on disk: a method
that fails leaves only tag links in an open transaction, so a rollback or an
exit changes no row, and `AckedIsDurable` follows. The members of a compound
have distinct positive places, and the place of a new member is beyond the
largest (`NextIsBeyond`); that a nonempty finite set of places has a largest is
shown by well-founded induction on its subsets. For `NothingIsHidden` the
normalized text of every row, where there is one, holds the words of its raw
text, or these include a row that was retold (`Unhidden`): a row begins with its
own words, so a retranscription changes them only if it held those of others.
`Lengthened` keeps it so. One lemma per kind of step.
`LibraryAlwaysAgrees` adds `Agree`: no stamp is later than the last one given
(`Stamped`), a transaction that is open has not touched the tags the engine sets
(`AutoTagsOnDisk`), and a compound has its tag unless its handler has still to
write it or the process ended before it could.

`LibraryImplementsCompounds` maps each root to the sequence of its members by
their places (`Compound`) and the rows that are gone to `Deleted`. `IInv` gives
the members different places; then a listing by places exists, holds every
member, and is the only one (`ListingExists`, `ListingByRank`,
`ListingIsUnique`), because the index of a member in it is the number of members
not placed after it. Each step on the rows is one step of Compounds or none:
an insert is `Record`, a deletion by ids is `Discard` of whole compounds
(`DeleteIsDiscard`), clearing is `Clear`, rewording and tags leave the shelf
alone, and an append is `Join`: the members of the source, all moved beyond the
places of the target's, list behind them in their old order (`ListingsJoin`).

*SpeechEngine* (`IInv`). A run's engine is still the current one, was replaced
while the run listened, or was made by the run because there was none
(`HeardIsKnown`): so the text and the engine it names agree unless a restart
came between. `ReadyIsBacked` and `EffectIsDue` do the same for what is shown of
the engine. `SettingsAssumption` takes the providers, devices and compute
types the code names (`compute_type` is a free string in the settings file, and
a value the library rejects fails the load as any other error does), and says
that "no engine" is not the summary of one.

*TitleGenerator* (`IInv`). `schedule()` looks at `_pending`, not at the threads;
`TaskIsPending` says that `_pending` knows every one of them.

*MCSafe and MCLive*. A step of the composition is a step of each component or
leaves it alone (one lemma each), so each theorem is about its component alone,
for any part and any constants under the named assumptions: that ids, accounts
and values are told apart from "none", that there is a lock file to create, that
transcripts are finitely many, that words, budgets, limits and changes are counted
in natural numbers.

- Lock (`LockInv`): an instance in `quiet` has locked the file that is at the
  path (`HasPath`) and its id is in the pid file or the file is gone
  (`WritesId`); so every later start finds it alive, and none gets as far as
  unlinking its lock (`OthersWait`).
- Default prompt: a deletion that takes the default goes on to forget it, or
  another id is compared and `unnoticed` has it; a handler that forgets a default
  does so by its last step.
- Secrets (`SecretInv`): what is expected is stored, and what the one operation
  on the file has read is what the file holds (`ReaderIsAlone`), until two
  overlap (`collided`) or the file cannot be read; a recording's key is created
  once, before its audio, and deleted after it (`AudioHasKey`).
- Settings (`SettingInv`): an update in progress is alone, and says by its step
  which copies follow the file already (`OneUpdate`); an old key is in the file,
  still to be moved, moved or refused (`KeysMove`).
- Events (`FanoutInv`): the tasks of a thread's events are in order, an event is
  sent or on its way to every open window that was there when it was emitted
  (`NoneMissed`) and not both (`SentOnce`); while no buffer is full a task writes
  all at once (`OneWrite`), so what is sent is in order.
- Hotkeys (`HotInv`): a key the handler thinks pressed is held, or its release is
  queued (`ChordFollows`), until one is missed; with evdev a key enters the chord
  by a press and never by auto-repeat (`PressesAreFresh`).
- Refinement (`RefineInv`): who is about to write the tag has refined the text
  and who is about to remove it has reverted it, unless another writer came
  between (`raced`) or the transcript was deleted (`WritersAgree`).
- Migrations (`FileInv`): what the file is like follows from its version and,
  within a migration of several statements, from the step: the columns, the
  system tags, the prompts, the search index, and that the user's rows and links
  are in the tables wherever the rebuild of v12 has them (`Kept`, `KeptLinks`).
  A death at a named step of that rebuild (`RowsTorn`, `LinksTorn`, and what it
  leaves behind) takes exactly what is named. What v15 rebuilds, a table whose
  foreign key names a missing table, has no rows (`VaultSoFar`). One lemma per
  migration; `FileIsWhole` concludes.
- Completion (`CallInv`): a budget is the first one doubled at most as often as
  was counted, and within the ceiling unless it began beyond it. If ceiling,
  growth limit and server leave room (`HasRoom`), it is either what doubling
  alone made it (`OnlyDoubled`) or enough: a budget is halved only above twice
  the need, so halving does not make it too small. So where an answer stays cut
  off there was no room.
- Insights (`InsightInv`): `_generating` is set exactly while a generation is
  under way.

Only model-checked: all liveness, which is out of the prover's reach (it needs
ENABLED); the refinement of DurableCapture where cancels or shutdowns occur; and
Lifecycle, whose promise is liveness.

## 6. Limits

**Seen while modelling.** What the code does, without a sentence in the
repository that says otherwise. The models do these things too, and the
properties are stated so as not to deny them.

- Recording: `handle_begin` clears the stop event outside its claim and erases a
  stop or cancel accepted in between; the capture then goes on with no session
  that stop or cancel accepts. The loop thread of a cancelled recording sets
  `_spool` to None after the next begin has put its writer there. Two dispatches
  of a recovered recording make two transcripts, and so does a retry of one whose
  first transcription failed or died after it had stored its transcript. A worker
  that has loaded the audio transcribes and completes a recording that is deleted
  meanwhile. A begin is accepted after a
  shutdown was requested. A cancelled recording's key is never deleted. A repair
  records chunks no fsync has covered.
- Vault: a repair takes *any* exception on a complete record for corruption, a
  row that cannot be written too, and truncates the file there
  (`audio_vault.py:301-313`): valid chunks that fsync had covered are lost
  (`OnlyCorruptIsCut` is false). A key that cannot be had ends the start of the
  application instead (`application_coordinator.py:122`).
- Runtime: a refinement that times out writes back the `INFERRING` it had found;
  a thread that loads publishes its engine into a runtime disabled meanwhile; a
  title asked for during loading may leave `LOADING` over `READY`.
- Speech: a restart between transcribing and describing gives a text the wrong
  provenance; a slow lazy load that ends after a restart leaves the old engine;
  a retranscription keeps the Refined tag.
- Library: no migration creates the system tag "Imported", so tagging imports
  does nothing. `assign_tags` failing in the middle leaves its transaction open.
  A crash between an append and its tag leaves an untagged compound.
  Retranscribing the root of a compound replaces what it is shown as by the words
  of its own audio (`recording_handlers.py:387`); the members' are left in the raw
  text only.
- Default prompt: four ways leave a default that is gone, and refinements then
  run without instructions (`refinement_handlers.py:81-92`): the prompt went as a
  member of a compound, whose id nobody compares; another default was set after a
  batch had read the old one (`transcript_handlers.py:111`); it was set after it
  had been deleted (`config.py:56-78` awaits between check and update); the
  process ended before it was forgotten.
- Migrations: a death inside v12 may cost more than the transcripts. Between the
  DROP of the renamed table and the new link table the links name a missing
  table, v13 and v18 cannot insert the prompts' links, and no later start opens
  the database (`OpensAgain` is false; `OpensInTheEnd` excuses a death at steps
  2 to 5, of which 2 and 3 open, empty, if the prompts get ids the old table
  has). A death at steps 6 and 7 opens with the links lost, at 8 with a table
  left over. A death in v15 loses nothing: the tables it drops could take no row
  (`migrations.py:671-673`).
- Refinement: a comment says each refinement starts from the original, the code
  takes the normalized text if there is one. A bulk refinement overwrites an
  edit made meanwhile; a revert between its two writes leaves the tag wrong.
  A refinement that waited works from the text it read before. Turning
  auto-refine off during a refinement leaves nothing on the clipboard; so does a
  view that missed the event of the transcription.
- Titles: a name the user gives is overwritten by a title generated meanwhile;
  a request for a newer text is dropped while an older one is titled.
- Hotkeys: an unplugged keyboard, a changed chord or a capture while the chord is
  held loses the release. A press while the previous recording stops does
  nothing. Under pynput auto-repeat toggles again and again.
- Secrets and settings: overlapping writes of `secrets.json` lose a key, and a
  file that cannot be read counts as empty. Both Groq sections of an old file
  share an account. Concurrent updates lose one. Damaged settings become
  defaults, and the next save overwrites them.
- Completion: halving and doubling may alternate until the attempts are used up;
  the overhead for reasoning and the minimum for schemas may exceed the
  configured ceiling; an answer that was cut off is lost if the call with the
  larger budget fails.
- Events: a task that meets a full socket lets later ones pass, and the window
  gets events in another order (`crowded`).
- Lock: besides `lock_race`, two starts that clean up one stale lock may each
  unlink the other's, and an instance that leaves removes the id its successor
  has written, so that a third start finds none. `OneInstance` says that an
  instance that came up while nobody else started, left or was stopped is not
  pushed aside.
- Process: a signal that interrupts the main thread inside `shutdown` deadlocks
  on the lock, which is not reentrant (the watchdog is not armed yet). The lock
  of a process stopped by SIGSTOP is broken on purpose.

**Not modelled.** `AudioCache.store`, its pruning and `AudioSpoolWriter` have no
caller left in `src/`; `refine_text` and `change_model` of the runtime have
none either. The audio pipeline, decoding, prompts and parsing, usage statistics
and text analysis are numerical or wording; provisioning downloads by a library;
logging, CUDA and the window's geometry are platform I/O. The frontend appears
as a user who may dispatch any intent at any time, and as the request for a
refinement it sends after a transcription. In the vault, writes that fail are
left out; a disk that is full is therefore not seen to leave a
torn record in mid-file. The settings `auto_refine` and `refinement.enabled` do not change
during a behaviour of Refinement, `handle_bulk_refine` does not fail between
setting its flag and starting its thread, and the reload after an update of the
settings does not fail (its handler logs and goes on). Reads (searches, counts, lists of models) change no
state.

**Open.** The refinement of DurableCapture with cancels for one recording as a
theorem; the vault's failing writes; a composition of RecordingSession with
AudioVault in place of the abstract `durable`.
