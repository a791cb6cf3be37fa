---------------------------------- MODULE MCSafe ----------------------------------
(***************************************************************************)
(* The components that share no state and promise that something never     *)
(* happens, side by side: part says which of them a behaviour is of, and   *)
(* the others stay as they began. Each is what its own module says; only   *)
(* the names of variables that two of them have are changed.               *)
(***************************************************************************)
EXTENDS TitleGenerator, Sequences

CONSTANTS
  \* InstanceLock
  Processes, MaxFiles,
  \* Hotkeys
  Keyboards, OneKeyboard, Modifiers, Plain, MaxQueue, MaxPlugs, MaxRequests, NoEvent,
  \* SecretStore and Settings
  Providers, Recordings, MaxKeys, MaxFaults, Fields, Hotkey, Legacy, Updaters,
  MaxValue, MaxFailures, Damaged,
  \* EventFanout
  Sockets, Emitters, MaxEvents, None,
  \* DefaultPrompt
  Prompts, Protected, NoPrompt, MaxHandlers

ASSUME FilesAssumption == MaxFiles \in Nat \ {0}
\* A process id is told apart from what the file may hold instead of one.
ASSUME IdsAssumption == Processes \cap {"no file", "empty", "other"} = {}
\* A recording's id names no provider.
ASSUME AccountsAssumption == Providers \cap Recordings = {}
ASSUME KeysAssumption == MaxKeys \in Nat /\ None \notin 1..MaxKeys
\* A task waits for a socket or says why it does not.
ASSUME SocketsAssumption ==
  MaxEvents \in Nat /\ Sockets \cap {"new", "ready"} = {} /\ \A s \in SUBSET Sockets : s # None
ASSUME SettingsAssumption ==
  /\ MaxValue \in Nat /\ Hotkey \in Fields /\ None \notin Legacy
  /\ Damaged \notin [fields : [Fields -> 0..MaxValue], keys : SUBSET Legacy, gone : BOOLEAN]

ASSUME PromptAssumption == Protected \subseteq Prompts /\ NoPrompt \notin Prompts

ASSUME EventAssumption ==
  NoEvent \notin [key : Modifiers \cup Plain, kind : {"press", "release", "repeat"}, was : BOOLEAN]

VARIABLES
  part,
  path, made, locked, pidFile, opened, seen, state, pc, quiet,
  held, queue, plugged, devices, paths, backend, mode, keys, pressed, capture, update,
  event, recording, missed, fresh, plugs, requests,
  keyring, stored, op, read, audio, want, nextKey, faults, collided, unread,
  disk, bak, memory, used, shown, chord, phase, todo, secret, refused, step, merged,
  field, old, change, next, failures, overlapped, damaged, fellBack,
  open, connections, past, full, emitted, snapshot, tasks, running, sent, since, crowded,
  root, prompt, handlers, unnoticed

lockVars == <<path, made, locked, pidFile, opened, seen, state, pc, quiet>>
hotkeyVars == <<held, queue, plugged, devices, paths, backend, mode, keys, pressed,
  capture, update, event, recording, missed, fresh, plugs, requests>>
secretVars == <<keyring, stored, op, read, audio, want, nextKey, faults, collided, unread>>
settingsVars == <<disk, bak, memory, used, shown, chord, phase, todo, secret, refused, step,
  merged, field, old, change, next, failures, overlapped, damaged, fellBack>>
eventVars == <<open, connections, past, full, emitted, snapshot, tasks, running, sent,
  since, crowded>>
promptVars == <<root, prompt, handlers, unnoticed>>
safeVars == <<part, lockVars, vars, hotkeyVars, secretVars, settingsVars, eventVars, promptVars>>

\* Both Groq sections of an old file keep their key under one account.
Accounts == [s \in Legacy |-> IF s = "refinement.lm_studio" THEN "lm_studio" ELSE "groq"]

Lock == INSTANCE InstanceLock
Chords == {{Modifiers \cup Plain}, {{k} : k \in Modifiers \cup Plain}}
Hot == INSTANCE Hotkeys
Secret == INSTANCE SecretStore
            WITH backend <- keyring, snapshot <- read, failures <- faults,
                 MaxFailures <- MaxFaults
Setting == INSTANCE Settings WITH Account <- Accounts, pc <- step, asked <- change
Fanout == INSTANCE EventFanout
Default == INSTANCE DefaultPrompt WITH Transcripts <- Prompts

\* A component that the behaviour is not of has one beginning.
SafeInit ==
  /\ part \in {"lock", "title", "pair", "single", "secret", "setting", "fanout", "prompt"}
  /\ Lock!Init /\ (part = "lock" \/ <<made, pidFile>> = <<0, Lock!NoFile>>)
  /\ Init /\ (part = "title" \/ slm)
  /\ Hot!Init /\ (part = "pair" \/ plugged \subseteq OneKeyboard)
  /\ part \in {"pair", "single"} \/
       (/\ plugged = {} /\ backend = "none" /\ mode = "press_to_toggle"
        /\ keys = {Modifiers \cup Plain})
  /\ Secret!Init /\ (part = "secret" \/ keyring = "unavailable")
  /\ Setting!Init /\ (part = "setting" \/ ~(disk.gone \/ old # {}))
  /\ Fanout!Init /\ Default!Init

SafeNext ==
  \/ /\ part = "lock" /\ Lock!Next
     /\ UNCHANGED <<part, vars, hotkeyVars, secretVars, settingsVars, eventVars, promptVars>>
  \/ /\ part = "title" /\ Next
     /\ UNCHANGED <<part, lockVars, hotkeyVars, secretVars, settingsVars, eventVars, promptVars>>
  \* Two keyboards, or one with changes of the configuration.
  \/ /\ \/ part = "pair" /\ Hot!Next /\ requests' = 0
        \/ part = "single" /\ Hot!Next /\ plugged' \subseteq OneKeyboard
     /\ UNCHANGED <<part, lockVars, vars, secretVars, settingsVars, eventVars, promptVars>>
  \/ /\ part = "secret" /\ Secret!Next
     /\ UNCHANGED <<part, lockVars, vars, hotkeyVars, settingsVars, eventVars, promptVars>>
  \/ /\ part = "setting" /\ Setting!Next
     /\ UNCHANGED <<part, lockVars, vars, hotkeyVars, secretVars, eventVars, promptVars>>
  \/ /\ part = "fanout" /\ Fanout!Next
     /\ UNCHANGED <<part, lockVars, vars, hotkeyVars, secretVars, settingsVars, promptVars>>
  \/ /\ part = "prompt" /\ Default!Next
     /\ UNCHANGED <<part, lockVars, vars, hotkeyVars, secretVars, settingsVars, eventVars>>

SafeSpec == SafeInit /\ [][SafeNext]_safeVars

-----------------------------------------------------------------------------
(* Properties: those of the components, stated and explained in their      *)
(* modules, each with the types of its component's state.                  *)

\* An instance that came up in quiet is not pushed aside by later starts.
OneInstance == Lock!TypeOK /\ Lock!QuietIsAlone

\* The microphone is open only while a held chord is down, and each press of a
\* chord toggles once.
RecordingFollowsChord == Hot!TypeOK /\ Hot!HeldWhileRecording /\ Hot!OneToggleAPress

\* Acknowledged keys stay, and the key of encrypted audio that is on disk.
SecretsAreKept == Secret!TypeOK /\ Secret!KeysAreKept /\ Secret!RecordingsOpen

\* Saved settings stay, all copies agree with the file, and no old key is lost.
SettingsAgree ==
  Setting!TypeOK /\ Setting!CopiesAgree /\ Setting!SavedStays /\ Setting!KeysAreMoved

\* A window gets every event of a thread once, in order.
DeliveredInOrder == Fanout!TypeOK /\ Fanout!InOrder /\ Fanout!NothingIsMissed

\* A default prompt that is deleted is forgotten by the handler that deletes it.
DefaultPromptExists == Default!TypeOK /\ Default!DefaultIsThere
===============================================================================
