------------------------------ MODULE Hotkeys ------------------------------
(***************************************************************************)
(* The global hotkey (src/input_handler): keyboards that come and go, the  *)
(* backend that reads them, the KeyListener that watches for the chord,    *)
(* and the two callbacks by which the coordinator starts and stops a       *)
(* recording.                                                              *)
(*                                                                         *)
(* The keyboards belong to the user: held is what is physically down,      *)
(* queue what the kernel has not handed over yet.  The input thread reads  *)
(* whether the chord was active (Look) and only then updates it and calls  *)
(* back (Handle); requests of the API run in between.  missed remembers    *)
(* that a key may have come up unseen: a keyboard was pulled, or the chord *)
(* was reset or diverted under the fingers.                                *)
(***************************************************************************)
EXTENDS Naturals, Sequences, Functions

CONSTANTS
    Keyboards,     \* device paths under /dev/input
    Modifiers,     \* keys that may be pressed on either side, such as Ctrl
    Plain,         \* the other keys
    Chords,        \* the activation keys a user may configure: sets of sets of keys
    MaxQueue,      \* bound: events the kernel holds, over all keyboards
    MaxPlugs,      \* bound: times a keyboard is plugged in again
    MaxRequests,   \* bound: configuration updates and key captures
    NoEvent           \* the input thread has no event in hand

Keys == Modifiers \cup Plain
Backends == {"evdev", "pynput"}
Modes == {"press_to_toggle", "hold_to_record"}

VARIABLES
    held,        \* keyboard -> keys that are down
    queue,       \* keyboard -> events not yet read
    plugged,     \* keyboards that are there
    devices,     \* keyboard -> "closed", "open", or "stale": open, but of a pulled keyboard
    paths,       \* _device_paths
    backend,     \* active_backend, or "none"
    mode,        \* recording.recording_mode
    keys,        \* key_chord.keys
    pressed,     \* key_chord.pressed_keys
    capture,     \* capture_mode
    update,      \* a configuration update: "none", or "saved" while the keys are not reloaded
    event,       \* what on_input_event has in hand
    recording,   \* "no", "held" or "begun" by the chord, "stopping"
    missed,      \* a release may have gone unseen
    fresh,       \* keys whose press was seen since the last toggle
    plugs, requests

hvars == <<held, queue, plugged, devices, paths, backend, mode, keys, pressed,
           capture, update, event, recording, missed, fresh, plugs, requests>>

Kinds == {"press", "release", "repeat"}
Waiting == FoldFunction(LAMBDA q, n : Len(q) + n, 0, queue)

\* KeyChord.is_active: every element of the chord has one of its keys down.
Active(ks, down) == \A k \in ks : k \cap down # {}
ChordIsDown == Active(keys, UNION {held[d] : d \in Keyboards})
Fingers == {d \in Keyboards : held[d] # {} \/ queue[d] # <<>>}

\* missed lasts until the recording is over, the chord holds no key and no
\* event is in hand.
Misses(now) ==
    missed' = ((missed \/ now) /\ ~(recording' = "no" /\ pressed' = {} /\ event' = NoEvent))

TypeOK ==
    /\ held \in [Keyboards -> SUBSET Keys]
    /\ queue \in [Keyboards -> Seq(Keys \X Kinds)]
    /\ plugged \subseteq Keyboards /\ paths \subseteq Keyboards
    /\ devices \in [Keyboards -> {"closed", "open", "stale"}]
    /\ \A d \in Keyboards : devices[d] # "closed" <=> d \in paths
    /\ backend \in Backends \cup {"none"}
    /\ mode \in Modes /\ keys \in Chords
    /\ pressed \subseteq Keys /\ fresh \subseteq Keys
    /\ capture \in BOOLEAN /\ missed \in BOOLEAN
    /\ update \in {"none", "saved"}
    /\ event \in {NoEvent} \cup [key : Keys, kind : Kinds, was : BOOLEAN]
    /\ recording \in {"no", "held", "begun", "stopping"}

\* KeyListener.start: the preferred backend first, then the other; evdev does
\* not start without a keyboard it can open, pynput not without a display.
Started(preferred, display) ==
    LET starts(b) == IF b = "evdev" THEN plugged # {} ELSE display
    IN IF starts(preferred) THEN preferred
       ELSE IF \E b \in Backends : starts(b) THEN CHOOSE b \in Backends : starts(b)
       ELSE "none"

Init ==
    /\ held = [d \in Keyboards |-> {}] /\ queue = [d \in Keyboards |-> <<>>]
    /\ plugged \in SUBSET Keyboards
    /\ \E preferred \in Backends, display \in BOOLEAN : backend = Started(preferred, display)
    /\ paths = IF backend = "evdev" THEN plugged ELSE {}
    /\ devices = [d \in Keyboards |-> IF d \in paths THEN "open" ELSE "closed"]
    /\ mode \in Modes /\ keys \in Chords /\ pressed = {} /\ fresh = {}
    /\ capture = FALSE /\ update = "none" /\ event = NoEvent
    /\ recording = "no" /\ missed = FALSE
    /\ plugs = 0 /\ requests = 0

-----------------------------------------------------------------------------
(* The user at the keyboards.                                              *)

\* The kernel queues an event for whoever has the keyboard open.
Heard(d) == devices[d] = "open" \/ backend = "pynput"
Queued(d, k, kind) ==
    /\ Heard(d) => Waiting < MaxQueue
    /\ queue' = IF Heard(d) THEN [queue EXCEPT ![d] = Append(@, <<k, kind>>)] ELSE queue

Press(d, k) ==
    /\ d \in plugged /\ k \notin held[d]
    /\ held' = [held EXCEPT ![d] = @ \cup {k}]
    /\ Queued(d, k, "press")
    /\ UNCHANGED <<plugged, devices, paths, backend, mode, keys, pressed, capture, update,
                   event, recording, missed, fresh, plugs, requests>>

Release(d, k) ==
    /\ d \in plugged /\ k \in held[d]
    /\ held' = [held EXCEPT ![d] = @ \ {k}]
    /\ Queued(d, k, "release")
    /\ UNCHANGED <<plugged, devices, paths, backend, mode, keys, pressed, capture, update,
                   event, recording, missed, fresh, plugs, requests>>

Repeat(d, k) ==
    /\ d \in plugged /\ k \in held[d] \cap Plain /\ Heard(d)
    /\ Queued(d, k, "repeat")
    /\ UNCHANGED <<held, plugged, devices, paths, backend, mode, keys, pressed, capture, update,
                   event, recording, missed, fresh, plugs, requests>>

\* What was down on the keyboard and not yet read is gone with it.
Unplug(d) ==
    /\ d \in plugged
    /\ plugged' = plugged \ {d}
    /\ held' = [held EXCEPT ![d] = {}] /\ queue' = [queue EXCEPT ![d] = <<>>]
    /\ devices' = [devices EXCEPT ![d] = IF @ = "open" THEN "stale" ELSE @]
    /\ UNCHANGED <<paths, backend, mode, keys, pressed, capture, update, event, recording,
                   fresh, plugs, requests>>
    /\ Misses(d \in Fingers \/ event # NoEvent)

Plug(d) ==
    /\ d \notin plugged /\ plugs < MaxPlugs
    /\ plugged' = plugged \cup {d} /\ plugs' = plugs + 1
    /\ UNCHANGED <<held, queue, devices, paths, backend, mode, keys, pressed, capture, update,
                   event, recording, missed, fresh, requests>>

-----------------------------------------------------------------------------
(* EvdevBackend: _listen_loop                                              *)

\* _rescan_devices opens the paths it does not know; opening may fail, and
\* the path is tried again at the next scan.
Rescan ==
    /\ backend = "evdev" /\ event = NoEvent
    /\ \E d \in plugged \ paths :
         /\ devices' = [devices EXCEPT ![d] = "open"]
         /\ paths' = paths \cup {d}
    /\ UNCHANGED <<held, queue, plugged, backend, mode, keys, pressed, capture, update, event,
                   recording, missed, fresh, plugs, requests>>

\* Mutant: the device is closed, but its path is not forgotten.
ForgetKeepsPath(d) ==
    /\ backend = "evdev" /\ event = NoEvent /\ devices[d] = "stale"
    /\ devices' = [devices EXCEPT ![d] = "closed"]
    /\ UNCHANGED <<held, queue, plugged, paths, backend, mode, keys, pressed, capture, update,
                   event, recording, missed, fresh, plugs, requests>>

\* Reading a pulled keyboard raises ENODEV, and _remove_device forgets it.
Forget(d) ==
    /\ backend = "evdev" /\ event = NoEvent /\ devices[d] = "stale"
    /\ devices' = [devices EXCEPT ![d] = "closed"]
    /\ paths' = paths \ {d}
    /\ UNCHANGED <<held, queue, plugged, backend, mode, keys, pressed, capture, update, event,
                   recording, missed, fresh, plugs, requests>>

\* _translate_key_event: evdev drops auto-repeat, pynput sees another press.
Translated(kind) ==
    IF kind # "repeat" THEN {kind} ELSE IF backend = "pynput" THEN {"press"} ELSE {}

\* The capture handler collects modifiers; another key ends the capture,
\* which clears the chord.
CaptureKey(k, kind) ==
    IF kind = "press" /\ k \in Plain
    THEN capture' = FALSE /\ pressed' = {} ELSE UNCHANGED <<capture, pressed>>

\* An event is read: dropped, given to the capture handler, or looked at by
\* on_input_event, which first asks whether the chord is active.
Look(d) ==
    /\ event = NoEvent /\ queue[d] # <<>>
    /\ LET k == Head(queue[d])[1]
           kind == Head(queue[d])[2]
       IN /\ queue' = [queue EXCEPT ![d] = Tail(@)]
          /\ IF Translated(kind) = {} THEN UNCHANGED <<event, capture, pressed, fresh>>
             ELSE IF capture
             THEN CaptureKey(k, CHOOSE t \in Translated(kind) : TRUE) /\ UNCHANGED <<event, fresh>>
             ELSE /\ event' = [key |-> k, kind |-> kind, was |-> Active(keys, pressed)]
                  /\ fresh' = IF kind = "press" THEN fresh \cup {k} ELSE fresh
                  /\ UNCHANGED <<capture, pressed>>
    /\ UNCHANGED <<held, plugged, devices, paths, backend, mode, keys, update, recording,
                   plugs, requests>>
    /\ Misses(capture)

-----------------------------------------------------------------------------
(* KeyListener.on_input_event and the callbacks of the coordinator         *)

\* KeyChord.update
Updated == IF event.kind = "release" THEN pressed \ {event.key} ELSE pressed \cup {event.key}

NowActive == Active(keys, Updated)
Activates == ~event.was /\ NowActive
Deactivates == event.was /\ ~NowActive

\* BeginRecordingIntent: refused while a recording is there, and it may fail.
Begin(how) == recording' \in IF recording = "no" THEN {"no", how} ELSE {recording}
Stop == recording' = IF recording = "no" THEN "no" ELSE "stopping"

\* Mutant: the chord's keys are kept when a recording is begun or ended.
KeptAfterToggle == Updated

\* reset_chord_state
LeftAfterToggle == {}

\* _on_hotkey and _on_hotkey_release: a toggle clears the chord.
Handled ==
    IF Activates /\ mode = "press_to_toggle"
    THEN /\ IF recording = "no" THEN Begin("begun") ELSE Stop
         /\ pressed' = LeftAfterToggle
         /\ fresh' = {}
    ELSE /\ IF Activates THEN Begin("held")
            ELSE IF Deactivates /\ mode = "hold_to_record" THEN Stop
            ELSE UNCHANGED recording
         /\ pressed' = Updated
         /\ UNCHANGED fresh

Handle ==
    /\ event # NoEvent
    /\ Handled
    /\ event' = NoEvent
    /\ UNCHANGED <<held, queue, plugged, devices, paths, backend, mode, keys, capture, update,
                   plugs, requests>>
    /\ Misses(FALSE)

-----------------------------------------------------------------------------
(* The API: recordings started and stopped there, UpdateConfigIntent, and  *)
(* /api/keycapture                                                         *)

\* The user starts or stops a recording in the window; a recording ends by
\* itself once it is told to stop, or when its microphone fails.
Window ==
    /\ Begin("begun") \/ Stop \/ (recording # "no" /\ recording' = "no")
    /\ recording' # recording
    /\ UNCHANGED <<held, queue, plugged, devices, paths, backend, mode, keys, pressed, capture,
                   update, event, fresh, plugs, requests>>
    /\ Misses(FALSE)

\* handle_update_config: the callbacks see the new mode at once, ...
UpdateConfig ==
    /\ update = "none" /\ requests < MaxRequests
    /\ mode' \in Modes
    /\ update' = "saved" /\ requests' = requests + 1
    /\ UNCHANGED <<held, queue, plugged, devices, paths, backend, keys, pressed, capture, event,
                   recording, fresh, plugs>>
    /\ Misses(mode' # mode)

\* ... the listener gets a new chord with nothing pressed afterwards.
ReloadKeys ==
    /\ update = "saved"
    /\ keys' \in Chords
    /\ pressed' = {} /\ update' = "none"
    /\ UNCHANGED <<held, queue, plugged, devices, paths, backend, mode, capture, event,
                   recording, fresh, plugs, requests>>
    /\ Misses(TRUE)

StartCapture ==
    /\ ~capture /\ backend # "none" /\ requests < MaxRequests
    /\ capture' = TRUE /\ requests' = requests + 1
    /\ UNCHANGED <<held, queue, plugged, devices, paths, backend, mode, keys, pressed, update,
                   event, recording, fresh, plugs>>
    /\ Misses(TRUE)

StopCapture ==
    /\ capture
    /\ capture' = FALSE /\ pressed' = {}
    /\ UNCHANGED <<held, queue, plugged, devices, paths, backend, mode, keys, update, event,
                   recording, fresh, plugs, requests>>
    /\ Misses(TRUE)

-----------------------------------------------------------------------------
Next ==
    \/ \E d \in Keyboards, k \in Keys : Press(d, k) \/ Release(d, k) \/ Repeat(d, k)
    \/ \E d \in Keyboards : Unplug(d) \/ Plug(d) \/ Forget(d) \/ Look(d)
    \/ Rescan \/ Handle \/ Window
    \/ UpdateConfig \/ ReloadKeys \/ StartCapture \/ StopCapture

\* _listen_loop comes round to the scan and to every keyboard that select
\* reports, between the events it handles.
Fairness ==
    /\ SF_hvars(Rescan) /\ WF_hvars(Handle)
    /\ \A d \in Keyboards : SF_hvars(Forget(d)) /\ SF_hvars(Look(d))

Spec == Init /\ [][Next]_hvars
FairSpec == Spec /\ Fairness

-----------------------------------------------------------------------------
(* In hold_to_record mode the microphone is open only while the chord is   *)
(* down: once everything read has been handled, a recording the chord      *)
(* started implies the fingers are still on it, whichever keyboards they   *)
(* are on, unless a release was truly missed.                              *)
HeldWhileRecording ==
    recording = "held" /\ event = NoEvent /\ (\A d \in Keyboards : queue[d] = <<>>) /\ ~missed =>
        ChordIsDown

(* With evdev a toggle takes a press of every part of the chord since the  *)
(* last toggle: neither a key stuck after its keyboard was pulled, nor     *)
(* auto-repeat, nor a modifier kept down toggles twice.                    *)
OneToggleAPress ==
    event # NoEvent /\ backend = "evdev" /\ mode = "press_to_toggle" /\ Activates => Active(keys, fresh)

(* A keyboard that is plugged in, again too, is listened to or pulled.     *)
PluggedIsHeard ==
    \A d \in Keyboards :
        backend = "evdev" /\ d \in plugged ~> devices[d] = "open" \/ d \notin plugged
=============================================================================
