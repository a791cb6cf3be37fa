-------------------------------- MODULE Lifecycle --------------------------------
(***************************************************************************)
(* The beginning and the end of the process: main() of src/main.py,        *)
(* start() of the coordinator, open_window, and shutdown_coordinator and   *)
(* cleanup_coordinator of src/core/runtime/lifecycle.py.                   *)
(*                                                                         *)
(* shutdown is called by the window's closing callback, by open_window     *)
(* when the window's loop has ended, and by a signal handler, which Python *)
(* runs on the main thread between any two of its steps. It takes a lock,  *)
(* and what comes after the lock is for the first caller only. Any step of *)
(* the cleanup may hang; a watchdog then ends the process.                 *)
(***************************************************************************)
EXTENDS Naturals

CONSTANTS
  MaxSignals    \* bound on the signals delivered

VARIABLES
  main,         \* the main thread
  at,           \* where each caller of shutdown is in it
  lock,         \* the caller that has _shutdown_lock, or "free"
  started,      \* _shutdown_started
  event,        \* _shutdown_event
  server,       \* the API server: "none", "up", "leaving", "down"
  window,       \* "none", "made", "shown", "destroyed"
  recording,    \* the latest recording thread: "none", "capturing", "storing"
  stop,         \* _recording_stop
  database,     \* "open", "closed"
  watchdog,     \* whether it is running
  signals, early, nested
    \* history: signals that were delivered, whether one came before the window
    \* was shown, whether one interrupted the holder of the lock

lvars == <<main, at, lock, started, event, server, window, recording, stop,
           database, watchdog, signals, early, nested>>

Callers == {"main", "gui", "signal"}
Starting == {"load", "serve", "make", "show"}
Cleaning == {"cleanup", "listener", "release"}

TypeOK ==
  /\ main \in Starting \cup Cleaning \cup {"loop", "after", "gone"}
  /\ at \in [Callers -> {"away", "lock", "mark", "event", "stop", "server", "window"}]
  /\ lock \in Callers \cup {"free"}
  /\ \A a \in Callers : lock = a <=> at[a] = "mark"
  /\ started \in BOOLEAN /\ event \in BOOLEAN /\ stop \in BOOLEAN
  /\ server \in {"none", "up", "leaving", "down"}
  /\ window \in {"none", "made", "shown", "destroyed"}
  /\ recording \in {"none", "capturing", "storing"}
  /\ database \in {"open", "closed"} /\ watchdog \in BOOLEAN
  /\ signals \in 0..MaxSignals /\ early \in BOOLEAN /\ nested \in BOOLEAN

Init ==
  /\ main = "load" /\ at = [a \in Callers |-> "away"] /\ lock = "free"
  /\ started = FALSE /\ event = FALSE /\ server = "none" /\ window = "none"
  /\ recording = "none" /\ stop = FALSE
  /\ database = "open" /\ watchdog = FALSE
  /\ signals = 0 /\ early = FALSE /\ nested = FALSE

Alive == main # "gone"

\* The main thread goes on when neither a signal handler nor its own call of
\* shutdown is on top of it.
MainAt(place) == main = place /\ at["signal"] = "away" /\ at["main"] = "away"

-----------------------------------------------------------------------------
(* start() and open_window *)

MainGoes(place) ==
  /\ main' = place
  /\ UNCHANGED <<at, lock, started, event, stop, signals, early, nested>>

\* The database, the engines, the handlers.
Load ==
  /\ MainAt("load") /\ MainGoes("serve")
  /\ UNCHANGED <<server, window, recording, database, watchdog>>

\* Anything that raises out of start() goes to the cleanup.
StartFails ==
  /\ MainAt("load") /\ MainGoes("cleanup")
  /\ watchdog' = TRUE
  /\ UNCHANGED <<server, window, recording, database>>

\* The server's thread, and fifteen seconds at most until it answers.
Serve ==
  /\ MainAt("serve") /\ MainGoes("make")
  /\ server' \in {"none", "up"}
  /\ UNCHANGED <<window, recording, database, watchdog>>

MakeWindow ==
  /\ MainAt("make") /\ MainGoes("show")
  /\ window' = "made"
  /\ UNCHANGED <<server, recording, database, watchdog>>

ShowWindow ==
  /\ MainAt("show") /\ MainGoes("loop")
  /\ window' = "shown"
  /\ UNCHANGED <<server, recording, database, watchdog>>

\* pywebview raises: what follows is the same as after the loop.
WindowFails ==
  /\ MainAt("show") /\ MainGoes("after")
  /\ UNCHANGED <<server, window, recording, database, watchdog>>

\* webview.start returns.
LoopEnds ==
  /\ MainAt("loop") /\ window = "destroyed"
  /\ MainGoes("after")
  /\ UNCHANGED <<server, window, recording, database, watchdog>>

\* open_window's finally, and the watchdog of cleanup_coordinator.
AfterLoop ==
  /\ MainAt("after")
  /\ IF event
     THEN main' = "cleanup" /\ watchdog' = TRUE /\ UNCHANGED at
     ELSE at' = [at EXCEPT !["main"] = "lock"] /\ UNCHANGED <<main, watchdog>>
  /\ UNCHANGED <<lock, started, event, server, window, recording, stop, database,
                 signals, early, nested>>

-----------------------------------------------------------------------------
(* shutdown_coordinator *)

Goes(a, place) ==
  /\ at' = [at EXCEPT ![a] = place]
  /\ UNCHANGED <<main, recording, database, watchdog, signals, early, nested>>

\* A caller on the main thread that a signal has interrupted waits.
MayGo(a) == Alive /\ (a = "main" => at["signal"] = "away")

TakeLock(a) ==
  /\ at[a] = "lock" /\ MayGo(a) /\ lock = "free"
  /\ lock' = a
  /\ Goes(a, "mark")
  /\ UNCHANGED <<started, event, server, window, stop>>

Mark(a) ==
  /\ at[a] = "mark" /\ MayGo(a)
  /\ started' = TRUE /\ lock' = "free"
  /\ Goes(a, IF ~started THEN "event" ELSE IF a = "gui" THEN "window" ELSE "away")
  /\ UNCHANGED <<event, server, window, stop>>

SetEvent(a) ==
  /\ at[a] = "event" /\ MayGo(a)
  /\ event' = TRUE
  /\ Goes(a, "stop")
  /\ UNCHANGED <<lock, started, server, window, stop>>

\* cancel_for_shutdown.
StopRecording(a) ==
  /\ at[a] = "stop" /\ MayGo(a)
  /\ stop' = TRUE
  /\ Goes(a, "server")
  /\ UNCHANGED <<lock, started, event, server, window>>

StopServer(a) ==
  /\ at[a] = "server" /\ MayGo(a)
  /\ server' = IF server = "up" THEN "leaving" ELSE server
  /\ Goes(a, IF a = "main" THEN "away" ELSE "window")
  /\ UNCHANGED <<lock, started, event, window, stop>>

\* destroy_for_shutdown; a window that is not shown yet cannot be destroyed. The
\* toolkit destroys the window that its user closes, when the callback returns.
DestroyWindow(a) ==
  /\ at[a] = "window" /\ MayGo(a)
  /\ window' = IF window = "shown" THEN "destroyed" ELSE window
  /\ Goes(a, "away")
  /\ UNCHANGED <<lock, started, event, server, stop>>

ShutdownStep ==
  \E a \in Callers :
    TakeLock(a) \/ Mark(a) \/ SetEvent(a) \/ StopRecording(a) \/ StopServer(a)
      \/ DestroyWindow(a)

\* The user closes the window.
CloseWindow ==
  /\ Alive /\ window = "shown" /\ at["gui"] = "away"
  /\ at' = [at EXCEPT !["gui"] = "lock"]
  /\ UNCHANGED <<main, lock, started, event, server, window, recording, stop,
                 database, watchdog, signals, early, nested>>

Signal ==
  /\ Alive /\ signals < MaxSignals /\ at["signal"] = "away"
  /\ signals' = signals + 1
  /\ at' = [at EXCEPT !["signal"] = "lock"]
  /\ early' = (early \/ window \in {"none", "made"})
  /\ nested' = (nested \/ lock = "main")
  /\ UNCHANGED <<main, lock, started, event, server, window, recording, stop,
                 database, watchdog>>

-----------------------------------------------------------------------------
(* Recording, and the server's thread *)

Thread == UNCHANGED <<main, at, lock, started, event, window, database, watchdog,
                      signals, early, nested>>

\* By the hotkey or the API, once the start has succeeded; a begin does not ask
\* whether there is a shutdown.
Begin ==
  /\ main \notin {"load", "listener", "release", "gone"} /\ recording = "none"
  /\ main = "cleanup" => window # "none"
  /\ recording' = "capturing" /\ stop' = FALSE
  /\ Thread /\ UNCHANGED server

\* The loop ends; nothing is transcribed during a shutdown.
CaptureEnds ==
  /\ Alive /\ recording = "capturing"
  /\ recording' = IF event THEN "none" ELSE "storing"
  /\ Thread /\ UNCHANGED <<server, stop>>

Stored ==
  /\ Alive /\ recording = "storing"
  /\ recording' = "none"
  /\ Thread /\ UNCHANGED <<server, stop>>

ServerLeaves ==
  /\ Alive /\ server = "leaving"
  /\ server' = "down"
  /\ Thread /\ UNCHANGED <<recording, stop>>

-----------------------------------------------------------------------------
(* do_cleanup *)

\* Five seconds for the recording thread, then the listener and the engines.
JoinRecording ==
  /\ MainAt("cleanup")
  /\ main' = "listener"
  /\ UNCHANGED <<at, lock, started, event, server, window, recording, stop,
                 database, watchdog, signals, early, nested>>

\* The database, then five seconds for the server.
CloseDatabase ==
  /\ MainAt("listener")
  /\ main' = "release" /\ database' = "closed"
  /\ server' = IF server = "up" THEN "leaving" ELSE server
  /\ UNCHANGED <<at, lock, started, event, window, recording, stop, watchdog,
                 signals, early, nested>>

\* The watchdog is cancelled, the instance lock released; daemon threads end.
Release ==
  /\ MainAt("release")
  /\ main' = "gone" /\ watchdog' = FALSE
  /\ UNCHANGED <<at, lock, started, event, server, window, recording, stop,
                 database, signals, early, nested>>

\* Mutant: the watchdog is for the time after the recording thread only.
WatchdogLate ==
  /\ Alive /\ watchdog /\ main \in Cleaning \ {"cleanup"}
  /\ main' = "gone" /\ watchdog' = FALSE
  /\ UNCHANGED <<at, lock, started, event, server, window, recording, stop,
                 database, signals, early, nested>>

\* os._exit after eight seconds.
Watchdog ==
  /\ Alive /\ watchdog
  /\ main' = "gone" /\ watchdog' = FALSE
  /\ UNCHANGED <<at, lock, started, event, server, window, recording, stop,
                 database, signals, early, nested>>

Over == ~Alive /\ UNCHANGED lvars

Next ==
  \/ Load \/ StartFails \/ Serve \/ MakeWindow \/ ShowWindow \/ WindowFails
  \/ LoopEnds \/ AfterLoop
  \/ ShutdownStep \/ CloseWindow \/ Signal
  \/ Begin \/ CaptureEnds \/ Stored \/ ServerLeaves
  \/ JoinRecording \/ CloseDatabase \/ Release \/ Watchdog
  \/ Over

Spec == Init /\ [][Next]_lvars

\* start() returns or raises, the window's loop ends when the window is gone,
\* and the steps of a shutdown are taken. None of the cleanup's steps is fair:
\* each may hang. Timers fire.
Fairness ==
  /\ WF_lvars(Load \/ StartFails) /\ WF_lvars(Serve) /\ WF_lvars(MakeWindow)
  /\ WF_lvars(ShowWindow \/ WindowFails) /\ WF_lvars(LoopEnds) /\ WF_lvars(AfterLoop)
  /\ \A a \in Callers :
       WF_lvars(TakeLock(a) \/ Mark(a) \/ SetEvent(a) \/ StopRecording(a)
                  \/ StopServer(a) \/ DestroyWindow(a))
  /\ WF_lvars(Watchdog)

FairSpec == Spec /\ Fairness

-----------------------------------------------------------------------------
(* Properties *)

\* A process whose window is gone, or that gets a signal, ends, whatever hangs in
\* its cleanup and whoever asks at the same time: unless the signal comes before
\* the window is shown, or interrupts the main thread while it has the lock of
\* shutdown, which is not reentrant.
EndsWhenAsked ==
  /\ window = "destroyed" ~> (~Alive \/ nested)
  /\ signals > 0 ~> (~Alive \/ early \/ nested)

\* "Signal handlers for graceful shutdown": a signal that comes while the
\* application starts ends it too.
SignalShutsDown == signals > 0 ~> (~Alive \/ nested)
===============================================================================
