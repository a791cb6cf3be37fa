------------------------------ MODULE SLMRuntime ------------------------------
(***************************************************************************)
(* The runtime of the refinement model, src/services/slm_runtime.py: its    *)
(* state, its engine and the lock around inference; the thread that loads   *)
(* the engine; the threads that refine (handle_refine, bulk refinement) or  *)
(* generate titles and insights; and the engine restart of                  *)
(* src/core/runtime/lifecycle.py, which puts a new runtime in its place.    *)
(*                                                                          *)
(* The state is written with and without the lock, so every read and write  *)
(* of it is a step. Each thread serves one request.                         *)
(***************************************************************************)
EXTENDS FiniteSets

CONSTANTS
  Runtimes,      \* SLMRuntime objects, one more than the restarts explored
  Refiners,      \* threads that call refine_text_sync
  Generators,    \* threads that call generate_custom_sync
  NoRuntime,     \* None in coordinator.slm_runtime
  NoOne,         \* the lock is free
  LockTimeouts,  \* whether waiting for the lock may time out
  EarlyRequests  \* whether titles are asked for before the engine is loaded

Clients == Refiners \cup Generators

RuntimeAssumption ==
  /\ NoRuntime \notin Runtimes /\ NoOne \notin Clients
  /\ Refiners \cap Generators = {}
  /\ LockTimeouts \in BOOLEAN /\ EarlyRequests \in BOOLEAN

VARIABLES
  current,       \* coordinator.slm_runtime
  state, engine, \* per runtime: _state, and whether _engine is set
  holder,        \* per runtime: who holds _lock
  loader,        \* per runtime: where its loading thread is
  cpc, mine, prev,
                 \* per client: its step, its runtime, and previous_state (at
                 \* the end, the state it is about to write)
  restart        \* the engine-restart thread's step

clientVars == <<cpc, mine, prev>>
vars == <<current, state, engine, holder, loader, clientVars, restart>>

States == {"Disabled", "Loading", "Ready", "Inferring", "Error"}

TypeOK ==
  /\ current \in Runtimes \cup {NoRuntime}
  /\ state \in [Runtimes -> States \cup {"unborn"}]
  /\ engine \in [Runtimes -> BOOLEAN]
  /\ holder \in [Runtimes -> Clients \cup {NoOne}]
  /\ loader \in [Runtimes -> {"none", "load", "publish", "done"}]
  /\ cpc \in [Clients -> {"idle", "fetch", "enter", "mark", "wait", "give_up",
                          "check", "infer", "leave", "settle", "write", "done"}]
  /\ mine \in [Clients -> Runtimes \cup {NoRuntime}]
  /\ \A c \in Clients : cpc[c] \notin {"idle", "fetch", "done"} =>
       mine[c] \in Runtimes
  /\ prev \in [Clients -> States]
  /\ restart \in {"idle", "unload", "disable", "drop", "init", "enable",
                 "start"}

\* init_slm_runtime has just enabled the first runtime.
Init ==
  \E r \in Runtimes :
    /\ current = r
    /\ state = [x \in Runtimes |-> IF x = r THEN "Loading" ELSE "unborn"]
    /\ engine = [x \in Runtimes |-> FALSE]
    /\ holder = [x \in Runtimes |-> NoOne]
    /\ loader = [x \in Runtimes |-> IF x = r THEN "load" ELSE "none"]
    /\ cpc = [c \in Clients |-> "idle"]
    /\ mine = [c \in Clients |-> NoRuntime]
    /\ prev = [c \in Clients |-> "Disabled"]
    /\ restart = "idle"

Step(c, from, to) == cpc[c] = from /\ cpc' = [cpc EXCEPT ![c] = to]
Write(r, s)       == state' = [state EXCEPT ![r] = s]

-----------------------------------------------------------------------------
(* _load_model_task *)

\* The provider is loaded and published; or refinement is off in the settings;
\* or loading fails.
Load(r) ==
  /\ loader[r] = "load"
  /\ \/ /\ engine' = [engine EXCEPT ![r] = TRUE]
        /\ loader' = [loader EXCEPT ![r] = "publish"]
        /\ UNCHANGED state
     \/ /\ \E s \in {"Disabled", "Error"} : Write(r, s)
        /\ loader' = [loader EXCEPT ![r] = "done"]
        /\ UNCHANGED engine
  /\ UNCHANGED <<current, holder, clientVars, restart>>

\* Describing the provider that is in place may raise yet.
LoadReady(r) ==
  /\ loader[r] = "publish"
  /\ \E s \in {"Ready", "Error"} : Write(r, s)
  /\ loader' = [loader EXCEPT ![r] = "done"]
  /\ UNCHANGED <<current, engine, holder, clientVars, restart>>

-----------------------------------------------------------------------------
(* refine_text_sync and generate_custom_sync *)

\* handle_refine and do_bulk: validate_slm_ready, then a thread.
RequestRefine(c) ==
  /\ c \in Refiners
  /\ current # NoRuntime /\ state[current] = "Ready"
  /\ Step(c, "idle", "fetch")
  /\ UNCHANGED <<current, state, engine, holder, loader, mine, prev, restart>>

\* TitleGenerator.schedule asks only for a runtime; InsightManager also wants
\* it ready.
RequestCustom(c) ==
  /\ c \in Generators
  /\ current # NoRuntime
  /\ EarlyRequests \/ loader[current] = "done"
  /\ Step(c, "idle", "fetch")
  /\ UNCHANGED <<current, state, engine, holder, loader, mine, prev, restart>>

\* The thread looks the runtime up; without one the request fails.
Fetch(c) ==
  /\ Step(c, "fetch", CASE current = NoRuntime -> "done"
                        [] current # NoRuntime /\ c \in Refiners -> "enter"
                        [] OTHER -> "wait")
  /\ mine' = [mine EXCEPT ![c] = current]
  /\ UNCHANGED <<current, state, engine, holder, loader, prev, restart>>

\* refine_text_sync: no engine is an error; else remember the state ...
Enter(c) ==
  /\ c \in Refiners
  /\ Step(c, "enter", IF engine[mine[c]] THEN "mark" ELSE "done")
  /\ prev' = [prev EXCEPT ![c] = state[mine[c]]]
  /\ UNCHANGED <<current, state, engine, holder, loader, mine, restart>>

\* ... and mark the runtime busy, a refiner before it has the lock and a
\* generator after.
MarkBusy(c) ==
  /\ Step(c, "mark", IF c \in Refiners THEN "wait" ELSE "check")
  /\ Write(mine[c], "Inferring")
  /\ UNCHANGED <<current, engine, holder, loader, mine, prev, restart>>

\* Mutant: the lock is taken only by who finds the runtime ready.
AcquireReady(c) ==
  LET r == mine[c] IN
  /\ Step(c, "wait", IF c \in Refiners THEN "check" ELSE "mark")
  /\ holder[r] = NoOne /\ state[r] = "Ready"
  /\ holder' = [holder EXCEPT ![r] = c]
  /\ IF c \in Refiners
     THEN Write(r, "Inferring") /\ UNCHANGED prev
     ELSE prev' = [prev EXCEPT ![c] = state[r]] /\ UNCHANGED state
  /\ UNCHANGED <<current, engine, loader, mine, restart>>

Acquire(c) ==
  LET r == mine[c] IN
  /\ Step(c, "wait", IF c \in Refiners THEN "check" ELSE "mark")
  /\ holder[r] = NoOne
  /\ holder' = [holder EXCEPT ![r] = c]
  /\ IF c \in Refiners
     THEN Write(r, "Inferring") /\ UNCHANGED prev
     ELSE prev' = [prev EXCEPT ![c] = state[r]] /\ UNCHANGED state
  /\ UNCHANGED <<current, engine, loader, mine, restart>>

\* The lock did not come free in time: a generator returns the empty text, a
\* refiner first puts back the state it found.
TimeOut(c) ==
  /\ LockTimeouts
  /\ Step(c, "wait", IF c \in Refiners THEN "give_up" ELSE "done")
  /\ holder[mine[c]] # NoOne
  /\ UNCHANGED <<current, state, engine, holder, loader, mine, prev, restart>>

GiveUp(c) ==
  /\ Step(c, "give_up", "done")
  /\ Write(mine[c], prev[c])
  /\ UNCHANGED <<current, engine, holder, loader, mine, prev, restart>>

\* With the lock: no engine is an error, else inference.
Check(c) ==
  /\ Step(c, "check", IF engine[mine[c]] THEN "infer" ELSE "leave")
  /\ UNCHANGED <<current, state, engine, holder, loader, mine, prev, restart>>

\* Inference returns or raises.
Infer(c) ==
  /\ Step(c, "infer", "leave")
  /\ UNCHANGED <<current, state, engine, holder, loader, mine, prev, restart>>

\* Mutant: without an engine the lock is kept.
LeaveHolding(c) ==
  /\ Step(c, "leave", "settle")
  /\ holder' = [holder EXCEPT ![mine[c]] = IF engine[mine[c]] THEN NoOne ELSE @]
  /\ UNCHANGED <<current, state, engine, loader, mine, prev, restart>>

\* finally: release the lock, then decide on a state, then write it.
Leave(c) ==
  /\ Step(c, "leave", "settle")
  /\ holder' = [holder EXCEPT ![mine[c]] = NoOne]
  /\ UNCHANGED <<current, state, engine, loader, mine, prev, restart>>

\* Mutant: a request leaves the runtime ready, whatever it holds.
SettleReady(c) ==
  /\ Step(c, "settle", "write")
  /\ prev' = [prev EXCEPT ![c] = "Ready"]
  /\ UNCHANGED <<current, state, engine, holder, loader, mine, restart>>

Settle(c) ==
  /\ Step(c, "settle", "write")
  /\ prev' = [prev EXCEPT ![c] = IF engine[mine[c]] THEN "Ready" ELSE @]
  /\ UNCHANGED <<current, state, engine, holder, loader, mine, restart>>

WriteBack(c) ==
  /\ Step(c, "write", "done")
  /\ Write(mine[c], prev[c])
  /\ UNCHANGED <<current, engine, holder, loader, mine, prev, restart>>

-----------------------------------------------------------------------------
(* restart_engine, one at a time under _restart_lock *)

\* Bound: a restart is explored only while a new runtime is left for it.
RestartBegin ==
  /\ restart = "idle"
  /\ \E r \in Runtimes : state[r] = "unborn"
  /\ restart' = IF current = NoRuntime THEN "init" ELSE "unload"
  /\ UNCHANGED <<current, state, engine, holder, loader, clientVars>>

\* Mutant: _unload_model without the lock.
RestartUnloadUnlocked ==
  /\ restart = "unload"
  /\ restart' = "disable"
  /\ engine' = [engine EXCEPT ![current] = FALSE]
  /\ UNCHANGED <<current, state, holder, loader, clientVars>>

\* disable: _unload_model under the lock ...
RestartUnload ==
  /\ restart = "unload" /\ holder[current] = NoOne
  /\ restart' = "disable"
  /\ engine' = [engine EXCEPT ![current] = FALSE]
  /\ UNCHANGED <<current, state, holder, loader, clientVars>>

\* ... then the state.
RestartDisable ==
  /\ restart = "disable"
  /\ restart' = "drop"
  /\ Write(current, "Disabled")
  /\ UNCHANGED <<current, engine, holder, loader, clientVars>>

RestartDrop ==
  /\ restart = "drop"
  /\ restart' = "init"
  /\ current' = NoRuntime
  /\ UNCHANGED <<state, engine, holder, loader, clientVars>>

\* _init_slm_runtime: a new runtime ...
RestartInit ==
  \E r \in Runtimes :
    /\ restart = "init" /\ state[r] = "unborn"
    /\ restart' = "enable"
    /\ current' = r
    /\ Write(r, "Disabled")
    /\ UNCHANGED <<engine, holder, loader, clientVars>>

\* ... and, if the settings say so, enable: nothing if its state is neither
\* disabled nor an error, ...
RestartEnable ==
  /\ restart = "enable"
  /\ \/ state[current] \in {"Disabled", "Error"} /\ restart' = "start"
     \/ restart' = "idle"
  /\ UNCHANGED <<current, state, engine, holder, loader, clientVars>>

\* ... else the loading thread.
RestartStart ==
  /\ restart = "start"
  /\ restart' = "idle"
  /\ Write(current, "Loading")
  /\ loader' = [loader EXCEPT ![current] = "load"]
  /\ UNCHANGED <<current, engine, holder, clientVars>>

-----------------------------------------------------------------------------
ClientStep(c) ==
  \/ Fetch(c) \/ Enter(c) \/ MarkBusy(c) \/ Acquire(c) \/ TimeOut(c)
  \/ GiveUp(c) \/ Check(c) \/ Infer(c) \/ Leave(c) \/ Settle(c) \/ WriteBack(c)

LoaderStep(r) == Load(r) \/ LoadReady(r)

RestartStep ==
  \/ RestartUnload \/ RestartDisable \/ RestartDrop \/ RestartInit
  \/ RestartEnable \/ RestartStart

Next ==
  \/ \E c \in Clients : RequestRefine(c) \/ RequestCustom(c) \/ ClientStep(c)
  \/ \E r \in Runtimes : LoaderStep(r)
  \/ RestartBegin \/ RestartStep

Spec == Init /\ [][Next]_vars

\* Threads that can proceed do, and so do loading and inference; requests and
\* restarts come if they come. Requests are finitely many, so the lock is free
\* from some point on for whoever still waits.
Fairness ==
  /\ \A c \in Clients : WF_vars(ClientStep(c))
  /\ \A r \in Runtimes : WF_vars(LoaderStep(r))
  /\ WF_vars(RestartStep)

FairSpec == Spec /\ Fairness

-----------------------------------------------------------------------------
(* Properties *)

\* Inference runs on an engine that is there until it ends, by one thread at a
\* time: neither a restart nor another request takes it away.
InferenceHasEngine ==
  \A c \in Clients :
    cpc[c] = "infer" => engine[mine[c]] /\ holder[mine[c]] = c

\* validate_slm_ready lets nobody in whom no engine awaits: outside a restart, a
\* current runtime that says it is ready has one.
ReadyMeansLoaded ==
  restart = "idle" /\ current # NoRuntime /\ state[current] = "Ready" =>
    engine[current]

\* Every request comes to an end: with a text, with an error, or timed out.
RequestsEnd == \A c \in Clients : (cpc[c] # "idle") ~> (cpc[c] = "done")

\* A restart of the engine ends, whatever is being inferred when it begins.
RestartEnds == (restart # "idle") ~> (restart = "idle")
===============================================================================
