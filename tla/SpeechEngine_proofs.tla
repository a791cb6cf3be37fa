-------------------------- MODULE SpeechEngine_proofs --------------------------
(***************************************************************************)
(* What is stored and shown of the speech engine is so, for any number of  *)
(* runs, settings, retries and engine restarts, although each of them      *)
(* reads and writes _asr_model as it goes.                                 *)
(*                                                                         *)
(* IInv: HeardIsKnown says what a run knows of the engine it was given     *)
(* while it has it: it is still there, or was replaced under the run, or   *)
(* the run made one for itself because there was none. ReadyIsBacked and   *)
(* EffectIsDue say the same of a restart and of what it will show.         *)
(***************************************************************************)
EXTENDS SpeechEngine, TLAPS

Places == {"new", "read", "ensure", "load", "give", "own", "hear", "describe",
           "store", "finally", "over"}

RunsAreTyped ==
  /\ pc \in [Runs -> Places] /\ mine \in [Runs -> Configs \cup {NoConfig}]
  /\ using \in [Runs -> Summaries \cup {NoEngine}]
  /\ told \in [Runs -> Summaries \cup {NoEngine}]
  /\ tries \in [Runs -> 0..MaxRetries + 1] /\ replaced \in [Runs -> BOOLEAN]
  /\ \A r \in Runs : using[r] # NoEngine => Usable(using[r])

RunsHaveSettings ==
  \A r \in Runs :
    pc[r] \in {"load", "give", "own", "hear", "describe", "store"} => mine[r] \in Configs

RestIsTyped ==
  /\ cuda \in BOOLEAN /\ config \in Configs /\ changes \in 0..MaxChanges
  /\ engine \in Summaries \cup {NoEngine} /\ (engine # NoEngine => Usable(engine))
  /\ shown \in {"ready", "unavailable", "restarting"}
  /\ restart \in {"idle", "unload", "settings", "load", "emit", "release"}
  /\ rconfig \in Configs \cup {NoConfig} /\ restarts \in 0..MaxRestarts
  /\ (restart \in {"load", "emit", "release"} => rconfig \in Configs)
  /\ upload \in BOOLEAN /\ applied \in BOOLEAN /\ overtaken \in BOOLEAN

\* A restart shows nothing ready before it has loaded an engine.
ReadyIsBacked ==
  /\ shown = "ready" => engine # NoEngine /\ restart \in {"idle", "release"}
  /\ restart = "emit" => engine # NoEngine

\* What a restart will show, if no run comes in between.
EffectIsDue ==
  applied /\ ~overtaken =>
    /\ restart = "load" => rconfig = config
    /\ restart = "emit" => engine = Describe(config)
    /\ restart \in {"idle", "release"} /\ shown = "ready" => engine = Describe(config)

\* What a run knows of the engine it was given.
HeardIsKnown ==
  \A r \in Runs : ~replaced[r] =>
    /\ pc[r] = "own" => engine = NoEngine
    /\ pc[r] \in {"hear", "describe"} =>
         \/ using[r] = engine /\ engine # NoEngine
         \/ engine = NoEngine /\ using[r] = Describe(mine[r])
    /\ pc[r] = "store" => told[r] = using[r]

IInv ==
  /\ RunsAreTyped /\ RunsHaveSettings /\ RestIsTyped
  /\ ReadyIsBacked /\ EffectIsDue /\ HeardIsKnown

-----------------------------------------------------------------------------
\* describe_asr_runtime describes what can be loaded as what can run.
LEMMA DescribeTyped ==
  ASSUME SettingsAssumption, cuda \in BOOLEAN, NEW c \in Configs
  PROVE  /\ Describe(c) \in Summaries
         /\ Loadable(c) => Usable(Describe(c))
BY DEF SettingsAssumption, Describe, Device, Compute, Summaries, Loadable, Usable

\* Only a device that is there can change what describe_asr_runtime says.
LEMMA DescribeStays ==
  ASSUME cuda' = cuda, NEW c
  PROVE  Describe(c)' = Describe(c)
BY DEF Describe, Device, Compute

LEMMA UsableStays ==
  ASSUME cuda' = cuda, NEW e
  PROVE  Usable(e)' = Usable(e)
BY DEF Usable

-----------------------------------------------------------------------------
LEMMA InitIInv == ASSUME SettingsAssumption, Init PROVE IInv
<1>0. Describe(config) \in Summaries /\ (Loadable(config) => Usable(Describe(config)))
  BY DescribeTyped DEF Init
<1>1. RestIsTyped
  <2>1. engine \in Summaries \cup {NoEngine} /\ (engine # NoEngine => Usable(engine))
    BY <1>0 DEF Init
  <2>2. 0 \in 0..MaxChanges /\ 0 \in 0..MaxRestarts
    BY DEF SettingsAssumption
  <2> QED
    BY <2>1, <2>2 DEF Init, RestIsTyped
<1>3. ReadyIsBacked
  BY <1>0 DEF SettingsAssumption, Init, ReadyIsBacked
<1>4. EffectIsDue
  BY <1>0 DEF SettingsAssumption, Init, EffectIsDue
<1>2. RunsAreTyped /\ RunsHaveSettings /\ HeardIsKnown
  BY DEF SettingsAssumption, Init, RunsAreTyped, Places, RunsHaveSettings, HeardIsKnown
<1> QED
  BY <1>1, <1>2, <1>3, <1>4 DEF IInv

\* An engine is published, by a restart or by a run: every run that holds another
\* is marked, and what the runs know holds of those that do not move.
LEMMA Publishes ==
  ASSUME IInv, NEW e, SetEngine(e), cuda' = cuda, UNCHANGED <<using, told, mine>>,
         NEW S \in SUBSET Runs,
         \A r \in Runs \ S : pc'[r] = pc[r],
         \A r \in S : pc'[r] \notin {"own", "hear", "describe", "store"}
  PROVE  HeardIsKnown'
<1> SUFFICES ASSUME NEW r \in Runs, ~replaced'[r]
             PROVE  /\ pc'[r] = "own" => engine' = NoEngine
                    /\ pc'[r] \in {"hear", "describe"} =>
                         \/ using'[r] = engine' /\ engine' # NoEngine
                         \/ engine' = NoEngine /\ using'[r] = Describe(mine[r])'
                    /\ pc'[r] = "store" => told'[r] = using'[r]
  BY DEF HeardIsKnown
<1>1. ~replaced[r] /\ (pc[r] \in {"own", "hear", "describe"} => engine' = engine)
  BY DEF SetEngine
<1>2. CASE r \in S
  BY <1>2
<1>3. CASE r \notin S
  BY <1>1, <1>3 DEF IInv, HeardIsKnown, Describe, Device, Compute
<1> QED
  BY <1>2, <1>3

\* What the steps that do not touch the engine leave alone.
LEMMA Untouched ==
  ASSUME IInv, UNCHANGED <<cuda, config, engine, applied, overtaken>>,
         UNCHANGED <<restart, rconfig>>, shown' \in {shown, "unavailable"}
  PROVE  ReadyIsBacked' /\ EffectIsDue'
BY DEF IInv, ReadyIsBacked, EffectIsDue, Describe, Device, Compute

\* A run that moves on alone: the other runs know what they knew.
LEMMA MovesAlone ==
  ASSUME IInv, NEW r \in Runs, cuda' = cuda, engine' = engine,
         \A k \in Runs \ {r} : /\ pc'[k] = pc[k] /\ using'[k] = using[k] /\ told'[k] = told[k]
                               /\ mine'[k] = mine[k] /\ replaced'[k] = replaced[k],
         ~replaced'[r] =>
           /\ pc'[r] = "own" => engine = NoEngine
           /\ pc'[r] \in {"hear", "describe"} =>
                \/ using'[r] = engine /\ engine # NoEngine
                \/ engine = NoEngine /\ using'[r] = Describe(mine[r]) /\ mine'[r] = mine[r]
           /\ pc'[r] = "store" => told'[r] = using'[r]
  PROVE  HeardIsKnown'
<1> SUFFICES ASSUME NEW k \in Runs, ~replaced'[k]
             PROVE  /\ pc'[k] = "own" => engine' = NoEngine
                    /\ pc'[k] \in {"hear", "describe"} =>
                         \/ using'[k] = engine' /\ engine' # NoEngine
                         \/ engine' = NoEngine /\ using'[k] = Describe(mine[k])'
                    /\ pc'[k] = "store" => told'[k] = using'[k]
  BY DEF HeardIsKnown
<1>1. CASE k = r
  BY <1>1 DEF Describe, Device, Compute
<1>2. CASE k # r
  BY <1>2 DEF IInv, HeardIsKnown, Describe, Device, Compute
<1> QED
  BY <1>1, <1>2

-----------------------------------------------------------------------------
(* The user and the restart *)

\* Steps that leave the runs alone.
LEMMA RunsStay ==
  ASSUME IInv, UNCHANGED <<cuda, run>>
  PROVE  /\ replaced' \in [Runs -> BOOLEAN] => RunsAreTyped'
         /\ RunsHaveSettings'
         /\ UNCHANGED <<engine, replaced>> => HeardIsKnown'
BY DEF IInv, RunsAreTyped, RunsHaveSettings, HeardIsKnown, run, Usable, Describe, Device, Compute

LEMMA RestartSteps ==
  ASSUME SettingsAssumption, IInv,
         UpdateConfig \/ RestartBegin \/ RestartStep
  PROVE  IInv'
<1>1. UNCHANGED <<cuda, run>>
  BY DEF UpdateConfig, RestartBegin, RestartStep, RestartUnload, RestartSettings,
         RestartLoad, RestartReady, RestartLoadFails, RestartRelease, run
<1>2. Describe(rconfig)' = Describe(rconfig)' /\ (rconfig \in Configs =>
        /\ Describe(rconfig) \in Summaries /\ Describe(rconfig) # NoEngine
        /\ (Loadable(rconfig) => Usable(Describe(rconfig))))
  BY DescribeTyped DEF IInv, RestIsTyped, SettingsAssumption
<1>3. replaced' \in [Runs -> BOOLEAN]
  BY DEF IInv, RunsAreTyped, UpdateConfig, RestartBegin, RestartStep, RestartUnload, RestartSettings,
         RestartLoad, RestartReady, RestartLoadFails, RestartRelease, SetEngine, history
<1>4. RunsAreTyped' /\ RunsHaveSettings'
  BY <1>1, <1>3, RunsStay
<1>5. HeardIsKnown'
  <2>1. CASE UNCHANGED <<engine, replaced>>
    BY <2>1, <1>1, RunsStay
  <2>2. ASSUME NEW e, SetEngine(e) PROVE HeardIsKnown'
    <3>1. {} \in SUBSET Runs
      OBVIOUS
    <3> QED
      BY <2>2, <3>1, <1>1, Publishes DEF run
  <2> QED
    BY <2>1, <2>2 DEF UpdateConfig, RestartBegin, RestartStep, RestartUnload, RestartSettings,
         RestartLoad, RestartReady, RestartLoadFails, RestartRelease, history
<1>6. RestIsTyped'
  <2>1. CASE UpdateConfig
    <3>1. config' \in Configs /\ changes' \in 0..MaxChanges /\ applied' \in BOOLEAN
      <4>1. MaxChanges \in Nat
        BY DEF SettingsAssumption
      <4>2. changes \in 0..MaxChanges /\ changes < MaxChanges /\ changes' = changes + 1
        BY <2>1 DEF IInv, RestIsTyped, UpdateConfig
      <4>3. changes' \in 0..MaxChanges
        BY <4>1, <4>2
      <4>4. config' \in Configs /\ applied' = FALSE
        BY <2>1 DEF UpdateConfig
      <4> QED
        BY <4>3, <4>4
    <3>2. UNCHANGED <<cuda, engine, shown, restart, rconfig, restarts, upload, overtaken>>
      BY <2>1 DEF UpdateConfig, rest
    <3> QED
      BY <3>1, <3>2 DEF IInv, RestIsTyped, Usable
  <2>5. CASE RestartBegin
    BY <2>5 DEF IInv, RestIsTyped, RestartBegin, SettingsAssumption, Usable, user, history
  <2>2. CASE RestartUnload \/ RestartSettings
    BY <2>2 DEF IInv, RestIsTyped, RestartUnload, RestartSettings, SetEngine, Usable, user
  <2>3. CASE RestartLoad
    <3>1. rconfig \in Configs
      BY <2>3 DEF IInv, RestIsTyped, RestartLoad
    <3>2. engine' \in Summaries /\ Usable(engine')
      BY <1>2, <2>3, <3>1 DEF RestartLoad, SetEngine
    <3>3. Usable(engine)'
      BY <3>2, <1>1 DEF Usable
    <3> QED
      BY <2>3, <3>2, <3>3 DEF IInv, RestIsTyped, RestartLoad, user
  <2>4. CASE RestartReady \/ RestartLoadFails \/ RestartRelease
    BY <2>4 DEF IInv, RestIsTyped, RestartReady, RestartLoadFails, RestartRelease, Usable, user, history
  <2> QED
    BY <2>1, <2>2, <2>3, <2>4, <2>5 DEF RestartStep
<1>7. ReadyIsBacked'
  <2>1. CASE RestartLoad
    BY <2>1, <1>2 DEF IInv, RestIsTyped, ReadyIsBacked, RestartLoad, SetEngine
  <2>2. CASE ~RestartLoad
    BY <2>2 DEF IInv, RestIsTyped, ReadyIsBacked, UpdateConfig, RestartBegin, RestartStep,
         RestartUnload, RestartSettings, RestartReady, RestartLoadFails, RestartRelease,
         SetEngine, user, rest
  <2> QED
    BY <2>1, <2>2
<1>8. EffectIsDue'
  BY <1>1 DEF IInv, EffectIsDue, UpdateConfig, RestartBegin, RestartStep, RestartUnload,
         RestartSettings, RestartLoad, RestartReady, RestartLoadFails, RestartRelease,
         SetEngine, Describe, Device, Compute, user, history
<1> QED
  BY <1>4, <1>5, <1>6, <1>7, <1>8 DEF IInv

-----------------------------------------------------------------------------
(* The runs *)

\* A run that does not touch the engine, nor what it was given.
LEMMA PlainRunSteps ==
  ASSUME SettingsAssumption, IInv, NEW r \in Runs,
         Dispatch(r) \/ ReadAudio(r) \/ Ensure(r) \/ LazyLoadFails(r) \/ Retry(r) \/ Store(r)
  PROVE  IInv'
<1>1. /\ UNCHANGED <<cuda, config, changes, engine, restart, rconfig, restarts>>
      /\ UNCHANGED <<using, told, replaced, applied, overtaken>>
      /\ shown' \in {shown, "unavailable"} /\ upload' \in BOOLEAN
  BY DEF IInv, RestIsTyped, Dispatch, ReadAudio, Ensure, LazyLoadFails, Fails, Retry, Store,
         user, rest, history
<1>2. /\ pc' \in [Runs -> Places] /\ \A k \in Runs \ {r} : pc'[k] = pc[k]
      /\ pc'[r] \notin {"own", "describe", "store"}
      /\ pc'[r] = "hear" => pc[r] = "hear" /\ mine' = mine
  BY DEF IInv, RunsAreTyped, Places, Dispatch, ReadAudio, Ensure, LazyLoadFails, Fails, Go, Retry, Store
<1>3. /\ mine' \in [Runs -> Configs \cup {NoConfig}] /\ \A k \in Runs \ {r} : mine'[k] = mine[k]
      /\ pc'[r] \in {"load", "give", "hear"} => mine'[r] \in Configs
  BY DEF IInv, RunsAreTyped, RunsHaveSettings, RestIsTyped, Dispatch, ReadAudio, Ensure,
         LazyLoadFails, Fails, Go, Retry, Store
<1>4. tries' \in [Runs -> 0..MaxRetries + 1]
  <2>1. MaxRetries \in Nat
    BY DEF SettingsAssumption
  <2> QED
    BY <2>1 DEF IInv, RunsAreTyped, Dispatch, ReadAudio, Ensure, LazyLoadFails, Retry, Store
<1>5. RunsAreTyped'
  BY <1>1, <1>2, <1>3, <1>4 DEF IInv, RunsAreTyped, Usable
<1>6. RunsHaveSettings'
  BY <1>2, <1>3 DEF IInv, RunsHaveSettings
<1>7. RestIsTyped'
  BY <1>1 DEF IInv, RestIsTyped, Usable
<1>8. ReadyIsBacked' /\ EffectIsDue'
  BY <1>1, Untouched
<1>9. HeardIsKnown'
  <2>1. ~replaced'[r] /\ pc'[r] = "hear" =>
          \/ using'[r] = engine /\ engine # NoEngine
          \/ engine = NoEngine /\ using'[r] = Describe(mine[r]) /\ mine'[r] = mine[r]
    BY <1>1, <1>2 DEF IInv, HeardIsKnown
  <2> QED
    BY <1>1, <1>2, <1>3, <2>1, MovesAlone
<1> QED
  BY <1>5, <1>6, <1>7, <1>8, <1>9 DEF IInv

\* A run that finds no engine loads one and publishes it.
LEMMA LazyLoadStep ==
  ASSUME SettingsAssumption, IInv, NEW r \in Runs, LazyLoad(r)
  PROVE  IInv'
<1>1. mine[r] \in Configs
  BY DEF LazyLoad, IInv, RunsHaveSettings
<1>2. /\ Describe(mine[r]) \in Summaries /\ Describe(mine[r]) # NoEngine
      /\ Usable(Describe(mine[r]))
  BY <1>1, DescribeTyped DEF LazyLoad, IInv, RestIsTyped, SettingsAssumption
<1>3. engine' = Describe(mine[r]) /\ cuda' = cuda
  BY DEF LazyLoad, SetEngine
<1>4. /\ pc' \in [Runs -> Places] /\ pc'[r] = "give"
      /\ \A k \in Runs \ {r} : pc'[k] = pc[k]
  BY DEF LazyLoad, Go, IInv, RunsAreTyped, Places
<1>5. UNCHANGED <<mine, using, told, tries>> /\ replaced' \in [Runs -> BOOLEAN]
  BY DEF LazyLoad, SetEngine, IInv, RunsAreTyped
<1>6. RunsAreTyped' /\ RunsHaveSettings'
  BY <1>1, <1>3, <1>4, <1>5 DEF IInv, RunsAreTyped, RunsHaveSettings, Usable
<1>7. RestIsTyped'
  <2>1. Usable(engine)'
    BY <1>2, <1>3 DEF Usable
  <2> QED
    BY <1>2, <1>3, <2>1 DEF LazyLoad, IInv, RestIsTyped, user, rest
<1>8. ReadyIsBacked'
  BY <1>2, <1>3 DEF LazyLoad, IInv, ReadyIsBacked, rest
<1>9. EffectIsDue'
  <2> SUFFICES ASSUME applied', ~overtaken' PROVE EffectIsDue'
    BY DEF EffectIsDue
  <2>1. mine[r] = config /\ restart = "idle" /\ UNCHANGED <<config, restart>>
    BY DEF LazyLoad, user, rest
  <2> QED
    BY <2>1, <1>3 DEF EffectIsDue, Describe, Device, Compute
<1>10. HeardIsKnown'
  <2>1. {r} \in SUBSET Runs
    OBVIOUS
  <2>2. SetEngine(Describe(mine[r]))
    BY DEF LazyLoad
  <2> QED
    BY <2>1, <2>2, <1>3, <1>4, <1>5, Publishes
<1> QED
  BY <1>6, <1>7, <1>8, <1>9, <1>10 DEF IInv

\* A run that is given an engine, makes one of its own, hears with it or
\* describes it, and one that forgets it.
LEMMA EngineRunSteps ==
  ASSUME SettingsAssumption, IInv, NEW r \in Runs,
         Give(r) \/ MakeOwn(r) \/ Hear(r) \/ DescribeCapture(r) \/ Finally(r)
  PROVE  IInv'
<1>1. /\ UNCHANGED <<cuda, config, changes, engine, shown, restart, rconfig, restarts>>
      /\ UNCHANGED <<applied, overtaken>> /\ upload' \in BOOLEAN
  BY DEF IInv, RestIsTyped, Give, MakeOwn, Hear, DescribeCapture, Finally, Fails, user, rest, history
<1>2. /\ pc' \in [Runs -> Places] /\ \A k \in Runs \ {r} : pc'[k] = pc[k]
      /\ pc'[r] \in {"own", "hear", "describe", "store", "finally", "over"}
  BY DEF IInv, RunsAreTyped, Places, Give, MakeOwn, Hear, DescribeCapture, Finally, Fails, Go
<1>3. pc[r] \in {"give", "own", "hear", "describe"} =>
        /\ mine[r] \in Configs /\ Describe(mine[r]) \in Summaries
        /\ (Loadable(mine[r]) => Usable(Describe(mine[r])))
  BY DescribeTyped DEF IInv, RunsHaveSettings, RestIsTyped
<1>4. /\ using' \in [Runs -> Summaries \cup {NoEngine}]
      /\ \A k \in Runs \ {r} : using'[k] = using[k]
      /\ using'[r] # NoEngine => Usable(using'[r])
  BY <1>1, <1>3 DEF IInv, RunsAreTyped, RestIsTyped, Give, MakeOwn, Hear, DescribeCapture, Finally, Forget
<1>5. /\ told' \in [Runs -> Summaries \cup {NoEngine}]
      /\ \A k \in Runs \ {r} : told'[k] = told[k]
  BY <1>1, <1>3 DEF IInv, RunsAreTyped, RestIsTyped, Give, MakeOwn, Hear, DescribeCapture, Finally, Forget
<1>6. /\ mine' \in [Runs -> Configs \cup {NoConfig}] /\ tries' \in [Runs -> 0..MaxRetries + 1]
      /\ replaced' \in [Runs -> BOOLEAN]
      /\ \A k \in Runs \ {r} : mine'[k] = mine[k] /\ replaced'[k] = replaced[k]
      /\ pc'[r] # "over" => mine' = mine
  <2>1. 0 \in 0..MaxRetries + 1
    BY DEF SettingsAssumption
  <2>2. CASE Finally(r)
    <3>1. pc'[r] = "over"
      BY <2>2 DEF IInv, RunsAreTyped, Finally, Go
    <3> QED
      BY <2>1, <2>2, <3>1 DEF IInv, RunsAreTyped, Finally, Forget
  <2>3. CASE Give(r)
    BY <2>3 DEF IInv, RunsAreTyped, Give
  <2>4. CASE MakeOwn(r) \/ Hear(r) \/ DescribeCapture(r)
    BY <2>4 DEF IInv, RunsAreTyped, MakeOwn, Hear, DescribeCapture, history
  <2> QED
    BY <2>2, <2>3, <2>4
<1>7. RunsAreTyped'
  <2>1. \A k \in Runs : using'[k] # NoEngine => Usable(using[k])'
    BY <1>1, <1>4 DEF IInv, RunsAreTyped, Usable
  <2> QED
    BY <1>2, <1>4, <1>5, <1>6, <2>1 DEF RunsAreTyped
<1>8. RunsHaveSettings'
  BY <1>2, <1>3, <1>6 DEF IInv, RunsHaveSettings, Give, MakeOwn, Hear, DescribeCapture, Finally, Fails, Go, RunsAreTyped
<1>9. RestIsTyped'
  BY <1>1 DEF IInv, RestIsTyped, Usable
<1>10. ReadyIsBacked' /\ EffectIsDue'
  BY <1>1, Untouched
<1>11. HeardIsKnown'
  <2>1. ~replaced'[r] =>
           /\ pc'[r] = "own" => engine = NoEngine
           /\ pc'[r] \in {"hear", "describe"} =>
                \/ using'[r] = engine /\ engine # NoEngine
                \/ engine = NoEngine /\ using'[r] = Describe(mine[r]) /\ mine'[r] = mine[r]
           /\ pc'[r] = "store" => told'[r] = using'[r]
    BY DEF IInv, RunsAreTyped, HeardIsKnown, Give, MakeOwn, Hear, DescribeCapture, Finally, Fails, Go, history
  <2> QED
    BY <1>1, <1>2, <1>4, <1>5, <1>6, <2>1, MovesAlone
<1> QED
  BY <1>7, <1>8, <1>9, <1>10, <1>11 DEF IInv

-----------------------------------------------------------------------------
LEMMA AlwaysIInv == ASSUME SettingsAssumption PROVE Spec => []IInv
<1>1. Init => IInv
  BY InitIInv
<1>2. IInv /\ [Next]_vars => IInv'
  <2> SUFFICES ASSUME IInv, [Next]_vars PROVE IInv'
    OBVIOUS
  <2>1. CASE UNCHANGED vars
    <3>1. UNCHANGED <<cuda, run, engine, replaced>> /\ UNCHANGED <<config, changes, shown, restart,
            rconfig, restarts, upload, applied, overtaken>>
      BY <2>1 DEF vars, user, rest, history
    <3>2. RunsAreTyped' /\ RunsHaveSettings' /\ HeardIsKnown'
      BY <3>1, RunsStay DEF IInv, RunsAreTyped
    <3>3. ReadyIsBacked' /\ EffectIsDue'
      BY <3>1, Untouched
    <3>4. RestIsTyped'
      BY <3>1 DEF IInv, RestIsTyped, Usable
    <3> QED
      BY <3>2, <3>3, <3>4 DEF IInv
  <2>2. CASE UpdateConfig \/ RestartBegin \/ RestartStep
    BY <2>2, RestartSteps
  <2>3. ASSUME NEW r \in Runs, Dispatch(r) \/ RunStep(r) PROVE IInv'
    BY <2>3, PlainRunSteps, LazyLoadStep, EngineRunSteps DEF RunStep
  <2> QED
    BY <2>1, <2>2, <2>3 DEF Next
<1> QED
  BY <1>1, <1>2, PTL DEF Spec

\* transcription_service.py:561, describe_transcription_capture: "Return the ASR
\* provider/model plus the exact prompt text sent for this run." A transcript
\* names the engine that heard it unless that was replaced while it listened.
THEOREM ProvenanceAlwaysTrue ==
  ASSUME SettingsAssumption PROVE Spec => []ProvenanceIsTrue
<1>1. IInv => ProvenanceIsTrue
  BY DEF IInv, HeardIsKnown, ProvenanceIsTrue
<1> QED
  BY <1>1, AlwaysIInv, PTL

\* What the interface shows of the engine is so: an engine shown as ready is
\* there, and it is the one the settings ask for.
THEOREM ShownAlwaysTrue ==
  ASSUME SettingsAssumption PROVE Spec => []ShownIsTrue
<1>1. IInv => ShownIsTrue
  <2> SUFFICES ASSUME IInv PROVE ShownIsTrue
    OBVIOUS
  <2>1. TypeOK
    BY DEF IInv, RunsAreTyped, RestIsTyped, TypeOK, Places
  <2>2. ReadyIsServed /\ SettingsTakeEffect
    BY DEF IInv, ReadyIsBacked, EffectIsDue, ReadyIsServed, SettingsTakeEffect
  <2> QED
    BY <2>1, <2>2 DEF ShownIsTrue
<1> QED
  BY <1>1, AlwaysIInv, PTL
================================================================================
