---------------------------------- MODULE MCLive ----------------------------------
(***************************************************************************)
(* The components that share no state and promise that something happens,  *)
(* side by side: part says which of them a behaviour is of, and the others *)
(* stay as they began. Each is what its own module says; only the names of *)
(* variables that two of them have are changed.                            *)
(***************************************************************************)
EXTENDS AudioVault, FiniteSets

CONSTANTS
  \* Refinement
  Transcripts, Fresh, Jobs, Nobody, MaxBulks, MaxOutages,
  \* InsightManager
  Generators, MaxVersion, NoText,
  \* Migrations
  Rows, Filed, Recordings, None, MaxDeaths,
  \* Hotkeys
  Keyboards, Modifiers, Plain, MaxQueue, MaxPlugs, MaxRequests, NoEvent,
  \* Completion and Lifecycle
  Words, Visible, Ceilings, Limits, Needs, MaxRetries, MaxSignals

\* A thread or a transcript is told apart from none.
ASSUME TranscriptsAssumption ==
  /\ IsFiniteSet(Transcripts) /\ Fresh \subseteq Transcripts
  /\ Nobody \notin Transcripts \cup Jobs \cup {"bulk"} /\ "bulk" \notin Jobs

VARIABLES
  part,
  text, tag, stage, defer, copied, enabled, autoRefine, loaded, outages, holder, api,
  jpc, jt, bulkActive, bulkCancel, bpc, bt, bleft, total, completed, failed, bulks, raced,
  version, enough, insight, dirty, aged, generating, ready, gpc, seen, marks, clears, asks,
  db, phase, step, deaths, torn, user,
  held, queue, plugged, devices, paths, backend, mode, keys, pressed, capture, update,
  event, recording, missed, fresh, plugs, requests,
  kind, schema, thinks, ceiling, limit, need, call, refining, first, budget, growths,
  attempt, outcome,
  main, at, lock, started, ending, server, window, thread, stop, database, watchdog,
  signals, early, nested

vaultVars == <<pending, nextChunk, frameCursor, wpc, closing, chunks, tail, synced, rows,
  frameCount, lastDurable, status, reader, pos, crashes, heard, promised, faults,
  failedAt, misread>>
refineVars == <<text, tag, stage, defer, copied, enabled, autoRefine, loaded,
  outages, holder, api, jpc, jt, bulkActive, bulkCancel, bpc, bt, bleft, total, completed, failed,
  bulks, raced>>
insightVars == <<version, enough, insight, dirty, aged, generating, ready, gpc, seen,
  marks, clears, asks>>
databaseVars == <<db, phase, step, deaths, torn, user>>
hotkeyVars == <<held, queue, plugged, devices, paths, backend, mode, keys, pressed,
  capture, update, event, recording, missed, fresh, plugs, requests>>
callVars == <<kind, schema, thinks, ceiling, limit, need, call, refining, first, budget,
  growths, attempt, outcome>>
processVars == <<main, at, lock, started, ending, server, window, thread, stop, database,
  watchdog, signals, early, nested>>
liveVars == <<part, vaultVars, refineVars, insightVars, databaseVars, hotkeyVars,
  callVars, processVars>>

Refine == INSTANCE Refinement
Insight == INSTANCE InsightManager
Database == INSTANCE Migrations
              WITH at <- step, crashes <- deaths, MaxCrashes <- MaxDeaths
Hotkey == INSTANCE Hotkeys
            WITH Chords <- {{Modifiers \cup Plain}, {{k} : k \in Modifiers \cup Plain}}
Call == INSTANCE Completion
Process == INSTANCE Lifecycle WITH event <- ending, recording <- thread

TagNames == {"project", "Refined", "Compound", "Prompt"}
Links == (Filed \X {"project"}) \cup (Database!Prompts \X {"Prompt"})

\* A table that does not exist is told apart from one that does.
ASSUME TablesAssumption ==
  /\ Filed \subseteq Rows /\ Rows \cap Database!Prompts = {}
  /\ Recordings \cap Rows = {} /\ \A S \in SUBSET Recordings : S # None
  /\ \A S \in SUBSET Database!Entries : S # None
  /\ \A S \in SUBSET Links : S # None
  /\ None \notin [Database!Entries -> Nat] /\ None \notin [TagNames -> Nat]

\* Changes, budgets, limits and words are counted.
ASSUME VersionsAssumption == MaxVersion \in Nat

ASSUME BudgetsAssumption ==
  /\ Words \subseteq Nat /\ Visible \subseteq Nat /\ Ceilings \subseteq Nat
  /\ Limits \subseteq Nat /\ Needs \subseteq Nat /\ MaxRetries \in Nat

Parts == {"vault", "refine", "insight", "database", "hotkey", "call", "process"}

\* A component that the behaviour is not of has one beginning.
LiveInit ==
  /\ part \in Parts
  /\ Init
  /\ Refine!Init /\ (part = "refine" \/ (enabled /\ autoRefine))
  /\ Insight!Init /\ (part = "insight" \/ enough)
  /\ Database!Init /\ (part = "database" \/ db = Database!NewFile)
  /\ Hotkey!Init
  /\ part = "hotkey" \/ (/\ plugged = {} /\ backend = "none" /\ mode = "press_to_toggle"
                         /\ keys = {Modifiers \cup Plain})
  /\ Call!Init
  /\ part = "call" \/ (/\ kind = "groq" /\ ceiling = 0
                       /\ \A l \in Limits : limit <= l
                       /\ \A n \in Needs : need <= n)
  /\ Process!Init

LiveNext ==
  \/ /\ part = "vault" /\ Next
     /\ UNCHANGED <<part, refineVars, insightVars, databaseVars, hotkeyVars,
                    callVars, processVars>>
  \/ /\ part = "refine" /\ Refine!Next
     /\ UNCHANGED <<part, vaultVars, insightVars, databaseVars, hotkeyVars,
                    callVars, processVars>>
  \/ /\ part = "insight" /\ Insight!Next
     /\ UNCHANGED <<part, vaultVars, refineVars, databaseVars, hotkeyVars,
                    callVars, processVars>>
  \/ /\ part = "database" /\ Database!Next
     /\ UNCHANGED <<part, vaultVars, refineVars, insightVars, hotkeyVars,
                    callVars, processVars>>
  \/ /\ part = "hotkey" /\ Hotkey!Next
     /\ UNCHANGED <<part, vaultVars, refineVars, insightVars, databaseVars,
                    callVars, processVars>>
  \/ /\ part = "call" /\ Call!Next
     /\ UNCHANGED <<part, vaultVars, refineVars, insightVars, databaseVars,
                    hotkeyVars, processVars>>
  \/ /\ part = "process" /\ Process!Next
     /\ UNCHANGED <<part, vaultVars, refineVars, insightVars, databaseVars,
                    hotkeyVars, callVars>>

\* The fairness of the vault is that of its module. The fairness of another
\* component is for the behaviours that are of it, so it stands before the
\* properties it is for.
LiveSpec ==
  LiveInit /\ [][LiveNext]_liveVars
    /\ WF_vars(ReadChunk) /\ WF_vars(RepairEnd) /\ WF_vars(Restart)

-----------------------------------------------------------------------------
(* Properties: those of the components, stated and explained in their      *)
(* modules, each with the types of its component's state.                  *)

\* The Refined tag agrees with the text, and a bulk refinement counts each
\* transcript once.
RefinementAgrees == Refine!TypeOK /\ Refine!RefinedTagAgrees /\ Refine!BulkAddsUp

\* A bulk refinement ends, and another one may begin.
BulkEnds == part = "refine" /\ Refine!Fairness => Refine!BulkEnds

\* What was transcribed reaches the clipboard, refined or raw.
TextReachesClipboard ==
  part = "refine" /\ Refine!Fairness => Refine!TextReachesClipboard

\* Insights are generated one at a time, and the insight describes the
\* transcripts in the end.
InsightCatchesUp ==
  /\ [](Insight!TypeOK /\ Insight!OneGeneration)
  /\ (part = "insight" /\ Insight!Fairness) => Insight!InsightCatchesUp

\* A database that opens has been migrated, whatever it began as and wherever
\* the process died.
UpgradeIsWhole ==
  /\ Database!TypeOK
  /\ Database!SchemaIsCurrent /\ Database!UserDataMigrates
  /\ Database!SearchFindsAllOnce /\ Database!SeededOnce

\* However often the process dies, some start opens the database.
OpensInTheEnd == part = "database" /\ Database!Fairness => Database!OpensInTheEnd

\* A keyboard that is plugged in again is listened to.
PluggedIsHeard == part = "hotkey" /\ Hotkey!Fairness => Hotkey!PluggedIsHeard

\* A call of a model spends a bounded budget, and leaves an answer cut off only
\* for a reason that no larger budget could mend.
SpendsWithReason == [](Call!TypeOK /\ Call!SpendIsBounded) /\ Call!CutOffForAReason

\* And it ends, although the loop over budgets both grows and halves them.
CallsStayInBudget ==
  SpendsWithReason /\ (part = "call" /\ Call!Fairness => Call!CallsEnd)

\* A process whose window is gone, or that gets a signal, ends.
EndsWhenAsked ==
  /\ []Process!TypeOK
  /\ (part = "process" /\ Process!Fairness) => Process!EndsWhenAsked
===============================================================================
