----------------------------- MODULE InsightManager -----------------------------
(***************************************************************************)
(* The analytics insight of src/core/insight_manager.py: a cached text     *)
(* about the transcripts, a dirty mark, and one background generation at a *)
(* time. Whoever changes the transcripts marks the cache dirty (or clears  *)
(* it) and asks for a generation in further steps, on a thread of its own; *)
(* the runtime asks too whenever it becomes ready. _lock makes each method *)
(* a step; the generation reads statistics, infers and saves in steps.     *)
(*                                                                         *)
(* The transcripts are a version, and whether there are enough of them     *)
(* (three). An insight is the version whose statistics it describes.       *)
(***************************************************************************)
EXTENDS Naturals, FiniteSets

CONSTANTS
  Generators,    \* generation threads; a name is used again
  MaxVersion,    \* bound on changes of the transcripts
  NoText         \* an empty cache

VARIABLES
  version, enough,   \* the transcripts now
  insight, dirty,       \* _cache: what it describes; the dirty mark
  aged,              \* whether _FRESHNESS_MIN_INTERVAL_S has passed since
  generating,        \* _generating
  ready,             \* whether the runtime exists and is READY
  gpc, seen,         \* each generation: place, and the statistics it read
  marks, clears, asks  \* callers about to mark, to clear, to schedule

cache == <<insight, dirty, aged>>
vars == <<version, enough, cache, generating, ready, gpc, seen, marks, clears, asks>>

Versions == 0..MaxVersion

TypeOK ==
  /\ version \in Versions /\ enough \in BOOLEAN
  /\ insight \in Versions \cup {NoText}
  /\ dirty \in BOOLEAN /\ aged \in BOOLEAN /\ ready \in BOOLEAN
  /\ gpc \in [Generators -> {"none", "stats", "clear", "infer", "save", "end"}]
  /\ seen \in [Generators -> Versions]
  /\ marks \in BOOLEAN /\ clears \in BOOLEAN /\ asks \in BOOLEAN

Init ==
  /\ version = 0 /\ enough \in BOOLEAN
  /\ insight = NoText /\ dirty = FALSE /\ aged = FALSE
  /\ generating = FALSE /\ ready = FALSE
  /\ gpc = [g \in Generators |-> "none"] /\ seen = [g \in Generators |-> 0]
  /\ marks = FALSE /\ clears = FALSE /\ asks = FALSE

-----------------------------------------------------------------------------
(* Changes of the transcripts, and who tells the manager *)

\* An edit, a commit, a deletion, an append: then mark_dirty.
Change ==
  /\ version < MaxVersion
  /\ version' = version + 1 /\ enough' \in BOOLEAN
  /\ marks' = TRUE
  /\ UNCHANGED <<cache, generating, ready, gpc, seen, clears, asks>>

\* A transcription: it asks at once, without a mark, or with auto-refine it
\* marks without asking.
Transcribed ==
  /\ version < MaxVersion
  /\ version' = version + 1 /\ enough' \in {enough, TRUE}
  /\ \/ asks' = TRUE /\ UNCHANGED dirty
     \/ dirty' = TRUE /\ UNCHANGED asks
  /\ UNCHANGED <<insight, aged, generating, ready, gpc, seen, marks, clears>>

\* handle_clear_all_transcripts: then clear_cache.
ClearAll ==
  /\ version < MaxVersion
  /\ version' = version + 1 /\ enough' = FALSE
  /\ clears' = TRUE
  /\ UNCHANGED <<cache, generating, ready, gpc, seen, marks, asks>>

MarkDirty ==
  /\ marks
  /\ dirty' = TRUE
  /\ marks' = FALSE /\ asks' = TRUE
  /\ UNCHANGED <<version, enough, insight, aged, generating, ready, gpc, seen, clears>>

EmptyCache == insight' = NoText /\ dirty' = FALSE /\ aged' = FALSE

ClearCache ==
  /\ clears
  /\ EmptyCache
  /\ clears' = FALSE
  /\ UNCHANGED <<version, enough, generating, ready, gpc, seen, marks, asks>>

\* The runtime becomes ready and its callback asks; or it stops being ready,
\* for another request or for good.
RuntimeReady ==
  /\ ~ready
  /\ ready' = TRUE /\ asks' = TRUE
  /\ UNCHANGED <<version, enough, cache, generating, gpc, seen, marks, clears>>

RuntimeBusy ==
  /\ ready
  /\ ready' = FALSE
  /\ UNCHANGED <<version, enough, cache, generating, gpc, seen, marks, clears, asks>>

TimePasses ==
  /\ ~aged /\ insight # NoText
  /\ aged' = TRUE
  /\ UNCHANGED <<version, enough, insight, dirty, generating, ready, gpc, seen,
                 marks, clears, asks>>

-----------------------------------------------------------------------------
(* maybe_schedule *)

\* _should_regenerate; a threshold may have been crossed by any change.
MayRegenerate == insight = NoText \/ dirty \/ insight # version
MustRegenerate == insight = NoText \/ dirty \/ (insight # version /\ aged)

\* Under the lock, then the thread.
Start(g) ==
  /\ gpc[g] = "none"
  /\ gpc' = [gpc EXCEPT ![g] = "stats"]
  /\ generating' = TRUE

MaybeSchedule ==
  /\ asks /\ asks' = FALSE
  /\ CASE generating \/ ~ready -> UNCHANGED <<cache, generating, gpc>>
       [] ~generating /\ ready /\ ~enough ->
            /\ IF insight # NoText THEN EmptyCache ELSE UNCHANGED cache
            /\ UNCHANGED <<generating, gpc>>
       [] OTHER ->
            /\ \/ MayRegenerate /\ \E g \in Generators : Start(g)
               \/ ~MustRegenerate /\ UNCHANGED <<generating, gpc>>
            /\ UNCHANGED cache
  /\ UNCHANGED <<version, enough, ready, seen, marks, clears>>

-----------------------------------------------------------------------------
(* _generate_task *)

Go(g, pc) == gpc' = [gpc EXCEPT ![g] = pc]

\* Statistics first, then the runtime's state.
ReadStats(g) ==
  /\ gpc[g] = "stats"
  /\ seen' = [seen EXCEPT ![g] = version]
  /\ Go(g, IF ~enough THEN "clear" ELSE IF ready THEN "infer" ELSE "end")
  /\ UNCHANGED <<version, enough, cache, generating, ready, marks, clears, asks>>

NotEnough(g) ==
  /\ gpc[g] = "clear"
  /\ EmptyCache
  /\ Go(g, "end")
  /\ UNCHANGED <<version, enough, generating, ready, seen, marks, clears, asks>>

\* generate_custom_sync returns; its callback asks while the flag is still set.
Infer(g) ==
  /\ gpc[g] = "infer"
  /\ Go(g, "save")
  /\ asks' = TRUE
  /\ UNCHANGED <<version, enough, cache, generating, ready, seen, marks, clears>>

\* Nothing, an error, a leaked prompt, or no structure.
InferInVain(g) ==
  /\ gpc[g] = "infer"
  /\ Go(g, "end")
  /\ UNCHANGED <<version, enough, cache, generating, ready, seen, marks, clears, asks>>

\* _save_cache drops the mark, whoever set it since the statistics were read.
Save(g) ==
  /\ gpc[g] = "save"
  /\ insight' = seen[g] /\ dirty' = FALSE /\ aged' = FALSE
  /\ seen' = [seen EXCEPT ![g] = 0]
  /\ Go(g, "end")
  /\ UNCHANGED <<version, enough, generating, ready, marks, clears, asks>>

\* Mutant: the flag stays when a generation ends without one.
FinallyKeeps(g) ==
  /\ gpc[g] = "end"
  /\ generating' = (insight = NoText)
  /\ Go(g, "none")
  /\ UNCHANGED <<version, enough, cache, ready, seen, marks, clears, asks>>

Finally(g) ==
  /\ gpc[g] = "end"
  /\ generating' = FALSE
  /\ Go(g, "none")
  /\ UNCHANGED <<version, enough, cache, ready, seen, marks, clears, asks>>

GeneratorStep(g) ==
  ReadStats(g) \/ NotEnough(g) \/ Infer(g) \/ InferInVain(g) \/ Save(g) \/ Finally(g)

Next ==
  \/ Change \/ Transcribed \/ ClearAll
  \/ MarkDirty \/ ClearCache \/ MaybeSchedule
  \/ RuntimeReady \/ RuntimeBusy \/ TimePasses
  \/ \E g \in Generators : GeneratorStep(g)

Spec == Init /\ [][Next]_vars

\* Callers and generations proceed. For the insight to catch up, the user must go
\* on using the runtime, so that it becomes ready again and again, and an
\* inference must succeed now and then.
Fairness ==
  /\ WF_vars(MarkDirty) /\ WF_vars(ClearCache) /\ SF_vars(MaybeSchedule /\ ready)
  /\ WF_vars(RuntimeReady) /\ WF_vars(TimePasses) /\ WF_vars(RuntimeBusy)
  /\ \A g \in Generators :
       /\ WF_vars(GeneratorStep(g))
       /\ SF_vars(ReadStats(g) /\ ready) /\ SF_vars(Infer(g))

FairSpec == Spec /\ Fairness

-----------------------------------------------------------------------------
(* Properties *)

\* "No generation is already in flight": at most one at a time.
OneGeneration ==
  \A g, h \in Generators : gpc[g] # "none" /\ gpc[h] # "none" => g = h

\* An insight marked dirty or overtaken while it was generated is not shown for
\* ever: it describes the transcripts in the end, and is gone if there are too
\* few of them.
InsightCatchesUp ==
  <>[](IF enough THEN insight = version ELSE insight = NoText)
===============================================================================
