------------------------------- MODULE Refinement -------------------------------
(***************************************************************************)
(* What happens to the text of a transcript after it is stored: the        *)
(* derived work of the recording session, single and bulk refinement of    *)
(* src/core/handlers/refinement_handlers.py, the edits, reverts and        *)
(* deletions that meet it, and the clipboard the user waits for.           *)
(*                                                                         *)
(* Intents are handled one after the other on the API's event loop; each   *)
(* refinement runs in a thread of its own, and so does the one bulk        *)
(* refinement. The runtime (see SLMRuntime) is here the lock that one      *)
(* inference holds and whether an engine is loaded.                        *)
(***************************************************************************)
EXTENDS Naturals, FiniteSets

CONSTANTS
  Transcripts,
  Fresh,              \* bound: those that are yet to be transcribed and that
                      \* the user refines and reverts; the others are
                      \* there, and bulk refined or deleted only
  Jobs,               \* refine threads; a name is used again
  Nobody,             \* None where a thread or a transcript may be
  MaxBulks,           \* bound on the bulk refinements asked for
  MaxOutages          \* bound on the times the engine is unloaded

VARIABLES
  text, tag,          \* per transcript: what its text is, the Refined tag
  stage, defer,       \* per transcript: how far its transcription is, and
                      \* the auto_refine its transcription began with
  copied,             \* per transcript: its text was put on the clipboard
  enabled,            \* settings.refinement.enabled
  autoRefine,         \* settings.output.auto_refine
  loaded, outages, holder,
                      \* the engine, and the thread that infers with it
  api,                \* the second method of the handler on the event loop
  jpc, jt,            \* per refine thread: place, transcript
  bulkActive, bulkCancel,         \* _bulk_active, _bulk_cancel
  bpc, bt, bleft, total, completed, failed, bulks,   \* do_bulk
  raced               \* history: transcripts whose last refinement or revert
                      \* came between the two writes of the other

settings == <<enabled, autoRefine>>
engine == <<loaded, outages>>
rows == <<text, tag>>
delivery == <<stage, defer, copied>>
jobs == <<jpc, jt>>
bulk == <<bpc, bt, bleft, total, completed, failed>>
flags == <<bulkActive, bulkCancel, bulks>>

vars == <<rows, delivery, settings, engine, holder, api, jobs, bulk, flags, raced>>

Texts == {"none", "raw", "refined", "anew", "gone"}
Idle == [op |-> "idle", id |-> Nobody]

TypeOK ==
  /\ text \in [Transcripts -> Texts]
  /\ tag \in [Transcripts -> BOOLEAN]
  /\ \A t \in Transcripts : tag[t] => text[t] \notin {"none", "gone"}
  /\ stage \in [Transcripts -> {"new", "transcribing", "told", "done"}]
  /\ holder \in Jobs \cup {"bulk", Nobody}
  /\ \A j \in Jobs : holder = j <=> jpc[j] = "infer"
  /\ holder = "bulk" <=> bpc = "infer"
  /\ bulkActive <=> bpc # "idle"
  /\ bleft \subseteq Transcripts

Init ==
  /\ text = [t \in Transcripts |-> IF t \in Fresh THEN "none" ELSE "raw"]
  /\ tag = [t \in Transcripts |-> FALSE]
  /\ stage = [t \in Transcripts |-> IF t \in Fresh THEN "new" ELSE "done"]
  /\ defer = [t \in Transcripts |-> FALSE]
  /\ copied = [t \in Transcripts |-> t \notin Fresh]
  /\ enabled \in BOOLEAN /\ autoRefine \in BOOLEAN
  /\ loaded = enabled /\ outages = 0 /\ holder = Nobody /\ api = Idle
  /\ jpc = [j \in Jobs |-> "idle"]
  /\ jt = [j \in Jobs |-> Nobody]
  /\ bulkActive = FALSE /\ bulkCancel = FALSE /\ bulks = 0
  /\ bpc = "idle" /\ bt = Nobody /\ bleft = {}
  /\ total = 0 /\ completed = 0 /\ failed = 0
  /\ raced = {}

Free(j) == jpc[j] \in {"idle", "offered"}

Exists(t) == text[t] \notin {"none", "gone"}
Ready == loaded /\ holder = Nobody

-----------------------------------------------------------------------------
(* From the transcription to the clipboard *)

\* _transcribe_and_store reads the settings before it transcribes.
Transcribe(t) ==
  /\ stage[t] = "new"
  /\ stage' = [stage EXCEPT ![t] = "transcribing"]
  /\ defer' = [defer EXCEPT ![t] = autoRefine]
  /\ UNCHANGED <<rows, copied, settings, engine, holder, api, jobs, bulk, flags, raced>>

\* _schedule_derived_work: the clipboard waits for the refinement when
\* auto-refine is on.
Store(t) ==
  /\ stage[t] = "transcribing"
  /\ stage' = [stage EXCEPT ![t] = "told"]
  /\ text' = [text EXCEPT ![t] = "raw"]
  /\ copied' = [copied EXCEPT ![t] = ~defer[t]]
  /\ defer' = [defer EXCEPT ![t] = FALSE]
  /\ UNCHANGED <<tag, settings, engine, holder, api, jobs, bulk, flags, raced>>

\* _fallback_raw_clipboard.
FallBack(t) ==
  copied' = [copied EXCEPT ![t] = @ \/ (autoRefine /\ Exists(t))]

\* Mutant: a refinement that is refused leaves the clipboard alone.
RefuseSilently(t) == UNCHANGED copied

\* Why handle_refine turns a request away.
Refuse(t) == FallBack(t)

\* handle_refine: the thread refines the text it was started with.
HandleRefine(t) ==
  IF ~Ready \/ bulkActive
  THEN Refuse(t) /\ UNCHANGED jobs
  ELSE /\ UNCHANGED copied
       /\ IF ~Exists(t) THEN UNCHANGED jobs
          ELSE \E j \in Jobs :
                 /\ Free(j)
                 /\ jpc' = [jpc EXCEPT ![j] = "wait"]
                 /\ jt' = [jt EXCEPT ![j] = t]

\* The view is told of a new transcript and refines it if both settings say so.
AutoRefine(t) ==
  /\ api.op = "idle"
  /\ stage[t] = "told"
  /\ stage' = [stage EXCEPT ![t] = "done"]
  /\ IF autoRefine /\ enabled THEN HandleRefine(t)
     ELSE UNCHANGED <<copied, jobs>>
  /\ UNCHANGED <<rows, defer, settings, engine, holder, api, bulk, flags, raced>>

\* The user asks for it.
Refine(t) ==
  /\ api.op = "idle" /\ stage[t] = "done"
  /\ \E j \in Jobs : Free(j)
  /\ HandleRefine(t)
  /\ UNCHANGED <<rows, stage, defer, settings, engine, holder, api, bulk, flags, raced>>

\* refine_text_sync: acquire the lock, or time out, or find no engine.
JobAcquire(j) ==
  /\ jpc[j] = "wait" /\ Ready
  /\ holder' = j
  /\ jpc' = [jpc EXCEPT ![j] = "infer"]
  /\ UNCHANGED <<rows, delivery, settings, engine, api, jt, bulk, flags, raced>>

JobEnds(j, pc) ==
  /\ jpc' = [jpc EXCEPT ![j] = pc]
  /\ jt' = [jt EXCEPT ![j] = IF pc = "offered" THEN @ ELSE Nobody]
  /\ UNCHANGED <<rows, stage, defer, settings, engine, api, bulk, flags, raced>>

JobTimesOut(j) ==
  /\ jpc[j] = "wait" /\ ~Ready
  /\ FallBack(jt[j])
  /\ JobEnds(j, "idle") /\ UNCHANGED holder

JobFails(j) ==
  /\ jpc[j] = "infer"
  /\ holder' = Nobody
  /\ FallBack(jt[j])
  /\ JobEnds(j, "idle")

\* refinement_complete, and the clipboard if auto-refine is (still) on.
JobSucceeds(j) ==
  /\ jpc[j] = "infer"
  /\ holder' = Nobody
  /\ copied' = [copied EXCEPT ![jt[j]] = @ \/ autoRefine]
  /\ JobEnds(j, "offered")

\* An engine restart takes the lock to unload; the new engine is loaded later.
EngineGoes ==
  /\ holder = Nobody /\ loaded /\ outages < MaxOutages
  /\ loaded' = FALSE /\ outages' = outages + 1
  /\ UNCHANGED <<rows, delivery, settings, holder, api, jobs, bulk, flags, raced>>

EngineComes ==
  /\ enabled /\ ~loaded
  /\ loaded' = TRUE /\ UNCHANGED outages
  /\ UNCHANGED <<rows, delivery, settings, holder, api, jobs, bulk, flags, raced>>

-----------------------------------------------------------------------------
(* Writes of the event loop. A handler that makes two is between them in api *)

ApiWrite(t, new, then) ==
  /\ api.op = "idle" /\ Exists(t)
  /\ text' = [text EXCEPT ![t] = new]
  /\ api' = [op |-> then, id |-> t]
  /\ UNCHANGED <<tag, delivery, settings, engine, holder, bulk, flags>>

RevertToRaw(t) ==
  /\ ApiWrite(t, "raw", "untag") /\ UNCHANGED jobs
  /\ raced' = IF bpc = "tag" /\ bt = t THEN raced \cup {t} ELSE raced \ {t}

\* handle_commit_refinement of a refinement that was offered.
CommitRefinement(j) ==
  /\ jpc[j] = "offered"
  /\ ApiWrite(jt[j], "refined", "tag")
  /\ jpc' = [jpc EXCEPT ![j] = "idle"]
  /\ jt' = [jt EXCEPT ![j] = Nobody]
  /\ raced' = raced \ {jt[j]}

\* add_ and remove_system_tag; adding to a row that is gone raises.
ApiTag ==
  /\ api.op \in {"tag", "untag"}
  /\ tag' = IF Exists(api.id) THEN [tag EXCEPT ![api.id] = api.op = "tag"] ELSE tag
  /\ api' = Idle
  /\ UNCHANGED <<text, delivery, settings, engine, holder, jobs, bulk, flags, raced>>

\* The thread of handle_retranscribe, as far as the row: the text is another,
\* the tag is what it was.
Retranscribe(t) ==
  /\ Exists(t)
  /\ text' = [text EXCEPT ![t] = "anew"]
  /\ UNCHANGED <<tag, delivery, settings, engine, holder, api, jobs, bulk, flags, raced>>

\* Deletion runs in a worker of the API, beside the event loop.
Delete(t) ==
  /\ Exists(t)
  /\ text' = [text EXCEPT ![t] = "gone"]
  /\ tag' = [tag EXCEPT ![t] = FALSE]
  /\ raced' = raced \ {t}
  /\ UNCHANGED <<delivery, settings, engine, holder, api, jobs, bulk, flags>>

-----------------------------------------------------------------------------
(* Bulk refinement *)

\* handle_bulk_refine.
BulkRefine(S, skipRefined) ==
  LET ids == IF skipRefined THEN {t \in S : ~tag[t]} ELSE S IN
  /\ api.op = "idle" /\ bulks < MaxBulks
  /\ Ready /\ ~bulkActive /\ ids # {}
  /\ bulkActive' = TRUE /\ bulkCancel' = FALSE /\ bulks' = bulks + 1
  /\ bpc' = "next" /\ bt' = Nobody /\ bleft' = ids
  /\ total' = Cardinality(ids) /\ completed' = 0 /\ failed' = 0
  /\ UNCHANGED <<rows, delivery, settings, engine, holder, api, jobs, raced>>

CancelBulk ==
  /\ api.op = "idle" /\ bulkActive /\ ~bulkCancel
  /\ bulkCancel' = TRUE
  /\ UNCHANGED <<rows, delivery, settings, engine, holder, api, jobs, bulk,
                 bulkActive, bulks, raced>>

BulkGoes(pc) ==
  /\ bpc' = pc
  /\ UNCHANGED <<delivery, settings, engine, api, jobs, flags, total>>

\* The next transcript, unless cancelled; one that is gone counts as failed.
BulkNext ==
  /\ bpc = "next" /\ ~bulkCancel
  /\ \E t \in bleft :
       /\ bleft' = bleft \ {t}
       /\ bt' = t
       /\ IF Exists(t) THEN BulkGoes("wait") /\ UNCHANGED failed
          ELSE BulkGoes("next") /\ failed' = failed + 1
  /\ UNCHANGED <<rows, holder, completed, raced>>

BulkAcquire ==
  /\ bpc = "wait" /\ Ready
  /\ holder' = "bulk"
  /\ BulkGoes("infer")
  /\ UNCHANGED <<rows, bt, bleft, completed, failed, raced>>

BulkInfers ==
  /\ bpc = "infer"
  /\ holder' = Nobody
  /\ BulkGoes("text")
  /\ UNCHANGED <<rows, bt, bleft, completed, failed, raced>>

\* The lock's time limit, no engine, or an error of the inference.
BulkGivesUp ==
  /\ \/ bpc = "wait" /\ ~Ready
     \/ bpc = "infer"
  /\ holder' = IF holder = "bulk" THEN Nobody ELSE holder
  /\ failed' = failed + 1
  /\ BulkGoes("next")
  /\ UNCHANGED <<rows, bt, bleft, completed, raced>>

\* _persist_refinement, first the text.
BulkText ==
  /\ bpc = "text"
  /\ text' = IF Exists(bt) THEN [text EXCEPT ![bt] = "refined"] ELSE text
  /\ raced' = IF api = [op |-> "untag", id |-> bt] THEN raced \cup {bt} ELSE raced \ {bt}
  /\ BulkGoes("tag")
  /\ UNCHANGED <<tag, holder, bt, bleft, completed, failed>>

\* Mutant: the Refined tag is forgotten.
BulkTagsNothing ==
  /\ bpc = "tag" /\ Exists(bt)
  /\ completed' = completed + 1
  /\ BulkGoes("next")
  /\ UNCHANGED <<rows, holder, bt, bleft, failed, raced>>

BulkTag ==
  /\ bpc = "tag" /\ Exists(bt)
  /\ tag' = [tag EXCEPT ![bt] = TRUE]
  /\ completed' = completed + 1
  /\ BulkGoes("next")
  /\ UNCHANGED <<text, holder, bt, bleft, failed, raced>>

\* Mutant: no finally around the loop.
BulkCrashesForGood ==
  /\ bpc = "tag" /\ ~Exists(bt)
  /\ BulkGoes("stuck")
  /\ UNCHANGED <<rows, holder, bt, bleft, completed, failed, raced>>

\* A transcript deleted under the loop raises out of it.
BulkCrashes ==
  /\ bpc = "tag" /\ ~Exists(bt)
  /\ BulkGoes("final")
  /\ UNCHANGED <<rows, holder, bt, bleft, completed, failed, raced>>

BulkComplete ==
  /\ bpc = "next" /\ (bulkCancel \/ bleft = {})
  /\ BulkGoes("final")
  /\ bt' = Nobody
  /\ UNCHANGED <<rows, holder, bleft, completed, failed, raced>>

BulkFinally ==
  /\ bpc = "final"
  /\ bulkActive' = FALSE /\ bpc' = "idle"
  /\ bt' = Nobody /\ bleft' = {} /\ total' = 0 /\ completed' = 0 /\ failed' = 0
  /\ UNCHANGED <<rows, delivery, settings, engine, holder, api, jobs,
                 bulkCancel, bulks, raced>>

BulkStep ==
  \/ BulkNext \/ BulkAcquire \/ BulkInfers \/ BulkGivesUp \/ BulkText
  \/ BulkTag \/ BulkCrashes \/ BulkComplete \/ BulkFinally

JobStep(j) == JobAcquire(j) \/ JobTimesOut(j) \/ JobFails(j) \/ JobSucceeds(j)

UserStep ==
  \/ \E t \in Fresh : Transcribe(t) \/ Refine(t) \/ RevertToRaw(t) \/ Retranscribe(t)
  \/ \E t \in Transcripts : Delete(t)
  \/ \E j \in Jobs : CommitRefinement(j)
  \/ \E S \in SUBSET Transcripts, skip \in BOOLEAN : BulkRefine(S, skip)
  \/ CancelBulk \/ EngineGoes \/ EngineComes

Next ==
  \/ UserStep \/ ApiTag \/ BulkStep
  \/ \E t \in Transcripts : Store(t) \/ AutoRefine(t)
  \/ \E j \in Jobs : JobStep(j)

Spec == Init /\ [][Next]_vars

\* Threads and handlers proceed, inference returns or raises, and the view
\* hears of a new transcript; the event loop serves requests in turn, so what
\* the view asks for is not overtaken for ever.
Fairness ==
  /\ WF_vars(ApiTag) /\ WF_vars(BulkStep)
  /\ \A t \in Transcripts : WF_vars(Store(t)) /\ SF_vars(AutoRefine(t))
  /\ \A j \in Jobs : WF_vars(JobStep(j))

FairSpec == Spec /\ Fairness

-----------------------------------------------------------------------------
(* Properties *)

\* Every transcript of a bulk refinement is in hand, still to come, or counted
\* once, as completed or as failed, whatever is deleted under it.
BulkAddsUp ==
  bulkActive =>
    total = completed + failed + Cardinality(bleft)
              + (IF bt # Nobody /\ bpc # "next" THEN 1 ELSE 0)

Writing(t) == api.id = t \/ (bt = t /\ bpc = "tag")

\* The Refined tag agrees with the text: refined text carries it, and text that
\* was only reverted does not. (A revert between the two writes of a bulk
\* refinement of the same transcript breaks it; what is transcribed again has
\* the tag it had.)
RefinedTagAgrees ==
  \A t \in Transcripts : ~Writing(t) /\ t \notin raced =>
    /\ text[t] = "refined" => tag[t]
    /\ text[t] = "raw" => ~tag[t]

\* A bulk refinement ends, and another one may begin.
BulkEnds == bulkActive ~> ~bulkActive

\* What was transcribed reaches the clipboard, refined or raw, whatever turns
\* the refinement away, unless it is deleted. (With auto-refine on and refinement
\* switched off nobody copies: TextNeverVanishes.)
TextReachesClipboard ==
  \A t \in Transcripts :
    (stage[t] = "told") ~> (copied[t] \/ text[t] = "gone" \/ (autoRefine /\ ~enabled))

\* Not so: "If we can't refine, we MUST still copy the raw text -- otherwise the
\* user's text silently vanishes into the void" (_fallback_raw_clipboard). With
\* refinement switched off the view asks for none, and no one falls back.
TextNeverVanishes ==
  \A t \in Transcripts : (stage[t] = "told") ~> (copied[t] \/ text[t] = "gone")
===============================================================================
