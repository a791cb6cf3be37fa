------------------------------ MODULE DefaultPrompt ------------------------------
(***************************************************************************)
(* The default prompt of refinements: a setting that names a transcript    *)
(* (src/api/config.py), which the handlers that delete transcripts forget  *)
(* when it goes (transcript_handlers.py, src/api/transcripts.py).  The     *)
(* transcripts are in the database and the setting is in a file: a handler *)
(* reads one, changes the other and compares again, and each of these is a *)
(* step, as others run between them.  A saving of the settings that fails  *)
(* is in Settings.                                                         *)
(***************************************************************************)
EXTENDS Naturals, FiniteSets

CONSTANTS
  Transcripts, Protected,
  NoPrompt,        \* None
  MaxHandlers      \* bound on handlers under way

VARIABLES
  root,            \* of each transcript there is: itself, or the root it was appended to
  prompt,          \* settings.refinement.default_prompt_transcript_id
  handlers,        \* under way
  unnoticed        \* history: defaults that went when another id was to be forgotten,
                   \* or were set when they had gone

vars == <<root, prompt, handlers, unnoticed>>

\* Where a handler is: which default it read, and what it is to delete.
Handler ==
  [at : {"look", "delete", "forget", "set"}, prompt : Transcripts \cup {NoPrompt},
   ids : SUBSET Transcripts, all : BOOLEAN]

At(place, t) == [at |-> place, prompt |-> t, ids |-> {}, all |-> FALSE]

Has(t) == t \in DOMAIN root
Existing == DOMAIN root
Members(S) == {t \in Existing : root[t] \in S}

TypeOK ==
  /\ Existing \subseteq Transcripts
  /\ \A t \in Existing : root[t] \in Existing /\ root[root[t]] = root[t]
  /\ prompt \in Transcripts \cup {NoPrompt}
  /\ handlers \subseteq Handler /\ unnoticed \subseteq Transcripts \cup {NoPrompt}

Init ==
  /\ root = [t \in Transcripts |-> t] /\ prompt = NoPrompt
  /\ handlers = {} /\ unnoticed = {}

\* The default t is about to be compared and forgotten.
Forgetting(t) == \E h \in handlers : h.at = "forget" /\ h.prompt = t

Begin(h) == Cardinality(handlers) < MaxHandlers /\ handlers' = handlers \cup {h}
Go(h, k) == handlers' = (handlers \ {h}) \cup {k}
End(h) == handlers' = handlers \ {h}

\* AppendToTranscriptIntent: the source and its members join the root.
AppendToTranscript(t, s) ==
  /\ Has(t) /\ Has(s) /\ root[s] = s /\ root[t] # s
  /\ root' = [u \in Existing |-> IF root[u] = s THEN root[t] ELSE root[u]]
  /\ UNCHANGED <<prompt, handlers, unnoticed>>

-----------------------------------------------------------------------------
(* Deletions *)

\* Roots go with their members; id is the one that will be compared.
DeleteRows(S, id) ==
  LET gone == S \cup Members(S) IN
  /\ root' = [t \in Existing \ gone |-> root[t]]
  /\ unnoticed' = unnoticed \cup ((gone \cap {prompt}) \ {id})

Deletable(t) == Has(t) /\ t \notin Protected /\ root[t] = t

\* Mutant: the settings are not looked at.
DeleteAndForgetNothing(t) ==
  /\ Deletable(t)
  /\ DeleteRows({t}, t)
  /\ UNCHANGED <<prompt, handlers>>

\* DeleteTranscriptIntent and the route: only the id asked for is compared.
DeleteTranscript(t) ==
  /\ Deletable(t)
  /\ DeleteRows({t}, t)
  /\ Begin(At("forget", t))
  /\ UNCHANGED prompt

\* Many at once: the default is read first.
BatchDelete(S) ==
  /\ S # {}
  /\ Begin([at |-> "look", prompt |-> prompt, ids |-> S, all |-> FALSE])
  /\ UNCHANGED <<root, prompt, unnoticed>>

ClearAll ==
  /\ Begin([at |-> "look", prompt |-> prompt, ids |-> Transcripts, all |-> TRUE])
  /\ UNCHANGED <<root, prompt, unnoticed>>

\* A default that is protected, or not among those to delete, is kept.
LookAtPrompt(h) ==
  /\ h \in handlers /\ h.at = "look"
  /\ LET kept == h.prompt \notin h.ids \/ (Has(h.prompt) /\ h.prompt \in Protected)
     IN  Go(h, [h EXCEPT !.at = "delete", !.prompt = IF kept THEN NoPrompt ELSE @])
  /\ UNCHANGED <<root, prompt, unnoticed>>

\* batch_delete_transcripts and clear_all_transcripts.
DeleteMany(h) ==
  LET S == IF h.all THEN Existing \ Protected ELSE {t \in h.ids : Deletable(t)}
  IN
  /\ h \in handlers /\ h.at = "delete"
  /\ DeleteRows(S, h.prompt)
  /\ IF S # {} /\ h.prompt # NoPrompt THEN Go(h, At("forget", h.prompt)) ELSE End(h)
  /\ UNCHANGED prompt

\* _clear_default_prompt_if_deleted, clear_default_refinement_prompt_if_matches:
\* the settings are read again.
Forget(h) ==
  /\ h \in handlers /\ h.at = "forget"
  /\ prompt' = IF prompt = h.prompt THEN NoPrompt ELSE prompt
  /\ End(h)
  /\ UNCHANGED <<root, unnoticed>>

-----------------------------------------------------------------------------
(* The setting *)

\* set_default_refinement_prompt looks for the transcript first.
ChoosePrompt(t) ==
  /\ Has(t)
  /\ Begin(At("set", t))
  /\ UNCHANGED <<root, prompt, unnoticed>>

SetPrompt(h) ==
  /\ h \in handlers /\ h.at = "set"
  /\ prompt' = h.prompt
  /\ unnoticed' = IF Has(h.prompt) THEN unnoticed ELSE unnoticed \cup {h.prompt}
  /\ End(h)
  /\ UNCHANGED root

\* clear_default_refinement_prompt, or the Prompt tag is taken from it.
ClearPrompt ==
  /\ prompt' = NoPrompt
  /\ UNCHANGED <<root, handlers, unnoticed>>

\* The process ends with its handlers and starts again.
Restart ==
  /\ handlers' = {}
  /\ unnoticed' = IF Forgetting(prompt) THEN unnoticed \cup {prompt} ELSE unnoticed
  /\ UNCHANGED <<root, prompt>>

Next ==
  \/ \E t \in Transcripts :
       \/ DeleteTranscript(t) \/ ChoosePrompt(t)
       \/ \E s \in Transcripts : AppendToTranscript(t, s)
  \/ \E S \in SUBSET Transcripts : BatchDelete(S)
  \/ ClearAll \/ ClearPrompt \/ Restart
  \/ \E h \in handlers : LookAtPrompt(h) \/ DeleteMany(h) \/ Forget(h) \/ SetPrompt(h)

Spec == Init /\ [][Next]_vars

-----------------------------------------------------------------------------
(* Properties *)

\* A default prompt that was deleted is forgotten by the handler that deleted it,
\* unless it was not the id that handler compares, was set after it had gone, or
\* the process ended in between.
DefaultIsThere ==
  prompt # NoPrompt => Has(prompt) \/ Forgetting(prompt) \/ prompt \in unnoticed
===============================================================================
