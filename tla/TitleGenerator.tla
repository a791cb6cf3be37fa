----------------------------- MODULE TitleGenerator -----------------------------
(***************************************************************************)
(* Automatic titles: src/core/title_generator.py, its callers in the       *)
(* recording, refinement and title handlers, and the names they write.     *)
(* schedule() is one step under its lock; the thread it starts goes        *)
(* through generate_custom_sync (see SLMRuntime) and writes the name when  *)
(* the answer is there, which may be a minute later.                       *)
(*                                                                         *)
(* A transcript's text is a version, a title is the version it was made    *)
(* from, and a name may also be the user's.                                *)
(***************************************************************************)
EXTENDS Naturals, FiniteSets

CONSTANTS
  Transcripts,   \* transcript ids
  Threads,       \* title-gen threads; a name is used again
  MaxText,       \* bound on versions of a text
  Callers,       \* bound on callers between their read and schedule()
  Nothing        \* no transcript

VARIABLES
  text, name,    \* each row: the version of its text, 0 before it is there; its name
  slm,           \* whether the runtime exists
  pending,       \* _pending
  asked,         \* callers that have read a text and will call schedule
  task           \* each thread: place, transcript, the text it was given

vars == <<text, name, slm, pending, asked, task>>

Requests == Transcripts \X (1..MaxText)
Unnamed == 0
User == MaxText + 1        \* a name the user gave
Deleted == MaxText + 1     \* the text of a row that is gone; ids are not reused
Live(t) == text[t] \in 1..MaxText
Idle == [pc |-> "none", of |-> Nothing, text |-> 0]

TypeOK ==
  /\ text \in [Transcripts -> 0..Deleted] /\ name \in [Transcripts -> Unnamed..User]
  /\ slm \in BOOLEAN /\ pending \subseteq Transcripts /\ asked \subseteq Requests
  /\ \A h \in Threads :
       \/ task[h] = Idle
       \/ /\ task[h].pc \in {"fetch", "infer", "write", "end"}
          /\ task[h].of \in pending /\ task[h].text \in 1..MaxText
  /\ \A t \in Transcripts : ~Live(t) => name[t] = Unnamed

Init ==
  /\ text = [t \in Transcripts |-> 0] /\ name = [t \in Transcripts |-> Unnamed]
  /\ slm \in BOOLEAN /\ pending = {} /\ asked = {}
  /\ task = [h \in Threads |-> Idle]

-----------------------------------------------------------------------------
(* The callers *)

\* A transcription, a committed refinement, an item of a bulk refinement: the
\* row gets a text, and a title of it is asked for.
Write(t) ==
  /\ text[t] < MaxText /\ Cardinality(asked) < Callers
  /\ text' = [text EXCEPT ![t] = @ + 1]
  /\ asked' = asked \cup {<<t, text[t] + 1>>}
  /\ UNCHANGED <<name, slm, pending, task>>

\* handle_retitle reads the text of the row.
Retitle(t) ==
  /\ Live(t) /\ Cardinality(asked) < Callers
  /\ asked' = asked \cup {<<t, text[t]>>}
  /\ UNCHANGED <<text, name, slm, pending, task>>

Rename(t) ==
  /\ Live(t)
  /\ name' = [name EXCEPT ![t] = User]
  /\ UNCHANGED <<text, slm, pending, asked, task>>

Delete(t) ==
  /\ Live(t)
  /\ text' = [text EXCEPT ![t] = Deleted] /\ name' = [name EXCEPT ![t] = Unnamed]
  /\ UNCHANGED <<slm, pending, asked, task>>

\* An engine restart takes the runtime away, and brings one.
RuntimeComesOrGoes ==
  /\ slm' = ~slm
  /\ UNCHANGED <<text, name, pending, asked, task>>

-----------------------------------------------------------------------------
(* TitleGenerator *)

Start(h, t, v) ==
  /\ task[h] = Idle
  /\ task' = [task EXCEPT ![h] = [pc |-> "fetch", of |-> t, text |-> v]]

\* Mutant: the transcript is never entered in pending.
ScheduleUnentered(t, v) ==
  /\ <<t, v>> \in asked /\ asked' = asked \ {<<t, v>>}
  /\ IF t \in pending \/ ~slm
       THEN UNCHANGED <<pending, task>>
       ELSE /\ \E h \in Threads : Start(h, t, v)
            /\ UNCHANGED pending
  /\ UNCHANGED <<text, name, slm>>

\* A text below MIN_TEXT_CHARS is not titled.
ScheduleShort(t, v) ==
  /\ <<t, v>> \in asked /\ asked' = asked \ {<<t, v>>}
  /\ UNCHANGED <<text, name, slm, pending, task>>

Schedule(t, v) ==
  /\ <<t, v>> \in asked /\ asked' = asked \ {<<t, v>>}
  /\ IF t \in pending \/ ~slm
       THEN UNCHANGED <<pending, task>>
       ELSE /\ \E h \in Threads : Start(h, t, v)
            /\ pending' = pending \cup {t}
  /\ UNCHANGED <<text, name, slm>>

Go(h, pc) == task' = [task EXCEPT ![h].pc = pc]

Fetch(h) ==
  /\ task[h].pc = "fetch"
  /\ Go(h, IF slm THEN "infer" ELSE "end")
  /\ UNCHANGED <<text, name, slm, pending, asked>>

\* A title, or an empty or invalid one, or an exception.
Infer(h) ==
  /\ task[h].pc = "infer"
  /\ Go(h, "write") \/ Go(h, "end")
  /\ UNCHANGED <<text, name, slm, pending, asked>>

\* update_display_name, whatever the name is by now; no row, no update.
Save(h) ==
  /\ task[h].pc = "write"
  /\ name' = IF Live(task[h].of) THEN [name EXCEPT ![task[h].of] = task[h].text] ELSE name
  /\ Go(h, "end")
  /\ UNCHANGED <<text, slm, pending, asked>>

\* The finally clause.
Finish(h) ==
  /\ task[h].pc = "end"
  /\ pending' = pending \ {task[h].of}
  /\ task' = [task EXCEPT ![h] = Idle]
  /\ UNCHANGED <<text, name, slm, asked>>

TaskStep(h) == Fetch(h) \/ Infer(h) \/ Save(h) \/ Finish(h)

Next ==
  \/ \E t \in Transcripts : Write(t) \/ Retitle(t) \/ Rename(t) \/ Delete(t)
  \/ RuntimeComesOrGoes
  \/ \E t \in Transcripts, v \in 1..MaxText : Schedule(t, v) \/ ScheduleShort(t, v)
  \/ \E h \in Threads : TaskStep(h)

Spec == Init /\ [][Next]_vars

-----------------------------------------------------------------------------
(* Properties *)

\* "No title generation is already in flight for this transcript": two threads
\* never title the same transcript, whoever asks at the same time.
OneTitlePerTranscript ==
  \A h, k \in Threads : task[h] # Idle /\ task[h].of = task[k].of => h = k
===============================================================================
