-------------------------- MODULE TitleGenerator_proofs --------------------------
(***************************************************************************)
(* At most one thread titles a transcript, for any number of transcripts,  *)
(* threads, versions and callers.                                          *)
(*                                                                         *)
(* OneTitlePerTranscript is not inductive: schedule() looks at _pending,   *)
(* not at the threads. TaskIsPending says that _pending knows every one of *)
(* them, whatever a thread is at.                                          *)
(***************************************************************************)
EXTENDS TitleGenerator, TLAPS

Busy == [pc : {"fetch", "infer", "write", "end"}, of : Transcripts, text : 1..MaxText]

TasksAreTyped == task \in [Threads -> {Idle} \cup Busy]

TaskIsPending == \A h \in Threads : task[h] # Idle => task[h].of \in pending

IInv == TasksAreTyped /\ TaskIsPending /\ OneTitlePerTranscript

\* A thread that moves on has the transcript it had.
LEMMA MovesOn ==
  ASSUME IInv, Nothing \notin Transcripts, NEW h \in Threads, NEW pc \in {"fetch", "infer", "write", "end"},
         task[h] # Idle, Go(h, pc), UNCHANGED pending
  PROVE  IInv'
<1>1. task[h] \in Busy
  BY DEF IInv, TasksAreTyped
<1>2. TasksAreTyped'
  BY <1>1 DEF IInv, TasksAreTyped, Busy, Go
<1>3. task'[h] # Idle /\ task'[h].of = task[h].of
  BY <1>1 DEF IInv, TasksAreTyped, Busy, Go, Idle
<1>4. \A k \in Threads \ {h} : task'[k] = task[k]
  BY DEF IInv, TasksAreTyped, Go
<1>5. TaskIsPending'
  BY <1>3, <1>4 DEF IInv, TaskIsPending
<1>6. OneTitlePerTranscript'
  BY <1>3, <1>4 DEF IInv, OneTitlePerTranscript
<1> QED
  BY <1>2, <1>5, <1>6 DEF IInv

\* A thread that starts does so on a transcript nobody is titling.
LEMMA Starts ==
  ASSUME IInv, Nothing \notin Transcripts, NEW h \in Threads,
         NEW t \in Transcripts, NEW v \in 1..MaxText,
         t \notin pending, Start(h, t, v), pending' = pending \cup {t}
  PROVE  IInv'
<1>1. task'[h] = [pc |-> "fetch", of |-> t, text |-> v] /\ task[h] = Idle
  BY DEF IInv, TasksAreTyped, Start
<1>2. \A k \in Threads \ {h} : task'[k] = task[k]
  BY DEF IInv, TasksAreTyped, Start
<1>3. TasksAreTyped'
  BY DEF IInv, TasksAreTyped, Busy, Start
<1>4. TaskIsPending'
  BY <1>1, <1>2 DEF IInv, TaskIsPending
<1>5. \A k \in Threads \ {h} : task[k].of # t
  <2> TAKE k \in Threads \ {h}
  <2>1. CASE task[k] = Idle
    BY <2>1 DEF Idle
  <2>2. CASE task[k] # Idle
    BY <2>2 DEF IInv, TaskIsPending
  <2> QED
    BY <2>1, <2>2
<1>6. OneTitlePerTranscript'
  BY <1>1, <1>2, <1>5 DEF IInv, OneTitlePerTranscript
<1> QED
  BY <1>3, <1>4, <1>6 DEF IInv

\* A thread that ends takes with it the entry of its transcript, which is the
\* entry of nobody else.
LEMMA Ends ==
  ASSUME IInv, Nothing \notin Transcripts, NEW h \in Threads, Finish(h)
  PROVE  IInv'
<1>1. task[h] \in Busy /\ task'[h] = Idle
  BY DEF IInv, TasksAreTyped, Finish, Idle
<1>2. \A k \in Threads \ {h} : task'[k] = task[k]
  BY DEF IInv, TasksAreTyped, Finish
<1>3. TasksAreTyped'
  BY DEF IInv, TasksAreTyped, Finish
<1>4. ASSUME NEW k \in Threads, task'[k] # Idle
      PROVE  task'[k].of \in pending'
  <2>1. k # h /\ task'[k] = task[k]
    BY <1>1, <1>2, <1>4
  <2>2. task[k].of # task[h].of
    BY <2>1, <1>4 DEF IInv, OneTitlePerTranscript
  <2> QED
    BY <2>1, <2>2, <1>4 DEF IInv, TaskIsPending, Finish
<1>5. OneTitlePerTranscript'
  <2> SUFFICES ASSUME NEW k \in Threads, NEW j \in Threads,
                      task'[k] # Idle, task'[k].of = task'[j].of
               PROVE  k = j
    BY DEF OneTitlePerTranscript
  <2>1. k # h /\ task'[k] = task[k] /\ task[k] \in Busy
    BY <1>1, <1>2 DEF IInv, TasksAreTyped
  <2>2. CASE j = h
    BY <2>1, <2>2, <1>1 DEF Busy, Idle
  <2>3. CASE j # h
    BY <2>1, <2>3, <1>2 DEF IInv, OneTitlePerTranscript
  <2> QED
    BY <2>2, <2>3
<1> QED
  BY <1>3, <1>4, <1>5 DEF IInv, TaskIsPending

\* The invariant holds in every state.
LEMMA AlwaysIInv ==
  ASSUME Nothing \notin Transcripts
  PROVE  Spec => []IInv
<1>1. Init => IInv
  BY DEF Init, IInv, TasksAreTyped, TaskIsPending, OneTitlePerTranscript
<1>2. IInv /\ [Next]_vars => IInv'
  <2> SUFFICES ASSUME IInv, [Next]_vars PROVE IInv'
    OBVIOUS
  <2>1. CASE UNCHANGED <<pending, task>>
    BY <2>1 DEF IInv, TasksAreTyped, TaskIsPending, OneTitlePerTranscript
  <2>2. ASSUME NEW t \in Transcripts, Write(t) \/ Retitle(t) \/ Rename(t) \/ Delete(t)
        PROVE  UNCHANGED <<pending, task>>
    BY <2>2 DEF Write, Retitle, Rename, Delete
  <2>3. ASSUME NEW t \in Transcripts, NEW v \in 1..MaxText, Schedule(t, v)
        PROVE  IInv'
    <3>1. CASE t \in pending \/ ~slm
      BY <2>3, <2>1, <3>1 DEF Schedule
    <3>2. CASE ~(t \in pending \/ ~slm)
      BY <2>3, <3>2, Starts DEF Schedule
    <3> QED
      BY <3>1, <3>2
  <2>4. ASSUME NEW h \in Threads, Fetch(h) PROVE IInv'
    BY <2>4, MovesOn DEF Fetch, Idle
  <2>5. ASSUME NEW h \in Threads, Infer(h) PROVE IInv'
    BY <2>5, MovesOn DEF Infer, Idle
  <2>6. ASSUME NEW h \in Threads, Save(h) PROVE IInv'
    BY <2>6, MovesOn DEF Save, Idle
  <2> QED
    BY <2>1, <2>2, <2>3, <2>4, <2>5, <2>6, Ends
       DEF Next, TaskStep, RuntimeComesOrGoes, ScheduleShort, vars
<1> QED
  BY <1>1, <1>2, PTL DEF Spec

\* title_generator.py:93, of when schedule() starts a thread: "No title
\* generation is already in flight for this transcript." It holds of the
\* threads, not only of the set schedule() looks at.
THEOREM OneTitleAlways ==
  ASSUME Nothing \notin Transcripts
  PROVE  Spec => []OneTitlePerTranscript
<1>1. IInv => OneTitlePerTranscript
  BY DEF IInv
<1> QED
  BY <1>1, AlwaysIInv, PTL

\* The rest of the state has its types: only a row that is there has a name.
RestIsTyped ==
  /\ text \in [Transcripts -> 0..Deleted] /\ name \in [Transcripts -> Unnamed..User]
  /\ slm \in BOOLEAN /\ pending \subseteq Transcripts /\ asked \subseteq Requests
  /\ \A t \in Transcripts : ~Live(t) => name[t] = Unnamed

\* Every variable keeps its type: among the rest, a thread at work is on a
\* transcript that is entered, and only a row that is there has a name.
THEOREM TypeCorrect ==
  ASSUME Nothing \notin Transcripts, MaxText \in Nat
  PROVE  Spec => []TypeOK
<1>1. Init => RestIsTyped
  BY DEF Init, RestIsTyped, Unnamed, User, Deleted, Live
<1>2. RestIsTyped /\ IInv /\ [Next]_vars => RestIsTyped'
  <2> SUFFICES ASSUME RestIsTyped, IInv, [Next]_vars PROVE RestIsTyped'
    OBVIOUS
  <2>1. CASE UNCHANGED vars
    BY <2>1 DEF RestIsTyped, vars, Live
  <2>2. ASSUME NEW t \in Transcripts, Write(t) PROVE RestIsTyped'
    BY <2>2 DEF RestIsTyped, Write, Live, Requests, Deleted
  <2>3. ASSUME NEW t \in Transcripts, Retitle(t) \/ Rename(t) PROVE RestIsTyped'
    BY <2>3 DEF RestIsTyped, Retitle, Rename, Live, Requests, Unnamed, User
  <2>4. ASSUME NEW t \in Transcripts, Delete(t) PROVE RestIsTyped'
    BY <2>4 DEF RestIsTyped, Delete, Live, Unnamed, User, Deleted
  <2>5. CASE RuntimeComesOrGoes
    BY <2>5 DEF RestIsTyped, RuntimeComesOrGoes, Live
  <2>6. ASSUME NEW t \in Transcripts, NEW v \in 1..MaxText, Schedule(t, v) \/ ScheduleShort(t, v)
        PROVE  RestIsTyped'
    BY <2>6 DEF RestIsTyped, Schedule, ScheduleShort, Live
  <2>7. ASSUME NEW h \in Threads, Fetch(h) \/ Infer(h) \/ Finish(h) PROVE RestIsTyped'
    BY <2>7 DEF RestIsTyped, Fetch, Infer, Finish, Live
  <2>8. ASSUME NEW h \in Threads, Save(h) PROVE RestIsTyped'
    <3>1. task[h] \in Busy
      BY <2>8 DEF Save, IInv, TasksAreTyped, Idle
    <3>2. task[h].text \in Unnamed..User
      BY <3>1 DEF Busy, Unnamed, User
    <3> QED
      BY <2>8, <3>2 DEF RestIsTyped, Save, Live
  <2> QED
    BY <2>1, <2>2, <2>3, <2>4, <2>5, <2>6, <2>7, <2>8 DEF Next, TaskStep
<1>3. RestIsTyped /\ IInv => TypeOK
  <2> SUFFICES ASSUME IInv, NEW h \in Threads, task[h] # Idle
               PROVE  /\ task[h].pc \in {"fetch", "infer", "write", "end"}
                      /\ task[h].of \in pending /\ task[h].text \in 1..MaxText
    BY DEF RestIsTyped, TypeOK
  <2>1. task[h] \in Busy
    BY DEF IInv, TasksAreTyped
  <2> QED
    BY <2>1 DEF Busy, IInv, TaskIsPending
<1> QED
  BY <1>1, <1>2, <1>3, AlwaysIInv, PTL DEF Spec
================================================================================
