---------------------------- MODULE EventFanout ----------------------------
(***************************************************************************)
(* How an event reaches the windows: EventBus.emit calls the handlers on   *)
(* the emitting thread, the bridge's handler is broadcast_threadsafe, which *)
(* takes a snapshot of the connections under a lock and schedules a task on *)
(* the API's event loop, and the task writes to one socket after another.   *)
(*                                                                         *)
(* The loop starts tasks in the order they were scheduled and runs one at   *)
(* a time; a task that has written to a socket whose buffer is full waits   *)
(* until it drains, and others run.  A socket (its browser side) may close  *)
(* at any time, and the server notices later.                               *)
(***************************************************************************)
EXTENDS Naturals, Sequences, SequencesExt

CONSTANTS
    Sockets,    \* web socket connections: a window that reconnects has a new one
    Emitters,   \* threads that emit events
    MaxEvents,  \* bound: events of one thread
    None

VARIABLES
    open,         \* sockets whose window is there
    connections,  \* ConnectionManager._connections
    past,         \* sockets that were connected once
    full,         \* sockets whose buffer is full
    emitted,      \* emitter -> events it has emitted
    snapshot,     \* emitter -> the connections it took, or None between calls
    tasks,        \* scheduled broadcasts, oldest first
    running,      \* the index of the task the loop runs, or 0
    sent,         \* socket -> events written to it
    since,        \* socket -> what had been emitted when it connected
    crowded       \* an event was scheduled for two sockets at once

fvars == <<open, connections, past, full, emitted, snapshot, tasks, running, sent, since, crowded>>

Events == Emitters \X (1..MaxEvents)
Task == [event : Events, todo : SUBSET Sockets, dead : SUBSET Sockets,
         at : Sockets \cup {"new", "ready", None}]

TypeOK ==
    /\ open \subseteq past /\ connections \subseteq past /\ full \subseteq open
    /\ emitted \in [Emitters -> 0..MaxEvents]
    /\ snapshot \in [Emitters -> (SUBSET Sockets) \cup {None}]
    /\ running \in 0..Len(tasks)
    /\ running # 0 => tasks[running].at = "ready"
    /\ \A i \in 1..Len(tasks) : tasks[i] \in Task /\ (tasks[i].at = "ready" => i = running)

Init ==
    /\ open = {} /\ connections = {} /\ past = {} /\ full = {}
    /\ emitted = [e \in Emitters |-> 0] /\ snapshot = [e \in Emitters |-> None]
    /\ tasks = <<>> /\ running = 0
    /\ sent = [s \in Sockets |-> <<>>]
    /\ since = [s \in Sockets |-> emitted] /\ crowded = FALSE

-----------------------------------------------------------------------------
(* The windows                                                             *)

\* ws_handler accepts and registers.
Connect(s) ==
    /\ s \notin past
    /\ open' = open \cup {s} /\ past' = past \cup {s}
    /\ connections' = connections \cup {s}
    /\ since' = [since EXCEPT ![s] = emitted]
    /\ UNCHANGED <<full, emitted, snapshot, tasks, running, sent, crowded>>

Close(s) ==
    /\ s \in open
    /\ open' = open \ {s} /\ full' = full \ {s}
    /\ UNCHANGED <<connections, past, emitted, snapshot, tasks, running, sent, since, crowded>>

\* The receive loop ends and its finally unregisters.
Unregister(s) ==
    /\ s \in connections \ open
    /\ connections' = connections \ {s}
    /\ UNCHANGED <<open, past, full, emitted, snapshot, tasks, running, sent, since, crowded>>

Drain(s) ==
    /\ s \in full
    /\ full' = full \ {s}
    /\ UNCHANGED <<open, connections, past, emitted, snapshot, tasks, running, sent, since, crowded>>

-----------------------------------------------------------------------------
(* emit and broadcast_threadsafe, on the emitting thread                   *)

\* Without a window the event goes nowhere.
Emit(e) ==
    /\ snapshot[e] = None /\ emitted[e] < MaxEvents
    /\ emitted' = [emitted EXCEPT ![e] = @ + 1]
    /\ snapshot' = [snapshot EXCEPT ![e] = IF connections = {} THEN None ELSE connections]
    /\ UNCHANGED <<open, connections, past, full, tasks, running, sent, since, crowded>>

Schedule(e) ==
    /\ snapshot[e] # None
    /\ tasks' = Append(tasks, [event |-> <<e, emitted[e]>>, todo |-> snapshot[e], dead |-> {},
                               at |-> "new"])
    /\ crowded' = (crowded \/ \E s, r \in snapshot[e] : s # r)
    /\ snapshot' = [snapshot EXCEPT ![e] = None]
    /\ UNCHANGED <<open, connections, past, full, emitted, running, sent, since>>

-----------------------------------------------------------------------------
(* _do_broadcast, on the loop                                              *)

\* New tasks start in order; a waiting one goes on when its socket has room
\* or is gone, first come first served.
MayRun(i) ==
    \/ tasks[i].at = "new" /\ \A j \in 1..(i - 1) : tasks[j].at # "new"
    \/ /\ tasks[i].at \in Sockets \ full
       /\ \A j \in 1..(i - 1) : tasks[j].at # tasks[i].at

Resume(i) ==
    /\ running = 0 /\ i \in 1..Len(tasks) /\ MayRun(i)
    /\ running' = i
    /\ tasks' = [tasks EXCEPT ![i].at = "ready"]
    /\ UNCHANGED <<open, connections, past, full, emitted, snapshot, sent, since, crowded>>

\* Mutant: a broadcast ends at its first dead client.
WriteStopsAtDead(i) ==
    /\ running = i /\ i > 0
    /\ \E s \in tasks[i].todo :
         IF s \notin open
         THEN /\ tasks' = [tasks EXCEPT ![i].todo = {}, ![i].dead = @ \cup {s}]
              /\ UNCHANGED <<sent, full, running>>
         ELSE /\ sent' = [sent EXCEPT ![s] = Append(@, tasks[i].event)]
              /\ full' \in {full, full \cup {s}}
              /\ running' = IF s \in full' THEN 0 ELSE i
              /\ tasks' = [tasks EXCEPT ![i].todo = @ \ {s},
                                        ![i].at = IF s \in full' THEN s ELSE "ready"]
    /\ UNCHANGED <<open, connections, past, emitted, snapshot, since, crowded>>

\* The task goes through the sockets in the order of a set's iteration.
\* send_data: a closed socket raises and is noted as dead; a full one takes
\* the event and makes the task wait.
Write(i) ==
    /\ running = i /\ i > 0
    /\ \E s \in tasks[i].todo :
         IF s \notin open
         THEN /\ tasks' = [tasks EXCEPT ![i].todo = @ \ {s}, ![i].dead = @ \cup {s}]
              /\ UNCHANGED <<sent, full, running>>
         ELSE /\ sent' = [sent EXCEPT ![s] = Append(@, tasks[i].event)]
              /\ full' \in {full, full \cup {s}}
              /\ running' = IF s \in full' THEN 0 ELSE i
              /\ tasks' = [tasks EXCEPT ![i].todo = @ \ {s},
                                        ![i].at = IF s \in full' THEN s ELSE "ready"]
    /\ UNCHANGED <<open, connections, past, emitted, snapshot, since, crowded>>

End(i) ==
    /\ running = i /\ i > 0 /\ tasks[i].todo = {}
    /\ connections' = connections \ tasks[i].dead
    /\ tasks' = RemoveAt(tasks, i) /\ running' = 0
    /\ UNCHANGED <<open, past, full, emitted, snapshot, sent, since, crowded>>

Loop == \E i \in 1..Len(tasks) : Resume(i) \/ Write(i) \/ End(i)

Next ==
    \/ \E s \in Sockets : Connect(s) \/ Close(s) \/ Unregister(s) \/ Drain(s)
    \/ \E e \in Emitters : Emit(e) \/ Schedule(e)
    \/ Loop

Spec == Init /\ [][Next]_fvars

-----------------------------------------------------------------------------
(* A window never gets an event twice, and as long as there is one window  *)
(* at a time it gets the events of a thread in the order they were emitted. *)
(* With two windows a full buffer of one lets a later event overtake.       *)
InOrder ==
    \A s \in Sockets : \A i, j \in 1..Len(sent[s]) :
        i < j /\ sent[s][i][1] = sent[s][j][1] =>
            /\ sent[s][i] # sent[s][j]
            /\ ~crowded => sent[s][i][2] < sent[s][j][2]

(* A window misses nothing that is emitted while it is there, however full *)
(* or dead the other windows are: once the loop is idle it has been sent   *)
(* every event since it connected.                                         *)
NothingIsMissed ==
    tasks = <<>> /\ (\A e \in Emitters : snapshot[e] = None) =>
        \A s \in open, e \in Emitters : \A n \in since[s][e] + 1 .. emitted[e] :
            Contains(sent[s], <<e, n>>)
=============================================================================
