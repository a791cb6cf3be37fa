------------------------------ MODULE InstanceLock ------------------------------
(***************************************************************************)
(* The single-instance lock of src/main.py: a file locked with flock (by   *)
(* the filelock package) and a second file with the owner's process id. A  *)
(* start that finds the lock taken looks at the id, and unlinks both files *)
(* when that process cannot be using them; then it tries once more, on     *)
(* whatever file is there by then. Each file operation is a step; the      *)
(* processes know of each other by the files alone.  quiet remembers who   *)
(* started while nobody else did or was up.                                *)
(***************************************************************************)
EXTENDS Naturals, FiniteSets

CONSTANTS
  Processes,     \* processes started as this application, one after another or at once
  MaxFiles       \* bound on lock files made

\* Contents of the pid file that are no process id of Processes.
NoFile == "no file"
Empty == "empty"         \* between open(..., "w") and the end of the with block
Other == "other"         \* the id of another program, or of nobody

VARIABLES
  path,        \* the lock file at the path, 0 when there is none
  made,        \* lock files made so far
  locked,      \* flock: lock files a living process has locked, by process
  pidFile,
  opened,      \* processes that opened the pid file that is there, to write to it
  seen,        \* old_pid of a process that looks at one
  state,       \* of each process: "off", "running", "stopped" (Ctrl+Z), "dead"
  pc,          \* its place in _acquire_lock, or "up", or in _release_lock
  quiet        \* history: instances that nobody met on their way up, see Quiet

vars == <<path, made, locked, pidFile, opened, seen, state, pc, quiet>>

Ids == {NoFile, Empty, Other} \cup Processes
Places == {"first", "look", "read", "check", "unlink", "unpid", "second", "open", "write",
           "up", "unlock", "remove", "gone"}
\* Where a process has the lock.
Holding == {"open", "write", "up", "unlock"}

TypeOK ==
  /\ path \in 0..MaxFiles /\ made \in 0..MaxFiles /\ path <= made
  /\ locked \in [Processes -> 0..made]
  /\ \A p, q \in Processes : locked[p] = locked[q] /\ locked[p] # 0 => p = q
  /\ pidFile \in Ids /\ opened \subseteq Processes
  /\ seen \in [Processes -> Ids]
  /\ state \in [Processes -> {"off", "running", "stopped", "dead"}]
  /\ pc \in [Processes -> Places]
  /\ \A p \in Processes : locked[p] # 0 <=> pc[p] \in Holding
  /\ quiet \subseteq Processes

\* An earlier instance may have died, and left its files.
Init ==
  /\ made \in {0, 1} /\ path = made
  /\ locked = [p \in Processes |-> 0]
  /\ pidFile \in {NoFile, Other} /\ opened = {}
  /\ seen = [p \in Processes |-> NoFile]
  /\ state = [p \in Processes |-> "off"] /\ pc = [p \in Processes |-> "first"]
  /\ quiet = {}

At(p, place) == state[p] = "running" /\ pc[p] = place
Up(p) == At(p, "up")
Go(p, place) == pc' = [pc EXCEPT ![p] = place]

\* Not started, or done with the lock: at most its pid file is left to remove.
Gone(p) == state[p] = "off" \/ pc[p] \in {"unlock", "remove", "gone"}

\* An instance that leaves removes the id of its successor while a start looks
\* at it.
RemovedUnderReader ==
  pidFile' # pidFile /\ pidFile' = NoFile /\ \E p \in Processes : pc[p] = "read"

\* An instance is quiet from its lock on, unless another one starts before it is
\* up, and until it is stopped (Ctrl+Z), leaves or dies.
Quiet == {p \in Processes :
  /\ state'[p] = "running" /\ pc'[p] \in {"open", "write", "up"}
  /\ p \in quiet \/ pc[p] \notin Holding
  /\ pc'[p] = "up" \/ \A q \in Processes \ {p} : Gone(q)'
  /\ ~RemovedUnderReader}

-----------------------------------------------------------------------------
(* The system: start, Ctrl+Z and its end, death *)

Launch(p) ==
  /\ state[p] = "off"
  /\ state' = [state EXCEPT ![p] = "running"]
  /\ UNCHANGED <<path, made, locked, pidFile, opened, seen, pc>>

Stop(p) ==
  /\ state[p] = "running"
  /\ state' = [state EXCEPT ![p] = "stopped"]
  /\ UNCHANGED <<path, made, locked, pidFile, opened, seen, pc>>

Continue(p) ==
  /\ state[p] = "stopped"
  /\ state' = [state EXCEPT ![p] = "running"]
  /\ UNCHANGED <<path, made, locked, pidFile, opened, seen, pc>>

\* The lock goes with its process, and all the process knew.
Die(p) ==
  /\ state[p] \in {"running", "stopped"}
  /\ state' = [state EXCEPT ![p] = "dead"]
  /\ locked' = [locked EXCEPT ![p] = 0]
  /\ opened' = opened \ {p} /\ seen' = [seen EXCEPT ![p] = NoFile]
  /\ Go(p, "gone")
  /\ UNCHANGED <<path, made, pidFile>>

-----------------------------------------------------------------------------
(* _acquire_lock *)

Free(f) == \A p \in Processes : locked[p] # f

\* FileLock.acquire: open the file at the path, or make one, and lock it.
Lock(p) ==
  \/ /\ path # 0 /\ Free(path)
     /\ locked' = [locked EXCEPT ![p] = path]
     /\ UNCHANGED <<path, made>>
  \/ /\ path = 0 /\ made < MaxFiles
     /\ made' = made + 1 /\ path' = made + 1
     /\ locked' = [locked EXCEPT ![p] = made + 1]

TryFirst(p) ==
  /\ At(p, "first")
  /\ \/ Lock(p) /\ Go(p, "open")
     \/ path # 0 /\ ~Free(path) /\ Go(p, "look") /\ UNCHANGED <<path, made, locked>>
  /\ UNCHANGED <<pidFile, opened, seen, state>>

\* _should_break_lock_for_pid
ShouldBreak(q) == q \in {Other} \cup {r \in Processes : state[r] \in {"dead", "stopped"}}

\* Mutant: a missing pid file counts as stale, too.
LookForAnyPid(p) ==
  /\ At(p, "look")
  /\ IF pidFile = NoFile THEN Go(p, "unlink") ELSE Go(p, "read")
  /\ UNCHANGED <<path, made, locked, pidFile, opened, seen, state>>

\* _cleanup_stale_lock: os.path.exists, open and read, look at the process,
\* then unlink both files.
LookForPid(p) ==
  /\ At(p, "look")
  /\ IF pidFile = NoFile THEN Go(p, "second") ELSE Go(p, "read")
  /\ UNCHANGED <<path, made, locked, pidFile, opened, seen, state>>

\* A file that has gone meanwhile, or holds no id, counts as stale.
ReadPid(p) ==
  /\ At(p, "read")
  /\ seen' = [seen EXCEPT ![p] = pidFile]
  /\ IF pidFile \in {NoFile, Empty} THEN Go(p, "unlink") ELSE Go(p, "check")
  /\ UNCHANGED <<path, made, locked, pidFile, opened, state>>

CheckPid(p) ==
  /\ At(p, "check")
  /\ IF ShouldBreak(seen[p]) THEN Go(p, "unlink") ELSE Go(p, "second")
  /\ seen' = [seen EXCEPT ![p] = NoFile]
  /\ UNCHANGED <<path, made, locked, pidFile, opened, state>>

UnlinkLock(p) ==
  /\ At(p, "unlink")
  /\ path' = 0
  /\ Go(p, "unpid")
  /\ UNCHANGED <<made, locked, pidFile, opened, seen, state>>

UnlinkPid(p) ==
  /\ At(p, "unpid")
  /\ pidFile' = NoFile /\ opened' = {}
  /\ Go(p, "second")
  /\ UNCHANGED <<path, made, locked, seen, state>>

\* Refused: "Vociferous is already running. Only one instance allowed."
TrySecond(p) ==
  /\ At(p, "second")
  /\ \/ Lock(p) /\ Go(p, "open")
     \/ path # 0 /\ ~Free(path) /\ Go(p, "gone") /\ UNCHANGED <<path, made, locked>>
  /\ UNCHANGED <<pidFile, opened, seen, state>>

\* Truncates the file that is there, or makes one.
OpenPid(p) ==
  /\ At(p, "open")
  /\ pidFile' = Empty /\ opened' = opened \cup {p}
  /\ Go(p, "write")
  /\ UNCHANGED <<path, made, locked, seen, state>>

\* Into the file that was opened, which may have been unlinked since; an id
\* over another one of more digits is no process's id.
WritePid(p) ==
  /\ At(p, "write")
  /\ \/ p \in opened /\ pidFile' = p
     \/ p \in opened /\ pidFile # Empty /\ pidFile' = Other
     \/ p \notin opened /\ UNCHANGED pidFile
  /\ opened' = opened \ {p}
  /\ Go(p, "up")
  /\ UNCHANGED <<path, made, locked, seen, state>>

-----------------------------------------------------------------------------
(* _release_lock, at the end of main() *)

Leave(p) ==
  /\ At(p, "up")
  /\ Go(p, "unlock")
  /\ UNCHANGED <<path, made, locked, pidFile, opened, seen, state>>

Unlock(p) ==
  /\ At(p, "unlock")
  /\ locked' = [locked EXCEPT ![p] = 0]
  /\ Go(p, "remove")
  /\ UNCHANGED <<path, made, pidFile, opened, seen, state>>

\* Whoever's id it is by now.
RemovePid(p) ==
  /\ At(p, "remove")
  /\ pidFile' = NoFile /\ opened' = {}
  /\ Go(p, "gone")
  /\ UNCHANGED <<path, made, locked, seen, state>>

Next ==
  /\ \E p \in Processes :
       \/ Launch(p) \/ Stop(p) \/ Continue(p) \/ Die(p)
       \/ TryFirst(p) \/ LookForPid(p) \/ ReadPid(p) \/ CheckPid(p)
       \/ UnlinkLock(p) \/ UnlinkPid(p) \/ TrySecond(p) \/ OpenPid(p) \/ WritePid(p)
       \/ Leave(p) \/ Unlock(p) \/ RemovePid(p)
  /\ quiet' = Quiet

Spec == Init /\ [][Next]_vars

-----------------------------------------------------------------------------
(* Properties *)

\* "Only one instance allowed." (main.py:241)
OnlyOne == \A p, q \in Processes : Up(p) /\ Up(q) => p = q

\* An instance that came up in quiet stays the only one, whatever files earlier
\* ones left, and whatever starts, ends and deaths of others come later.
QuietIsAlone == \A p \in quiet, q \in Processes : Up(q) => q = p
===============================================================================
