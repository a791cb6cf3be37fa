--------------------------- MODULE SLMRuntime_proofs ---------------------------
(***************************************************************************)
(* Proofs about SLMRuntime for any number of runtimes and threads: a lock    *)
(* that is held where the engine is used, and an engine behind every "ready" *)
(* that somebody can still read or write.                                   *)
(***************************************************************************)
EXTENDS SLMRuntime, TLAPS

\* Whoever is past the lock and has not released it holds it.
PastTheLock(c) ==
  cpc[c] \in {"check", "infer", "leave"} \/ (c \in Generators /\ cpc[c] = "mark")

LockIsHeld == \A c \in Clients : PastTheLock(c) => holder[mine[c]] = c

\* A runtime that does not exist yet is known to nobody.
CurrentIsBorn ==
  /\ restart \in {"unload", "disable", "drop", "enable", "start"} =>
       current \in Runtimes
  /\ current \in Runtimes => state[current] # "unborn"

UnbornIsUnknown ==
  \A r \in Runtimes : state[r] = "unborn" =>
    loader[r] = "none" /\ \A c \in Clients : mine[c] # r

\* "Ready", where it is the state, is about to be published, or is remembered
\* by a thread, has an engine, until a restart takes the engine away.
ReadyIsBacked ==
  \A r \in Runtimes : r = current /\ restart \notin {"disable", "drop"} =>
    /\ state[r] = "Ready" => engine[r]
    /\ loader[r] = "publish" => engine[r]
    /\ \A c \in Clients : mine[c] = r /\ prev[c] = "Ready" => engine[r]

NothingRemembered ==
  \A c \in Clients : cpc[c] \in {"idle", "fetch"} => prev[c] = "Disabled"

IInv ==
  /\ TypeOK
  /\ LockIsHeld
  /\ InferenceHasEngine
  /\ CurrentIsBorn
  /\ UnbornIsUnknown
  /\ ReadyIsBacked
  /\ NothingRemembered

-----------------------------------------------------------------------------
\* Initially, when the first runtime has just been enabled, the invariant holds.
LEMMA InitIInv == ASSUME RuntimeAssumption, Init PROVE IInv
BY DEF RuntimeAssumption, Init, IInv, TypeOK, LockIsHeld, PastTheLock,
       InferenceHasEngine, CurrentIsBorn, UnbornIsUnknown, ReadyIsBacked,
       NothingRemembered, States, Clients

\* Every step of a request, of a loader or of a restart keeps the invariant.
LEMMA NextIInv ==
  ASSUME RuntimeAssumption, IInv, [Next]_vars
  PROVE  IInv'
<1> USE DEF Step, Write, clientVars, IInv
<1>1. ASSUME NEW c \in Clients, RequestRefine(c) PROVE IInv'
  <2>1. TypeOK'
    BY <1>1, RuntimeAssumption DEF RuntimeAssumption, RequestRefine, TypeOK, Clients, States
  <2>2. LockIsHeld'
    BY <1>1, RuntimeAssumption DEF RuntimeAssumption, RequestRefine, TypeOK, LockIsHeld, PastTheLock, Clients
  <2>3. InferenceHasEngine'
    BY <1>1, RuntimeAssumption DEF RuntimeAssumption, RequestRefine, TypeOK, InferenceHasEngine, LockIsHeld, PastTheLock, Clients
  <2>4. CurrentIsBorn'
    BY <1>1, RuntimeAssumption DEF RuntimeAssumption, RequestRefine, TypeOK, CurrentIsBorn, States, Clients
  <2>5. UnbornIsUnknown'
    BY <1>1, RuntimeAssumption DEF RuntimeAssumption, RequestRefine, TypeOK, CurrentIsBorn, UnbornIsUnknown, States, Clients
  <2>6. ReadyIsBacked'
    BY <1>1, RuntimeAssumption DEF RuntimeAssumption, RequestRefine, TypeOK, CurrentIsBorn, UnbornIsUnknown, ReadyIsBacked, NothingRemembered, Clients
  <2>7. NothingRemembered'
    BY <1>1, RuntimeAssumption DEF RuntimeAssumption, RequestRefine, TypeOK, NothingRemembered, Clients
  <2> QED BY <2>1, <2>2, <2>3, <2>4, <2>5, <2>6, <2>7
<1>2. ASSUME NEW c \in Clients, RequestCustom(c) PROVE IInv'
  <2>1. TypeOK'
    BY <1>2, RuntimeAssumption DEF RuntimeAssumption, RequestCustom, TypeOK, Clients, States
  <2>2. LockIsHeld'
    BY <1>2, RuntimeAssumption DEF RuntimeAssumption, RequestCustom, TypeOK, LockIsHeld, PastTheLock, Clients
  <2>3. InferenceHasEngine'
    BY <1>2, RuntimeAssumption DEF RuntimeAssumption, RequestCustom, TypeOK, InferenceHasEngine, LockIsHeld, PastTheLock, Clients
  <2>4. CurrentIsBorn'
    BY <1>2, RuntimeAssumption DEF RuntimeAssumption, RequestCustom, TypeOK, CurrentIsBorn, States, Clients
  <2>5. UnbornIsUnknown'
    BY <1>2, RuntimeAssumption DEF RuntimeAssumption, RequestCustom, TypeOK, CurrentIsBorn, UnbornIsUnknown, States, Clients
  <2>6. ReadyIsBacked'
    BY <1>2, RuntimeAssumption DEF RuntimeAssumption, RequestCustom, TypeOK, CurrentIsBorn, UnbornIsUnknown, ReadyIsBacked, NothingRemembered, Clients
  <2>7. NothingRemembered'
    BY <1>2, RuntimeAssumption DEF RuntimeAssumption, RequestCustom, TypeOK, NothingRemembered, Clients
  <2> QED BY <2>1, <2>2, <2>3, <2>4, <2>5, <2>6, <2>7
<1>3. ASSUME NEW c \in Clients, Fetch(c) PROVE IInv'
  <2>1. TypeOK'
    BY <1>3, RuntimeAssumption DEF RuntimeAssumption, Fetch, TypeOK, Clients, States
  <2>2. LockIsHeld'
    BY <1>3, RuntimeAssumption DEF RuntimeAssumption, Fetch, TypeOK, LockIsHeld, PastTheLock, Clients
  <2>3. InferenceHasEngine'
    BY <1>3, RuntimeAssumption DEF RuntimeAssumption, Fetch, TypeOK, InferenceHasEngine, LockIsHeld, PastTheLock, Clients
  <2>4. CurrentIsBorn'
    BY <1>3, RuntimeAssumption DEF RuntimeAssumption, Fetch, TypeOK, CurrentIsBorn, States, Clients
  <2>5. UnbornIsUnknown'
    BY <1>3, RuntimeAssumption DEF RuntimeAssumption, Fetch, TypeOK, CurrentIsBorn, UnbornIsUnknown, States, Clients
  <2>6. ReadyIsBacked'
    BY <1>3, RuntimeAssumption DEF RuntimeAssumption, Fetch, TypeOK, CurrentIsBorn, UnbornIsUnknown, ReadyIsBacked, NothingRemembered, Clients
  <2>7. NothingRemembered'
    BY <1>3, RuntimeAssumption DEF RuntimeAssumption, Fetch, TypeOK, NothingRemembered, Clients
  <2> QED BY <2>1, <2>2, <2>3, <2>4, <2>5, <2>6, <2>7
<1>4. ASSUME NEW c \in Clients, Enter(c) PROVE IInv'
  <2> state[mine[c]] \in States
    BY <1>4, RuntimeAssumption DEF RuntimeAssumption, Enter, TypeOK, States,
      UnbornIsUnknown, Clients
  <2>1. TypeOK'
    BY <1>4, RuntimeAssumption DEF RuntimeAssumption, Enter, TypeOK, Clients
  <2>2. LockIsHeld'
    <3> SUFFICES ASSUME NEW d \in Clients PROVE (PastTheLock(d) => holder[mine[d]] = d)'
      BY DEF LockIsHeld
    <3>1. CASE d = c
      BY <1>4, <3>1, RuntimeAssumption
      DEF RuntimeAssumption, Enter, TypeOK, PastTheLock
    <3>2. CASE d # c
      BY <1>4, <3>2 DEF Enter, TypeOK, LockIsHeld, PastTheLock
    <3> QED BY <3>1, <3>2
  <2>3. InferenceHasEngine'
    BY <1>4, RuntimeAssumption DEF RuntimeAssumption, Enter, TypeOK, InferenceHasEngine, LockIsHeld, PastTheLock, Clients
  <2>4. CurrentIsBorn'
    BY <1>4, RuntimeAssumption DEF RuntimeAssumption, Enter, TypeOK, CurrentIsBorn, States, Clients
  <2>5. UnbornIsUnknown'
    BY <1>4, RuntimeAssumption DEF RuntimeAssumption, Enter, TypeOK, CurrentIsBorn, UnbornIsUnknown, States, Clients
  <2>6. ReadyIsBacked'
    BY <1>4, RuntimeAssumption DEF RuntimeAssumption, Enter, TypeOK, CurrentIsBorn, UnbornIsUnknown, ReadyIsBacked, NothingRemembered, Clients
  <2>7. NothingRemembered'
    BY <1>4, RuntimeAssumption DEF RuntimeAssumption, Enter, TypeOK, NothingRemembered, Clients
  <2> QED BY <2>1, <2>2, <2>3, <2>4, <2>5, <2>6, <2>7
<1>5. ASSUME NEW c \in Clients, MarkBusy(c) PROVE IInv'
  <2>1. TypeOK'
    BY <1>5, RuntimeAssumption DEF RuntimeAssumption, MarkBusy, TypeOK, Clients, States
  <2>2. LockIsHeld'
    BY <1>5, RuntimeAssumption DEF RuntimeAssumption, MarkBusy, TypeOK, LockIsHeld, PastTheLock, Clients
  <2>3. InferenceHasEngine'
    BY <1>5, RuntimeAssumption DEF RuntimeAssumption, MarkBusy, TypeOK, InferenceHasEngine, LockIsHeld, PastTheLock, Clients
  <2>4. CurrentIsBorn'
    BY <1>5, RuntimeAssumption DEF RuntimeAssumption, MarkBusy, TypeOK, CurrentIsBorn, States, Clients
  <2>5. UnbornIsUnknown'
    BY <1>5, RuntimeAssumption DEF RuntimeAssumption, MarkBusy, TypeOK, CurrentIsBorn, UnbornIsUnknown, States, Clients
  <2>6. ReadyIsBacked'
    BY <1>5, RuntimeAssumption DEF RuntimeAssumption, MarkBusy, TypeOK, CurrentIsBorn, UnbornIsUnknown, ReadyIsBacked, NothingRemembered, Clients
  <2>7. NothingRemembered'
    BY <1>5, RuntimeAssumption DEF RuntimeAssumption, MarkBusy, TypeOK, NothingRemembered, Clients
  <2> QED BY <2>1, <2>2, <2>3, <2>4, <2>5, <2>6, <2>7
<1>6. ASSUME NEW c \in Clients, Acquire(c) PROVE IInv'
  <2> state[mine[c]] \in States
    BY <1>6, RuntimeAssumption DEF RuntimeAssumption, Acquire, TypeOK, States,
      UnbornIsUnknown, Clients
  <2>1. TypeOK'
    BY <1>6, RuntimeAssumption DEF RuntimeAssumption, Acquire, TypeOK, Clients, States
  <2>2. LockIsHeld'
    BY <1>6, RuntimeAssumption DEF RuntimeAssumption, Acquire, TypeOK, LockIsHeld, PastTheLock, Clients
  <2>3. InferenceHasEngine'
    BY <1>6, RuntimeAssumption DEF RuntimeAssumption, Acquire, TypeOK, InferenceHasEngine, LockIsHeld, PastTheLock, Clients
  <2>4. CurrentIsBorn'
    BY <1>6, RuntimeAssumption DEF RuntimeAssumption, Acquire, TypeOK, CurrentIsBorn, States, Clients
  <2>5. UnbornIsUnknown'
    BY <1>6, RuntimeAssumption DEF RuntimeAssumption, Acquire, TypeOK, CurrentIsBorn, UnbornIsUnknown, States, Clients
  <2>6. ReadyIsBacked'
    BY <1>6, RuntimeAssumption DEF RuntimeAssumption, Acquire, TypeOK, CurrentIsBorn, UnbornIsUnknown, ReadyIsBacked, NothingRemembered, Clients
  <2>7. NothingRemembered'
    BY <1>6, RuntimeAssumption DEF RuntimeAssumption, Acquire, TypeOK, NothingRemembered, Clients
  <2> QED BY <2>1, <2>2, <2>3, <2>4, <2>5, <2>6, <2>7
<1>7. ASSUME NEW c \in Clients, TimeOut(c) PROVE IInv'
  <2>1. TypeOK'
    BY <1>7, RuntimeAssumption DEF RuntimeAssumption, TimeOut, TypeOK, Clients, States
  <2>2. LockIsHeld'
    BY <1>7, RuntimeAssumption DEF RuntimeAssumption, TimeOut, TypeOK, LockIsHeld, PastTheLock, Clients
  <2>3. InferenceHasEngine'
    BY <1>7, RuntimeAssumption DEF RuntimeAssumption, TimeOut, TypeOK, InferenceHasEngine, LockIsHeld, PastTheLock, Clients
  <2>4. CurrentIsBorn'
    BY <1>7, RuntimeAssumption DEF RuntimeAssumption, TimeOut, TypeOK, CurrentIsBorn, States, Clients
  <2>5. UnbornIsUnknown'
    BY <1>7, RuntimeAssumption DEF RuntimeAssumption, TimeOut, TypeOK, CurrentIsBorn, UnbornIsUnknown, States, Clients
  <2>6. ReadyIsBacked'
    BY <1>7, RuntimeAssumption DEF RuntimeAssumption, TimeOut, TypeOK, CurrentIsBorn, UnbornIsUnknown, ReadyIsBacked, NothingRemembered, Clients
  <2>7. NothingRemembered'
    BY <1>7, RuntimeAssumption DEF RuntimeAssumption, TimeOut, TypeOK, NothingRemembered, Clients
  <2> QED BY <2>1, <2>2, <2>3, <2>4, <2>5, <2>6, <2>7
<1>8. ASSUME NEW c \in Clients, GiveUp(c) PROVE IInv'
  <2>1. TypeOK'
    BY <1>8, RuntimeAssumption DEF RuntimeAssumption, GiveUp, TypeOK, Clients, States
  <2>2. LockIsHeld'
    BY <1>8, RuntimeAssumption DEF RuntimeAssumption, GiveUp, TypeOK, LockIsHeld, PastTheLock, Clients
  <2>3. InferenceHasEngine'
    BY <1>8, RuntimeAssumption DEF RuntimeAssumption, GiveUp, TypeOK, InferenceHasEngine, LockIsHeld, PastTheLock, Clients
  <2>4. CurrentIsBorn'
    BY <1>8, RuntimeAssumption DEF RuntimeAssumption, GiveUp, TypeOK, CurrentIsBorn, States, Clients
  <2>5. UnbornIsUnknown'
    BY <1>8, RuntimeAssumption DEF RuntimeAssumption, GiveUp, TypeOK, CurrentIsBorn, UnbornIsUnknown, States, Clients
  <2>6. ReadyIsBacked'
    BY <1>8, RuntimeAssumption DEF RuntimeAssumption, GiveUp, TypeOK, CurrentIsBorn, UnbornIsUnknown, ReadyIsBacked, NothingRemembered, Clients
  <2>7. NothingRemembered'
    BY <1>8, RuntimeAssumption DEF RuntimeAssumption, GiveUp, TypeOK, NothingRemembered, Clients
  <2> QED BY <2>1, <2>2, <2>3, <2>4, <2>5, <2>6, <2>7
<1>9. ASSUME NEW c \in Clients, Check(c) PROVE IInv'
  <2>1. TypeOK'
    BY <1>9, RuntimeAssumption DEF RuntimeAssumption, Check, TypeOK, Clients, States
  <2>2. LockIsHeld'
    BY <1>9, RuntimeAssumption DEF RuntimeAssumption, Check, TypeOK, LockIsHeld, PastTheLock, Clients
  <2>3. InferenceHasEngine'
    BY <1>9, RuntimeAssumption DEF RuntimeAssumption, Check, TypeOK, InferenceHasEngine, LockIsHeld, PastTheLock, Clients
  <2>4. CurrentIsBorn'
    BY <1>9, RuntimeAssumption DEF RuntimeAssumption, Check, TypeOK, CurrentIsBorn, States, Clients
  <2>5. UnbornIsUnknown'
    BY <1>9, RuntimeAssumption DEF RuntimeAssumption, Check, TypeOK, CurrentIsBorn, UnbornIsUnknown, States, Clients
  <2>6. ReadyIsBacked'
    BY <1>9, RuntimeAssumption DEF RuntimeAssumption, Check, TypeOK, CurrentIsBorn, UnbornIsUnknown, ReadyIsBacked, NothingRemembered, Clients
  <2>7. NothingRemembered'
    BY <1>9, RuntimeAssumption DEF RuntimeAssumption, Check, TypeOK, NothingRemembered, Clients
  <2> QED BY <2>1, <2>2, <2>3, <2>4, <2>5, <2>6, <2>7
<1>10. ASSUME NEW c \in Clients, Infer(c) PROVE IInv'
  <2>1. TypeOK'
    BY <1>10, RuntimeAssumption DEF RuntimeAssumption, Infer, TypeOK, Clients, States
  <2>2. LockIsHeld'
    BY <1>10, RuntimeAssumption DEF RuntimeAssumption, Infer, TypeOK, LockIsHeld, PastTheLock, Clients
  <2>3. InferenceHasEngine'
    BY <1>10, RuntimeAssumption DEF RuntimeAssumption, Infer, TypeOK, InferenceHasEngine, LockIsHeld, PastTheLock, Clients
  <2>4. CurrentIsBorn'
    BY <1>10, RuntimeAssumption DEF RuntimeAssumption, Infer, TypeOK, CurrentIsBorn, States, Clients
  <2>5. UnbornIsUnknown'
    BY <1>10, RuntimeAssumption DEF RuntimeAssumption, Infer, TypeOK, CurrentIsBorn, UnbornIsUnknown, States, Clients
  <2>6. ReadyIsBacked'
    BY <1>10, RuntimeAssumption DEF RuntimeAssumption, Infer, TypeOK, CurrentIsBorn, UnbornIsUnknown, ReadyIsBacked, NothingRemembered, Clients
  <2>7. NothingRemembered'
    BY <1>10, RuntimeAssumption DEF RuntimeAssumption, Infer, TypeOK, NothingRemembered, Clients
  <2> QED BY <2>1, <2>2, <2>3, <2>4, <2>5, <2>6, <2>7
<1>11. ASSUME NEW c \in Clients, Leave(c) PROVE IInv'
  <2>1. TypeOK'
    BY <1>11, RuntimeAssumption DEF RuntimeAssumption, Leave, TypeOK, Clients, States
  <2>2. LockIsHeld'
    BY <1>11, RuntimeAssumption DEF RuntimeAssumption, Leave, TypeOK, LockIsHeld, PastTheLock, Clients
  <2>3. InferenceHasEngine'
    BY <1>11, RuntimeAssumption DEF RuntimeAssumption, Leave, TypeOK, InferenceHasEngine, LockIsHeld, PastTheLock, Clients
  <2>4. CurrentIsBorn'
    BY <1>11, RuntimeAssumption DEF RuntimeAssumption, Leave, TypeOK, CurrentIsBorn, States, Clients
  <2>5. UnbornIsUnknown'
    BY <1>11, RuntimeAssumption DEF RuntimeAssumption, Leave, TypeOK, CurrentIsBorn, UnbornIsUnknown, States, Clients
  <2>6. ReadyIsBacked'
    BY <1>11, RuntimeAssumption DEF RuntimeAssumption, Leave, TypeOK, CurrentIsBorn, UnbornIsUnknown, ReadyIsBacked, NothingRemembered, Clients
  <2>7. NothingRemembered'
    BY <1>11, RuntimeAssumption DEF RuntimeAssumption, Leave, TypeOK, NothingRemembered, Clients
  <2> QED BY <2>1, <2>2, <2>3, <2>4, <2>5, <2>6, <2>7
<1>12. ASSUME NEW c \in Clients, Settle(c) PROVE IInv'
  <2>1. TypeOK'
    BY <1>12, RuntimeAssumption DEF RuntimeAssumption, Settle, TypeOK, Clients, States
  <2>2. LockIsHeld'
    BY <1>12, RuntimeAssumption DEF RuntimeAssumption, Settle, TypeOK, LockIsHeld, PastTheLock, Clients
  <2>3. InferenceHasEngine'
    BY <1>12, RuntimeAssumption DEF RuntimeAssumption, Settle, TypeOK, InferenceHasEngine, LockIsHeld, PastTheLock, Clients
  <2>4. CurrentIsBorn'
    BY <1>12, RuntimeAssumption DEF RuntimeAssumption, Settle, TypeOK, CurrentIsBorn, States, Clients
  <2>5. UnbornIsUnknown'
    BY <1>12, RuntimeAssumption DEF RuntimeAssumption, Settle, TypeOK, CurrentIsBorn, UnbornIsUnknown, States, Clients
  <2>6. ReadyIsBacked'
    BY <1>12, RuntimeAssumption DEF RuntimeAssumption, Settle, TypeOK, CurrentIsBorn, UnbornIsUnknown, ReadyIsBacked, NothingRemembered, Clients
  <2>7. NothingRemembered'
    BY <1>12, RuntimeAssumption DEF RuntimeAssumption, Settle, TypeOK, NothingRemembered, Clients
  <2> QED BY <2>1, <2>2, <2>3, <2>4, <2>5, <2>6, <2>7
<1>13. ASSUME NEW c \in Clients, WriteBack(c) PROVE IInv'
  <2>1. TypeOK'
    BY <1>13, RuntimeAssumption DEF RuntimeAssumption, WriteBack, TypeOK, Clients, States
  <2>2. LockIsHeld'
    BY <1>13, RuntimeAssumption DEF RuntimeAssumption, WriteBack, TypeOK, LockIsHeld, PastTheLock, Clients
  <2>3. InferenceHasEngine'
    BY <1>13, RuntimeAssumption DEF RuntimeAssumption, WriteBack, TypeOK, InferenceHasEngine, LockIsHeld, PastTheLock, Clients
  <2>4. CurrentIsBorn'
    BY <1>13, RuntimeAssumption DEF RuntimeAssumption, WriteBack, TypeOK, CurrentIsBorn, States, Clients
  <2>5. UnbornIsUnknown'
    BY <1>13, RuntimeAssumption DEF RuntimeAssumption, WriteBack, TypeOK, CurrentIsBorn, UnbornIsUnknown, States, Clients
  <2>6. ReadyIsBacked'
    BY <1>13, RuntimeAssumption DEF RuntimeAssumption, WriteBack, TypeOK, CurrentIsBorn, UnbornIsUnknown, ReadyIsBacked, NothingRemembered, Clients
  <2>7. NothingRemembered'
    BY <1>13, RuntimeAssumption DEF RuntimeAssumption, WriteBack, TypeOK, NothingRemembered, Clients
  <2> QED BY <2>1, <2>2, <2>3, <2>4, <2>5, <2>6, <2>7
<1>14. ASSUME NEW r \in Runtimes, Load(r) PROVE IInv'
  <2>1. TypeOK'
    <3>1. engine' \in [Runtimes -> BOOLEAN]
      BY <1>14 DEF Load, TypeOK
    <3>2. loader' \in [Runtimes -> {"none", "load", "publish", "done"}]
      BY <1>14 DEF Load, TypeOK
    <3>3. state' \in [Runtimes -> States \cup {"unborn"}]
      <4>1. CASE UNCHANGED state
        BY <4>1 DEF TypeOK
      <4>2. CASE \E s \in {"Disabled", "Error"} : Write(r, s)
        BY <4>2 DEF Write, TypeOK, States
      <4> QED BY <1>14, <4>1, <4>2 DEF Load
    <3>4. UNCHANGED <<current, holder, clientVars, restart>>
      BY <1>14 DEF Load
    <3> QED BY <3>1, <3>2, <3>3, <3>4 DEF TypeOK, clientVars
  <2>2. LockIsHeld'
    BY <1>14, RuntimeAssumption DEF RuntimeAssumption, Load, TypeOK, LockIsHeld, PastTheLock, Clients
  <2>3. InferenceHasEngine'
    BY <1>14, RuntimeAssumption DEF RuntimeAssumption, Load, TypeOK, InferenceHasEngine, LockIsHeld, PastTheLock, Clients
  <2>4. CurrentIsBorn'
    BY <1>14, RuntimeAssumption DEF RuntimeAssumption, Load, TypeOK, CurrentIsBorn, States, Clients
  <2>5. UnbornIsUnknown'
    BY <1>14, RuntimeAssumption DEF RuntimeAssumption, Load, TypeOK, CurrentIsBorn, UnbornIsUnknown, States, Clients
  <2>6. ReadyIsBacked'
    BY <1>14, RuntimeAssumption DEF RuntimeAssumption, Load, TypeOK, CurrentIsBorn, UnbornIsUnknown, ReadyIsBacked, NothingRemembered, Clients
  <2>7. NothingRemembered'
    BY <1>14, RuntimeAssumption DEF RuntimeAssumption, Load, TypeOK, NothingRemembered, Clients
  <2> QED BY <2>1, <2>2, <2>3, <2>4, <2>5, <2>6, <2>7
<1>15. ASSUME NEW r \in Runtimes, LoadReady(r) PROVE IInv'
  <2>1. TypeOK'
    BY <1>15, RuntimeAssumption DEF RuntimeAssumption, LoadReady, TypeOK, Clients, States
  <2>2. LockIsHeld'
    BY <1>15, RuntimeAssumption DEF RuntimeAssumption, LoadReady, TypeOK, LockIsHeld, PastTheLock, Clients
  <2>3. InferenceHasEngine'
    BY <1>15, RuntimeAssumption DEF RuntimeAssumption, LoadReady, TypeOK, InferenceHasEngine, LockIsHeld, PastTheLock, Clients
  <2>4. CurrentIsBorn'
    BY <1>15, RuntimeAssumption DEF RuntimeAssumption, LoadReady, TypeOK, CurrentIsBorn, States, Clients
  <2>5. UnbornIsUnknown'
    BY <1>15, RuntimeAssumption DEF RuntimeAssumption, LoadReady, TypeOK, CurrentIsBorn, UnbornIsUnknown, States, Clients
  <2>6. ReadyIsBacked'
    BY <1>15, RuntimeAssumption DEF RuntimeAssumption, LoadReady, TypeOK, CurrentIsBorn, UnbornIsUnknown, ReadyIsBacked, NothingRemembered, Clients
  <2>7. NothingRemembered'
    BY <1>15, RuntimeAssumption DEF RuntimeAssumption, LoadReady, TypeOK, NothingRemembered, Clients
  <2> QED BY <2>1, <2>2, <2>3, <2>4, <2>5, <2>6, <2>7
<1>16. ASSUME RestartBegin PROVE IInv'
  <2>1. TypeOK'
    BY <1>16, RuntimeAssumption DEF RuntimeAssumption, RestartBegin, TypeOK, Clients, States
  <2>2. LockIsHeld'
    BY <1>16, RuntimeAssumption DEF RuntimeAssumption, RestartBegin, TypeOK, LockIsHeld, PastTheLock, Clients
  <2>3. InferenceHasEngine'
    BY <1>16, RuntimeAssumption DEF RuntimeAssumption, RestartBegin, TypeOK, InferenceHasEngine, LockIsHeld, PastTheLock, Clients
  <2>4. CurrentIsBorn'
    BY <1>16, RuntimeAssumption DEF RuntimeAssumption, RestartBegin, TypeOK, CurrentIsBorn, States, Clients
  <2>5. UnbornIsUnknown'
    BY <1>16, RuntimeAssumption DEF RuntimeAssumption, RestartBegin, TypeOK, CurrentIsBorn, UnbornIsUnknown, States, Clients
  <2>6. ReadyIsBacked'
    BY <1>16, RuntimeAssumption DEF RuntimeAssumption, RestartBegin, TypeOK, CurrentIsBorn, UnbornIsUnknown, ReadyIsBacked, NothingRemembered, Clients
  <2>7. NothingRemembered'
    BY <1>16, RuntimeAssumption DEF RuntimeAssumption, RestartBegin, TypeOK, NothingRemembered, Clients
  <2> QED BY <2>1, <2>2, <2>3, <2>4, <2>5, <2>6, <2>7
<1>17. ASSUME RestartUnload PROVE IInv'
  <2>1. TypeOK'
    BY <1>17, RuntimeAssumption DEF RuntimeAssumption, RestartUnload, TypeOK, Clients, States
  <2>2. LockIsHeld'
    BY <1>17, RuntimeAssumption DEF RuntimeAssumption, RestartUnload, TypeOK, LockIsHeld, PastTheLock, Clients
  <2>3. InferenceHasEngine'
    BY <1>17, RuntimeAssumption DEF RuntimeAssumption, RestartUnload, TypeOK, InferenceHasEngine, LockIsHeld, PastTheLock, Clients
  <2>4. CurrentIsBorn'
    BY <1>17, RuntimeAssumption DEF RuntimeAssumption, RestartUnload, TypeOK, CurrentIsBorn, States, Clients
  <2>5. UnbornIsUnknown'
    BY <1>17, RuntimeAssumption DEF RuntimeAssumption, RestartUnload, TypeOK, CurrentIsBorn, UnbornIsUnknown, States, Clients
  <2>6. ReadyIsBacked'
    BY <1>17, RuntimeAssumption DEF RuntimeAssumption, RestartUnload, TypeOK, CurrentIsBorn, UnbornIsUnknown, ReadyIsBacked, NothingRemembered, Clients
  <2>7. NothingRemembered'
    BY <1>17, RuntimeAssumption DEF RuntimeAssumption, RestartUnload, TypeOK, NothingRemembered, Clients
  <2> QED BY <2>1, <2>2, <2>3, <2>4, <2>5, <2>6, <2>7
<1>18. ASSUME RestartDisable PROVE IInv'
  <2>1. TypeOK'
    BY <1>18, RuntimeAssumption DEF RuntimeAssumption, RestartDisable, TypeOK, Clients, States
  <2>2. LockIsHeld'
    BY <1>18, RuntimeAssumption DEF RuntimeAssumption, RestartDisable, TypeOK, LockIsHeld, PastTheLock, Clients
  <2>3. InferenceHasEngine'
    BY <1>18, RuntimeAssumption DEF RuntimeAssumption, RestartDisable, TypeOK, InferenceHasEngine, LockIsHeld, PastTheLock, Clients
  <2>4. CurrentIsBorn'
    BY <1>18, RuntimeAssumption DEF RuntimeAssumption, RestartDisable, TypeOK, CurrentIsBorn, States, Clients
  <2>5. UnbornIsUnknown'
    BY <1>18, RuntimeAssumption DEF RuntimeAssumption, RestartDisable, TypeOK, CurrentIsBorn, UnbornIsUnknown, States, Clients
  <2>6. ReadyIsBacked'
    BY <1>18, RuntimeAssumption DEF RuntimeAssumption, RestartDisable, TypeOK, CurrentIsBorn, UnbornIsUnknown, ReadyIsBacked, NothingRemembered, Clients
  <2>7. NothingRemembered'
    BY <1>18, RuntimeAssumption DEF RuntimeAssumption, RestartDisable, TypeOK, NothingRemembered, Clients
  <2> QED BY <2>1, <2>2, <2>3, <2>4, <2>5, <2>6, <2>7
<1>19. ASSUME RestartDrop PROVE IInv'
  <2>1. TypeOK'
    BY <1>19, RuntimeAssumption DEF RuntimeAssumption, RestartDrop, TypeOK, Clients, States
  <2>2. LockIsHeld'
    BY <1>19, RuntimeAssumption DEF RuntimeAssumption, RestartDrop, TypeOK, LockIsHeld, PastTheLock, Clients
  <2>3. InferenceHasEngine'
    BY <1>19, RuntimeAssumption DEF RuntimeAssumption, RestartDrop, TypeOK, InferenceHasEngine, LockIsHeld, PastTheLock, Clients
  <2>4. CurrentIsBorn'
    BY <1>19, RuntimeAssumption DEF RuntimeAssumption, RestartDrop, TypeOK, CurrentIsBorn, States, Clients
  <2>5. UnbornIsUnknown'
    BY <1>19, RuntimeAssumption DEF RuntimeAssumption, RestartDrop, TypeOK, CurrentIsBorn, UnbornIsUnknown, States, Clients
  <2>6. ReadyIsBacked'
    BY <1>19, RuntimeAssumption DEF RuntimeAssumption, RestartDrop, TypeOK, CurrentIsBorn, UnbornIsUnknown, ReadyIsBacked, NothingRemembered, Clients
  <2>7. NothingRemembered'
    BY <1>19, RuntimeAssumption DEF RuntimeAssumption, RestartDrop, TypeOK, NothingRemembered, Clients
  <2> QED BY <2>1, <2>2, <2>3, <2>4, <2>5, <2>6, <2>7
<1>20. ASSUME RestartInit PROVE IInv'
  <2>1. TypeOK'
    BY <1>20, RuntimeAssumption DEF RuntimeAssumption, RestartInit, TypeOK, Clients, States
  <2>2. LockIsHeld'
    BY <1>20, RuntimeAssumption DEF RuntimeAssumption, RestartInit, TypeOK, LockIsHeld, PastTheLock, Clients
  <2>3. InferenceHasEngine'
    BY <1>20, RuntimeAssumption DEF RuntimeAssumption, RestartInit, TypeOK, InferenceHasEngine, LockIsHeld, PastTheLock, Clients
  <2>4. CurrentIsBorn'
    BY <1>20, RuntimeAssumption DEF RuntimeAssumption, RestartInit, TypeOK, CurrentIsBorn, States, Clients
  <2>5. UnbornIsUnknown'
    BY <1>20, RuntimeAssumption DEF RuntimeAssumption, RestartInit, TypeOK, CurrentIsBorn, UnbornIsUnknown, States, Clients
  <2>6. ReadyIsBacked'
    BY <1>20, RuntimeAssumption DEF RuntimeAssumption, RestartInit, TypeOK, CurrentIsBorn, UnbornIsUnknown, ReadyIsBacked, NothingRemembered, Clients
  <2>7. NothingRemembered'
    BY <1>20, RuntimeAssumption DEF RuntimeAssumption, RestartInit, TypeOK, NothingRemembered, Clients
  <2> QED BY <2>1, <2>2, <2>3, <2>4, <2>5, <2>6, <2>7
<1>21. ASSUME RestartEnable PROVE IInv'
  <2>1. TypeOK'
    BY <1>21, RuntimeAssumption DEF RuntimeAssumption, RestartEnable, TypeOK, Clients, States
  <2>2. LockIsHeld'
    BY <1>21, RuntimeAssumption DEF RuntimeAssumption, RestartEnable, TypeOK, LockIsHeld, PastTheLock, Clients
  <2>3. InferenceHasEngine'
    BY <1>21, RuntimeAssumption DEF RuntimeAssumption, RestartEnable, TypeOK, InferenceHasEngine, LockIsHeld, PastTheLock, Clients
  <2>4. CurrentIsBorn'
    BY <1>21, RuntimeAssumption DEF RuntimeAssumption, RestartEnable, TypeOK, CurrentIsBorn, States, Clients
  <2>5. UnbornIsUnknown'
    BY <1>21, RuntimeAssumption DEF RuntimeAssumption, RestartEnable, TypeOK, CurrentIsBorn, UnbornIsUnknown, States, Clients
  <2>6. ReadyIsBacked'
    BY <1>21, RuntimeAssumption DEF RuntimeAssumption, RestartEnable, TypeOK, CurrentIsBorn, UnbornIsUnknown, ReadyIsBacked, NothingRemembered, Clients
  <2>7. NothingRemembered'
    BY <1>21, RuntimeAssumption DEF RuntimeAssumption, RestartEnable, TypeOK, NothingRemembered, Clients
  <2> QED BY <2>1, <2>2, <2>3, <2>4, <2>5, <2>6, <2>7
<1>22. ASSUME RestartStart PROVE IInv'
  <2>1. TypeOK'
    BY <1>22, RuntimeAssumption DEF RuntimeAssumption, RestartStart, TypeOK, Clients, States
  <2>2. LockIsHeld'
    BY <1>22, RuntimeAssumption DEF RuntimeAssumption, RestartStart, TypeOK, LockIsHeld, PastTheLock, Clients
  <2>3. InferenceHasEngine'
    BY <1>22, RuntimeAssumption DEF RuntimeAssumption, RestartStart, TypeOK, InferenceHasEngine, LockIsHeld, PastTheLock, Clients
  <2>4. CurrentIsBorn'
    BY <1>22, RuntimeAssumption DEF RuntimeAssumption, RestartStart, TypeOK, CurrentIsBorn, States, Clients
  <2>5. UnbornIsUnknown'
    BY <1>22, RuntimeAssumption DEF RuntimeAssumption, RestartStart, TypeOK, CurrentIsBorn, UnbornIsUnknown, States, Clients
  <2>6. ReadyIsBacked'
    BY <1>22, RuntimeAssumption DEF RuntimeAssumption, RestartStart, TypeOK, CurrentIsBorn, UnbornIsUnknown, ReadyIsBacked, NothingRemembered, Clients
  <2>7. NothingRemembered'
    BY <1>22, RuntimeAssumption DEF RuntimeAssumption, RestartStart, TypeOK, NothingRemembered, Clients
  <2> QED BY <2>1, <2>2, <2>3, <2>4, <2>5, <2>6, <2>7
<1>23. CASE UNCHANGED vars
  BY <1>23 DEF vars, TypeOK, LockIsHeld, PastTheLock, InferenceHasEngine,
    CurrentIsBorn, UnbornIsUnknown, ReadyIsBacked, NothingRemembered
<1> QED
  BY <1>1, <1>2, <1>3, <1>4, <1>5, <1>6, <1>7, <1>8, <1>9, <1>10, <1>11, <1>12, <1>13, <1>14, <1>15, <1>16, <1>17, <1>18, <1>19, <1>20, <1>21, <1>22, <1>23
  DEF Next, ClientStep, LoaderStep, RestartStep

\* Every variable keeps its type, and a thread that has looked the runtime up
\* and goes on has found one.
THEOREM TypeCorrect == ASSUME RuntimeAssumption PROVE Spec => []TypeOK
<1>1. Init => IInv
  BY InitIInv, RuntimeAssumption
<1>2. IInv /\ [Next]_vars => IInv'
  BY NextIInv, RuntimeAssumption
<1>3. IInv => TypeOK
  BY DEF IInv
<1> QED
  BY <1>1, <1>2, <1>3, PTL DEF Spec

\* A request infers on an engine that stays until it is done, alone with it:
\* restart_engine unloads under the lock that refine_text_sync and
\* generate_custom_sync hold.
THEOREM EngineStaysLoaded ==
  ASSUME RuntimeAssumption PROVE Spec => []InferenceHasEngine
<1>1. Init => IInv
  BY InitIInv, RuntimeAssumption
<1>2. IInv /\ [Next]_vars => IInv'
  BY NextIInv, RuntimeAssumption
<1>3. IInv => InferenceHasEngine
  BY DEF IInv
<1> QED
  BY <1>1, <1>2, <1>3, PTL DEF Spec

\* validate_slm_ready is right to trust the state: outside a restart, a current
\* runtime that is ready has its engine, although threads write the state back
\* after they have released the lock.
THEOREM ReadyIsTrue == ASSUME RuntimeAssumption PROVE Spec => []ReadyMeansLoaded
<1>1. Init => IInv
  BY InitIInv, RuntimeAssumption
<1>2. IInv /\ [Next]_vars => IInv'
  BY NextIInv, RuntimeAssumption
<1>3. IInv => ReadyMeansLoaded
  BY DEF IInv, TypeOK, ReadyIsBacked, ReadyMeansLoaded
<1> QED
  BY <1>1, <1>2, <1>3, PTL DEF Spec
================================================================================
