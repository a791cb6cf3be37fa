------------------------------ MODULE MCSafe_proofs ------------------------------
(***************************************************************************)
(* Proofs of the components of MCSafe, each by an inductive invariant of   *)
(* its own: one lemma for its beginning and one for its steps, with a step *)
(* of the proof for each action.  The theorems say that whatever           *)
(* component a behaviour is of, its properties hold.                       *)
(***************************************************************************)
EXTENDS MCSafe, SequenceTheorems, TLAPS

-----------------------------------------------------------------------------
(* InstanceLock.  A quiet instance holds the file at the path, and those   *)
(* that start while it is up find it locked, and its id or none.           *)

\* The place of a process that is not alive.
LockPlaces == \A p \in Processes :
  /\ state[p] = "off" => pc[p] = "first"
  /\ state[p] = "dead" => pc[p] = "gone"

\* What a start finds while p is up.
Refused(p, q) ==
  \/ Lock!Gone(q) \/ pc[q] \in {"first", "look", "second"}
  \/ pc[q] = "read" /\ pidFile = p
  \/ pc[q] = "check" /\ seen[q] = p

HasPath(p) == pc[p] \in {"open", "write", "up"} /\ state[p] = "running" /\ locked[p] = path

WritesId(p) ==
  /\ pc[p] = "write" => pidFile = IF p \in opened THEN Lock!Empty ELSE Lock!NoFile
  /\ pc[p] = "up" => pidFile \in {p, Lock!NoFile}

OthersWait(p) == \A q \in Processes \ {p} :
  IF pc[p] = "up" THEN Refused(p, q) ELSE Lock!Gone(q)

QuietHolds == \A p \in quiet : HasPath(p) /\ WritesId(p) /\ OthersWait(p)

LockInv == Lock!TypeOK /\ LockPlaces /\ QuietHolds

LEMMA InitLock == Lock!Init => LockInv
<1> USE FilesAssumption DEF Lock!Init
<1> SUFFICES ASSUME Lock!Init PROVE LockInv
  OBVIOUS
<1>1. path \in 0..MaxFiles /\ made \in 0..MaxFiles /\ path <= made
  OBVIOUS
<1>4. /\ pidFile \in Lock!Ids /\ opened \subseteq Processes
      /\ seen \in [Processes -> Lock!Ids]
  BY DEF Lock!Ids
<1>7. locked \in [Processes -> 0..made]
  OBVIOUS
<1>5. /\ state \in [Processes -> {"off", "running", "stopped", "dead"}]
      /\ pc \in [Processes -> Lock!Places]
      /\ quiet \subseteq Processes
  BY DEF Lock!Places
<1>6. /\ \A p, q \in Processes : locked[p] = locked[q] /\ locked[p] # 0 => p = q
      /\ \A p \in Processes : locked[p] # 0 <=> pc[p] \in Lock!Holding
  BY DEF Lock!Holding
<1>0. Lock!TypeOK
  BY ONLY <1>1, <1>4, <1>5, <1>6, <1>7 DEF Lock!TypeOK
<1>2. LockPlaces
  BY DEF LockPlaces
<1>3. QuietHolds
  BY DEF QuietHolds
<1> QED  BY <1>0, <1>2, <1>3 DEF LockInv

LEMMA NextLockType ==
  Lock!TypeOK /\ LockPlaces /\ [Lock!Next]_lockVars => Lock!TypeOK' /\ LockPlaces'
<1> SUFFICES ASSUME Lock!TypeOK, LockPlaces, [Lock!Next]_lockVars
             PROVE  Lock!TypeOK' /\ LockPlaces'
  OBVIOUS
<1> USE FilesAssumption DEF Lock!TypeOK, LockPlaces, Lock!Ids, Lock!Places, Lock!Holding,
      Lock!At, Lock!Go, Lock!Quiet
<1>1. ASSUME Lock!Next PROVE Lock!TypeOK' /\ LockPlaces'
  <2>0. PICK p \in Processes :
          /\ \/ Lock!Launch(p) \/ Lock!Stop(p) \/ Lock!Continue(p) \/ Lock!Die(p)
             \/ Lock!TryFirst(p) \/ Lock!LookForPid(p) \/ Lock!ReadPid(p) \/ Lock!CheckPid(p)
             \/ Lock!UnlinkLock(p) \/ Lock!UnlinkPid(p) \/ Lock!TrySecond(p)
             \/ Lock!OpenPid(p) \/ Lock!WritePid(p)
             \/ Lock!Leave(p) \/ Lock!Unlock(p) \/ Lock!RemovePid(p)
          /\ quiet' = Lock!Quiet
    BY <1>1 DEF Lock!Next
  <2>1. CASE Lock!Launch(p)
    BY <2>0, <2>1 DEF Lock!Launch
  <2>2. CASE Lock!Stop(p)
    BY <2>0, <2>2 DEF Lock!Stop
  <2>3. CASE Lock!Continue(p)
    BY <2>0, <2>3 DEF Lock!Continue
  <2>4. CASE Lock!Die(p)
    <3>1. /\ path' \in 0..MaxFiles /\ made' \in 0..MaxFiles /\ path' <= made'
          /\ locked' \in [Processes -> 0..made']
      BY <2>4 DEF Lock!Die
    <3>2. \A q, r \in Processes : locked'[q] = locked'[r] /\ locked'[q] # 0 => q = r
      BY <2>4 DEF Lock!Die
    <3>3. /\ pidFile' \in Lock!Ids /\ opened' \subseteq Processes
          /\ seen' \in [Processes -> Lock!Ids]
          /\ state' \in [Processes -> {"off", "running", "stopped", "dead"}]
          /\ pc' \in [Processes -> Lock!Places]
          /\ quiet' \subseteq Processes
      BY <2>0, <2>4 DEF Lock!Die
    <3>4. \A q \in Processes : locked'[q] # 0 <=> pc'[q] \in Lock!Holding
      BY <2>4 DEF Lock!Die
    <3>5. LockPlaces'
      BY <2>4 DEF Lock!Die
    <3> QED  BY ONLY <3>1, <3>2, <3>3, <3>4, <3>5 DEF Lock!TypeOK
  <2>5. CASE Lock!TryFirst(p)
    <3>1. /\ path' \in 0..MaxFiles /\ made' \in 0..MaxFiles /\ path' <= made'
          /\ locked' \in [Processes -> 0..made']
      BY <2>5 DEF Lock!TryFirst, Lock!Lock, Lock!Free
    <3>2. \A q, r \in Processes : locked'[q] = locked'[r] /\ locked'[q] # 0 => q = r
      BY <2>5 DEF Lock!TryFirst, Lock!Lock, Lock!Free
    <3>3. /\ pidFile' \in Lock!Ids /\ opened' \subseteq Processes
          /\ seen' \in [Processes -> Lock!Ids]
          /\ state' \in [Processes -> {"off", "running", "stopped", "dead"}]
          /\ pc' \in [Processes -> Lock!Places]
          /\ quiet' \subseteq Processes
      BY <2>0, <2>5 DEF Lock!TryFirst, Lock!Lock, Lock!Free
    <3>4. \A q \in Processes : locked'[q] # 0 <=> pc'[q] \in Lock!Holding
      BY <2>5 DEF Lock!TryFirst, Lock!Lock, Lock!Free
    <3>5. LockPlaces'
      BY <2>5 DEF Lock!TryFirst, Lock!Lock, Lock!Free
    <3> QED  BY ONLY <3>1, <3>2, <3>3, <3>4, <3>5 DEF Lock!TypeOK
  <2>6. CASE Lock!LookForPid(p)
    BY <2>0, <2>6 DEF Lock!LookForPid
  <2>7. CASE Lock!ReadPid(p)
    BY <2>0, <2>7 DEF Lock!ReadPid
  <2>8. CASE Lock!CheckPid(p)
    BY <2>0, <2>8 DEF Lock!CheckPid
  <2>9. CASE Lock!UnlinkLock(p)
    <3>1. /\ path' \in 0..MaxFiles /\ made' \in 0..MaxFiles /\ path' <= made'
          /\ locked' \in [Processes -> 0..made']
      BY <2>9 DEF Lock!UnlinkLock
    <3>2. \A q, r \in Processes : locked'[q] = locked'[r] /\ locked'[q] # 0 => q = r
      BY <2>9 DEF Lock!UnlinkLock
    <3>3. /\ pidFile' \in Lock!Ids /\ opened' \subseteq Processes
          /\ seen' \in [Processes -> Lock!Ids]
          /\ state' \in [Processes -> {"off", "running", "stopped", "dead"}]
          /\ pc' \in [Processes -> Lock!Places]
          /\ quiet' \subseteq Processes
      BY <2>0, <2>9 DEF Lock!UnlinkLock
    <3>4. \A q \in Processes : locked'[q] # 0 <=> pc'[q] \in Lock!Holding
      BY <2>9 DEF Lock!UnlinkLock
    <3>5. LockPlaces'
      BY <2>9 DEF Lock!UnlinkLock
    <3> QED  BY ONLY <3>1, <3>2, <3>3, <3>4, <3>5 DEF Lock!TypeOK
  <2>10. CASE Lock!UnlinkPid(p)
    BY <2>0, <2>10 DEF Lock!UnlinkPid
  <2>11. CASE Lock!TrySecond(p)
    <3>1. /\ path' \in 0..MaxFiles /\ made' \in 0..MaxFiles /\ path' <= made'
          /\ locked' \in [Processes -> 0..made']
      BY <2>11 DEF Lock!TrySecond, Lock!Lock, Lock!Free
    <3>2. \A q, r \in Processes : locked'[q] = locked'[r] /\ locked'[q] # 0 => q = r
      BY <2>11 DEF Lock!TrySecond, Lock!Lock, Lock!Free
    <3>3. /\ pidFile' \in Lock!Ids /\ opened' \subseteq Processes
          /\ seen' \in [Processes -> Lock!Ids]
          /\ state' \in [Processes -> {"off", "running", "stopped", "dead"}]
          /\ pc' \in [Processes -> Lock!Places]
          /\ quiet' \subseteq Processes
      BY <2>0, <2>11 DEF Lock!TrySecond, Lock!Lock, Lock!Free
    <3>4. \A q \in Processes : locked'[q] # 0 <=> pc'[q] \in Lock!Holding
      BY <2>11 DEF Lock!TrySecond, Lock!Lock, Lock!Free
    <3>5. LockPlaces'
      BY <2>11 DEF Lock!TrySecond, Lock!Lock, Lock!Free
    <3> QED  BY ONLY <3>1, <3>2, <3>3, <3>4, <3>5 DEF Lock!TypeOK
  <2>12. CASE Lock!OpenPid(p)
    BY <2>0, <2>12 DEF Lock!OpenPid
  <2>13. CASE Lock!WritePid(p)
    BY <2>0, <2>13 DEF Lock!WritePid
  <2>14. CASE Lock!Leave(p)
    BY <2>0, <2>14 DEF Lock!Leave
  <2>15. CASE Lock!Unlock(p)
    <3>1. /\ path' \in 0..MaxFiles /\ made' \in 0..MaxFiles /\ path' <= made'
          /\ locked' \in [Processes -> 0..made']
      BY <2>15 DEF Lock!Unlock
    <3>2. \A q, r \in Processes : locked'[q] = locked'[r] /\ locked'[q] # 0 => q = r
      BY <2>15 DEF Lock!Unlock
    <3>3. /\ pidFile' \in Lock!Ids /\ opened' \subseteq Processes
          /\ seen' \in [Processes -> Lock!Ids]
          /\ state' \in [Processes -> {"off", "running", "stopped", "dead"}]
          /\ pc' \in [Processes -> Lock!Places]
          /\ quiet' \subseteq Processes
      BY <2>0, <2>15 DEF Lock!Unlock
    <3>4. \A q \in Processes : locked'[q] # 0 <=> pc'[q] \in Lock!Holding
      BY <2>15 DEF Lock!Unlock
    <3>5. LockPlaces'
      BY <2>15 DEF Lock!Unlock
    <3> QED  BY ONLY <3>1, <3>2, <3>3, <3>4, <3>5 DEF Lock!TypeOK
  <2>16. CASE Lock!RemovePid(p)
    BY <2>0, <2>16 DEF Lock!RemovePid
  <2> QED  BY ONLY <2>0, <2>1, <2>2, <2>3, <2>4, <2>5, <2>6, <2>7, <2>8, <2>9, <2>10, <2>11,
                <2>12, <2>13, <2>14, <2>15, <2>16
<1>2. CASE UNCHANGED lockVars
  BY <1>2 DEF lockVars
<1> QED  BY <1>1, <1>2

\* What a pid file holds instead of an id is no id, and no other such thing.
LEMMA PidFileContents ==
  /\ Lock!NoFile \notin Processes /\ Lock!Empty \notin Processes /\ Lock!Other \notin Processes
  /\ Lock!NoFile # Lock!Empty /\ Lock!NoFile # Lock!Other /\ Lock!Empty # Lock!Other
BY IdsAssumption DEF Lock!NoFile, Lock!Empty, Lock!Other

\* Who is quiet after a step had the lock before it, or takes it with it.
LEMMA NextQuiet ==
  LockInv /\ [Lock!Next]_lockVars => QuietHolds'
<1> SUFFICES ASSUME LockInv, Lock!Next, NEW p \in quiet'
             PROVE  HasPath(p)' /\ WritesId(p)' /\ OthersWait(p)'
  BY DEF lockVars, LockInv, QuietHolds, HasPath, WritesId, OthersWait, Refused, Lock!Gone
<1>1. PICK r \in Processes :
        /\ \/ Lock!Launch(r) \/ Lock!Stop(r) \/ Lock!Continue(r) \/ Lock!Die(r)
           \/ Lock!TryFirst(r) \/ Lock!LookForPid(r) \/ Lock!ReadPid(r) \/ Lock!CheckPid(r)
           \/ Lock!UnlinkLock(r) \/ Lock!UnlinkPid(r) \/ Lock!TrySecond(r)
           \/ Lock!OpenPid(r) \/ Lock!WritePid(r)
           \/ Lock!Leave(r) \/ Lock!Unlock(r) \/ Lock!RemovePid(r)
        /\ quiet' = Lock!Quiet
  BY DEF Lock!Next
<1>2. /\ p \in Processes /\ state'[p] = "running" /\ pc'[p] \in {"open", "write", "up"}
      /\ p \in quiet \/ pc[p] \notin Lock!Holding
      /\ pc'[p] = "up" \/ \A q \in Processes \ {p} : Lock!Gone(q)'
      /\ ~Lock!RemovedUnderReader
  BY <1>1 DEF Lock!Quiet
<1>3. Lock!TypeOK /\ LockPlaces /\ (p \in quiet => HasPath(p) /\ WritesId(p) /\ OthersWait(p))
  BY DEF LockInv, QuietHolds
<1> USE FilesAssumption, PidFileContents DEF Lock!TypeOK, LockPlaces, Lock!Places,
     Lock!Holding,
      Lock!At, Lock!Go, Lock!Gone, HasPath, WritesId, OthersWait, Refused
<1>4. CASE Lock!Launch(r)
  <2>1. HasPath(p)'
    BY <1>2, <1>3, <1>4 DEF Lock!Launch
  <2>2. WritesId(p)'
    BY <1>2, <1>3, <1>4 DEF Lock!Launch
  <2>3. OthersWait(p)'
    BY <1>2, <1>3, <1>4 DEF Lock!Launch
  <2> QED  BY ONLY <2>1, <2>2, <2>3
<1>5. CASE Lock!Stop(r)
  <2>1. HasPath(p)'
    BY <1>2, <1>3, <1>5 DEF Lock!Stop
  <2>2. WritesId(p)'
    BY <1>2, <1>3, <1>5 DEF Lock!Stop
  <2>3. OthersWait(p)'
    BY <1>2, <1>3, <1>5 DEF Lock!Stop
  <2> QED  BY ONLY <2>1, <2>2, <2>3
<1>6. CASE Lock!Continue(r)
  <2>1. HasPath(p)'
    BY <1>2, <1>3, <1>6 DEF Lock!Continue
  <2>2. WritesId(p)'
    BY <1>2, <1>3, <1>6 DEF Lock!Continue
  <2>3. OthersWait(p)'
    BY <1>2, <1>3, <1>6 DEF Lock!Continue
  <2> QED  BY ONLY <2>1, <2>2, <2>3
<1>7. CASE Lock!Die(r)
  <2>1. HasPath(p)'
    BY <1>2, <1>3, <1>7 DEF Lock!Die
  <2>2. WritesId(p)'
    BY <1>2, <1>3, <1>7 DEF Lock!Die
  <2>3. OthersWait(p)'
    BY <1>2, <1>3, <1>7 DEF Lock!Die
  <2> QED  BY ONLY <2>1, <2>2, <2>3
<1>8. CASE Lock!TryFirst(r)
  <2>1. HasPath(p)'
    BY <1>2, <1>3, <1>8 DEF Lock!TryFirst, Lock!Lock, Lock!Free
  <2>2. WritesId(p)'
    BY <1>2, <1>3, <1>8 DEF Lock!TryFirst, Lock!Lock, Lock!Free
  <2>3. OthersWait(p)'
    BY <1>2, <1>3, <1>8 DEF Lock!TryFirst, Lock!Lock, Lock!Free
  <2> QED  BY ONLY <2>1, <2>2, <2>3
<1>9. CASE Lock!LookForPid(r)
  <2>1. HasPath(p)'
    BY <1>2, <1>3, <1>9 DEF Lock!LookForPid
  <2>2. WritesId(p)'
    BY <1>2, <1>3, <1>9 DEF Lock!LookForPid
  <2>3. OthersWait(p)'
    BY <1>2, <1>3, <1>9 DEF Lock!LookForPid
  <2> QED  BY ONLY <2>1, <2>2, <2>3
<1>10. CASE Lock!ReadPid(r)
  <2>1. HasPath(p)'
    BY <1>2, <1>3, <1>10 DEF Lock!ReadPid
  <2>2. WritesId(p)'
    BY <1>2, <1>3, <1>10 DEF Lock!ReadPid
  <2>3. OthersWait(p)'
    BY <1>2, <1>3, <1>10 DEF Lock!ReadPid
  <2> QED  BY ONLY <2>1, <2>2, <2>3
<1>11. CASE Lock!CheckPid(r)
  <2>1. HasPath(p)'
    BY <1>2, <1>3, <1>11 DEF Lock!CheckPid, Lock!ShouldBreak
  <2>2. WritesId(p)'
    BY <1>2, <1>3, <1>11 DEF Lock!CheckPid, Lock!ShouldBreak
  <2>3. OthersWait(p)'
    BY <1>2, <1>3, <1>11 DEF Lock!CheckPid, Lock!ShouldBreak
  <2> QED  BY ONLY <2>1, <2>2, <2>3
<1>12. CASE Lock!UnlinkLock(r)
  <2>1. HasPath(p)'
    BY <1>2, <1>3, <1>12 DEF Lock!UnlinkLock
  <2>2. WritesId(p)'
    BY <1>2, <1>3, <1>12 DEF Lock!UnlinkLock
  <2>3. OthersWait(p)'
    BY <1>2, <1>3, <1>12 DEF Lock!UnlinkLock
  <2> QED  BY ONLY <2>1, <2>2, <2>3
<1>13. CASE Lock!UnlinkPid(r)
  <2>1. HasPath(p)'
    BY <1>2, <1>3, <1>13 DEF Lock!UnlinkPid
  <2>2. WritesId(p)'
    BY <1>2, <1>3, <1>13 DEF Lock!UnlinkPid
  <2>3. OthersWait(p)'
    BY <1>2, <1>3, <1>13 DEF Lock!UnlinkPid
  <2> QED  BY ONLY <2>1, <2>2, <2>3
<1>14. CASE Lock!TrySecond(r)
  <2>1. HasPath(p)'
    BY <1>2, <1>3, <1>14 DEF Lock!TrySecond, Lock!Lock, Lock!Free
  <2>2. WritesId(p)'
    BY <1>2, <1>3, <1>14 DEF Lock!TrySecond, Lock!Lock, Lock!Free
  <2>3. OthersWait(p)'
    BY <1>2, <1>3, <1>14 DEF Lock!TrySecond, Lock!Lock, Lock!Free
  <2> QED  BY ONLY <2>1, <2>2, <2>3
<1>15. CASE Lock!OpenPid(r)
  <2>1. HasPath(p)'
    BY <1>2, <1>3, <1>15 DEF Lock!OpenPid
  <2>2. WritesId(p)'
    BY <1>2, <1>3, <1>15 DEF Lock!OpenPid
  <2>3. OthersWait(p)'
    BY <1>2, <1>3, <1>15 DEF Lock!OpenPid
  <2> QED  BY ONLY <2>1, <2>2, <2>3
<1>16. CASE Lock!WritePid(r)
  <2>1. HasPath(p)'
    BY <1>2, <1>3, <1>16 DEF Lock!WritePid
  <2>2. WritesId(p)'
    BY <1>2, <1>3, <1>16 DEF Lock!WritePid
  <2>3. OthersWait(p)'
    BY <1>2, <1>3, <1>16 DEF Lock!WritePid
  <2> QED  BY ONLY <2>1, <2>2, <2>3
<1>17. CASE Lock!Leave(r)
  <2>1. HasPath(p)'
    BY <1>2, <1>3, <1>17 DEF Lock!Leave
  <2>2. WritesId(p)'
    BY <1>2, <1>3, <1>17 DEF Lock!Leave
  <2>3. OthersWait(p)'
    BY <1>2, <1>3, <1>17 DEF Lock!Leave
  <2> QED  BY ONLY <2>1, <2>2, <2>3
<1>18. CASE Lock!Unlock(r)
  <2>1. HasPath(p)'
    BY <1>2, <1>3, <1>18 DEF Lock!Unlock
  <2>2. WritesId(p)'
    BY <1>2, <1>3, <1>18 DEF Lock!Unlock
  <2>3. OthersWait(p)'
    BY <1>2, <1>3, <1>18 DEF Lock!Unlock
  <2> QED  BY ONLY <2>1, <2>2, <2>3
<1>19. CASE Lock!RemovePid(r)
  <2>1. HasPath(p)'
    BY <1>2, <1>3, <1>19 DEF Lock!RemovePid, Lock!RemovedUnderReader
  <2>2. WritesId(p)'
    BY <1>2, <1>3, <1>19 DEF Lock!RemovePid, Lock!RemovedUnderReader
  <2>3. OthersWait(p)'
    BY <1>2, <1>3, <1>19 DEF Lock!RemovePid, Lock!RemovedUnderReader
  <2> QED  BY ONLY <2>1, <2>2, <2>3
<1> QED  BY ONLY <1>1, <1>4, <1>5, <1>6, <1>7, <1>8, <1>9, <1>10, <1>11, <1>12, <1>13,
     <1>14, <1>15, <1>16, <1>17, <1>18, <1>19

LEMMA NextLock == LockInv /\ [Lock!Next]_lockVars => LockInv'
BY NextLockType, NextQuiet DEF LockInv

\* Whoever else is up would hold the same file.
LEMMA LockIsSafe == LockInv => OneInstance
BY DEF LockInv, QuietHolds, HasPath, OthersWait, Refused, OneInstance, Lock!QuietIsAlone,
   Lock!TypeOK,
   Lock!Up, Lock!At, Lock!Gone, Lock!Holding, LockPlaces

-----------------------------------------------------------------------------
(* SecretStore.  What is expected of the store is in it, and what the one  *)
(* operation on the file of Windows has read is what the file holds.       *)

SecretTypes ==
  /\ Secret!TypeOK /\ nextKey \in Nat \ {0}
  /\ collided \in BOOLEAN /\ unread \in BOOLEAN
  /\ \A t \in Threads : op[t] # None =>
       /\ op[t].kind = "store" <=> op[t].key # None
       /\ op[t].read => keyring = "win32_dpapi"

\* Encrypted audio is on disk between its key's acknowledgement and its deletion.
AudioHasKey ==
  /\ keyring = "unavailable" => want = Secret!Empty
  /\ \A r \in audio : want[r] # None
  /\ \A r \in Recordings, t \in Threads : op[t] # None /\ op[t].account = r =>
       /\ want[r] = None
       /\ \A u \in Threads : op[u] # None /\ op[u].account = r => u = t

KeysAgree == \A a \in Secret!Accounts : want[a] # None => stored[a] = want[a]

ReaderIsAlone == \A t \in Threads : Secret!Reading(t) =>
  /\ read[t] = stored
  /\ \A u \in Threads : Secret!Reading(u) => u = t

SecretInv ==
  /\ SecretTypes /\ AudioHasKey
  /\ collided \/ unread \/ (KeysAgree /\ ReaderIsAlone)

LEMMA InitSecret == Secret!Init => SecretInv
<1> SUFFICES ASSUME Secret!Init PROVE SecretInv
  OBVIOUS
<1> USE KeysAssumption DEF Secret!Init
<1>1. Secret!Empty \in Secret!Stores
  BY DEF Secret!Empty, Secret!Stores
<1>5. /\ keyring \in Secret!Backends /\ stored \in Secret!Stores /\ want \in Secret!Stores
      /\ read \in [Threads -> Secret!Stores] /\ audio \subseteq Recordings
      /\ op \in [Threads -> Secret!Ops \cup {None}]
  BY <1>1
<1>6. \A t \in Threads : op[t] = None
  OBVIOUS
<1>7. /\ keyring = "unavailable" => stored = Secret!Empty /\ audio = {}
  OBVIOUS
<1>8. nextKey \in Nat \ {0}
  OBVIOUS
<1>9. collided \in BOOLEAN /\ unread \in BOOLEAN
  OBVIOUS
<1>2. SecretTypes
  BY ONLY <1>5, <1>6, <1>7, <1>8, <1>9 DEF SecretTypes, Secret!TypeOK
<1>3. AudioHasKey
  BY DEF AudioHasKey
<1>4. KeysAgree /\ ReaderIsAlone
  BY DEF KeysAgree, ReaderIsAlone, Secret!Reading, Secret!Empty
<1> QED  BY <1>2, <1>3, <1>4 DEF SecretInv

LEMMA NextSecretTypes ==
  SecretTypes /\ AudioHasKey /\ [Secret!Next]_secretVars => SecretTypes'
<1> SUFFICES ASSUME SecretTypes, AudioHasKey, [Secret!Next]_secretVars PROVE SecretTypes'
  OBVIOUS
<1> USE AccountsAssumption, KeysAssumption DEF SecretTypes, Secret!TypeOK, Secret!Stores,
      Secret!Ops, Secret!Accounts, Secret!Keys, Secret!Done, Secret!Acknowledged,
      Secret!Empty, AudioHasKey
<1>1. ASSUME NEW t \in Threads, NEW a \in Secret!Accounts, Secret!AskStore(t, a) PROVE SecretTypes'
  BY <1>1 DEF Secret!AskStore
<1>2. ASSUME NEW t \in Threads, NEW a \in Providers, Secret!AskDelete(t, a) PROVE SecretTypes'
  BY <1>2 DEF Secret!AskDelete
<1>3. ASSUME NEW t \in Threads, NEW a \in Recordings, Secret!DeleteRecovered(t, a) PROVE SecretTypes'
  BY <1>3 DEF Secret!DeleteRecovered
<1>4. ASSUME NEW a \in Recordings, Secret!WriteAudio(a) PROVE SecretTypes'
  BY <1>4 DEF Secret!WriteAudio, Secret!Changed, Secret!Reading
<1>5. ASSUME NEW t \in Threads, Secret!RunCommand(t) PROVE SecretTypes'
  BY <1>5 DEF Secret!RunCommand
<1>6. ASSUME NEW t \in Threads, Secret!CommandFails(t) PROVE SecretTypes'
  BY <1>6 DEF Secret!CommandFails
<1>7. ASSUME NEW t \in Threads, Secret!ReadFile(t) PROVE SecretTypes'
  <2>1. /\ stored' \in Secret!Stores /\ want' \in Secret!Stores /\ audio' \subseteq Recordings
        /\ nextKey' \in Nat \ {0} /\ collided' \in BOOLEAN /\ unread' \in BOOLEAN
        /\ keyring' = "win32_dpapi" /\ keyring' \in Secret!Backends
    BY <1>7 DEF Secret!ReadFile, Secret!Backends
  <2>2. read' \in [Threads -> Secret!Stores]
    BY <1>7 DEF Secret!ReadFile, Secret!Empty
  <2>3. op[t] \in Secret!Ops /\ op' = [op EXCEPT ![t].read = TRUE]
    BY <1>7 DEF Secret!ReadFile
  <2>6. op[t] # None /\ op'[t] = [op[t] EXCEPT !.read = TRUE]
    BY <1>7, <2>3 DEF Secret!ReadFile
  <2>5. /\ op'[t] \in Secret!Ops /\ op'[t].kind = op[t].kind /\ op'[t].key = op[t].key
        /\ \A u \in Threads \ {t} : op'[u] = op[u]
        /\ op[t] # None
    BY ONLY <2>3, <2>6, op \in [Threads -> Secret!Ops \cup {None}] DEF Secret!Ops
  <2>4. /\ op' \in [Threads -> Secret!Ops \cup {None}]
        /\ \A u \in Threads : op'[u] # None =>
             /\ op'[u].kind = "store" <=> op'[u].key # None
             /\ op'[u].read => keyring' = "win32_dpapi"
    BY ONLY <2>1, <2>3, <2>5, SecretTypes DEF SecretTypes, Secret!TypeOK
  <2> QED  BY ONLY <2>1, <2>2, <2>4 DEF SecretTypes, Secret!TypeOK
<1>8. ASSUME NEW t \in Threads, Secret!WriteFile(t) PROVE SecretTypes'
  BY <1>8 DEF Secret!WriteFile, Secret!Changed, Secret!Reading
<1>9. ASSUME NEW t \in Threads, Secret!WriteFails(t) PROVE SecretTypes'
  BY <1>9 DEF Secret!WriteFails, Secret!Changed, Secret!Reading
<1>10. CASE Secret!Crash
  BY <1>10 DEF Secret!Crash
<1>11. CASE UNCHANGED secretVars
  BY <1>11 DEF secretVars
<1> QED  BY ONLY [Secret!Next]_secretVars, <1>1, <1>2, <1>3, <1>4, <1>5, <1>6, <1>7, <1>8,
     <1>9, <1>10, <1>11 DEF Secret!Next

LEMMA NextAudio ==
  SecretTypes /\ AudioHasKey /\ [Secret!Next]_secretVars => AudioHasKey'
<1> SUFFICES ASSUME SecretTypes, AudioHasKey, [Secret!Next]_secretVars PROVE AudioHasKey'
  OBVIOUS
<1> USE AccountsAssumption, KeysAssumption DEF SecretTypes, Secret!TypeOK, Secret!Stores,
      Secret!Ops, Secret!Accounts, Secret!Keys, Secret!Done, Secret!Acknowledged,
      AudioHasKey, Secret!Empty
<1>1. ASSUME NEW t \in Threads, NEW a \in Secret!Accounts, Secret!AskStore(t, a) PROVE AudioHasKey'
  BY <1>1 DEF Secret!AskStore, Secret!Pending
<1>2. ASSUME NEW t \in Threads, NEW a \in Providers, Secret!AskDelete(t, a) PROVE AudioHasKey'
  <2>1. want = Secret!Empty => want' = Secret!Empty
    BY <1>2 DEF Secret!AskDelete
  <2>2. \A r \in Recordings : want'[r] = want[r] /\ r # a
    BY <1>2 DEF Secret!AskDelete
  <2>3. \A u \in Threads, r \in Recordings :
          op'[u] # None /\ op'[u].account = r => op[u] # None /\ op[u].account = r
    BY <1>2, <2>2 DEF Secret!AskDelete
  <2> QED  BY <1>2, <2>1, <2>2, <2>3 DEF Secret!AskDelete
<1>3. ASSUME NEW t \in Threads, NEW a \in Recordings, Secret!DeleteRecovered(t, a) PROVE AudioHasKey'
  BY <1>3 DEF Secret!DeleteRecovered
<1>4. ASSUME NEW a \in Recordings, Secret!WriteAudio(a) PROVE AudioHasKey'
  BY <1>4 DEF Secret!WriteAudio
<1>5. ASSUME NEW t \in Threads, Secret!RunCommand(t) PROVE AudioHasKey'
  BY <1>5 DEF Secret!RunCommand
<1>6. ASSUME NEW t \in Threads, Secret!CommandFails(t) PROVE AudioHasKey'
  BY <1>6 DEF Secret!CommandFails
<1>7. ASSUME NEW t \in Threads, Secret!ReadFile(t) PROVE AudioHasKey'
  BY <1>7 DEF Secret!ReadFile
<1>8. ASSUME NEW t \in Threads, Secret!WriteFile(t) PROVE AudioHasKey'
  BY <1>8 DEF Secret!WriteFile, Secret!Reading
<1>9. ASSUME NEW t \in Threads, Secret!WriteFails(t) PROVE AudioHasKey'
  BY <1>9 DEF Secret!WriteFails, Secret!Reading
<1>10. CASE Secret!Crash
  BY <1>10 DEF Secret!Crash
<1>11. CASE UNCHANGED secretVars
  BY <1>11 DEF secretVars
<1> QED  BY ONLY [Secret!Next]_secretVars, <1>1, <1>2, <1>3, <1>4, <1>5, <1>6, <1>7, <1>8,
     <1>9, <1>10, <1>11 DEF Secret!Next

LEMMA NextKeys ==
  SecretTypes /\ AudioHasKey /\ KeysAgree /\ ReaderIsAlone /\ ~(collided \/ unread)' /\ [Secret!Next]_secretVars => (KeysAgree /\ ReaderIsAlone)'
<1> SUFFICES ASSUME SecretTypes, AudioHasKey, KeysAgree, ReaderIsAlone, ~(collided \/ unread)', [Secret!Next]_secretVars PROVE (KeysAgree /\ ReaderIsAlone)'
  OBVIOUS
<1> USE AccountsAssumption, KeysAssumption DEF SecretTypes, Secret!TypeOK, Secret!Stores,
      Secret!Ops, Secret!Accounts, Secret!Keys, Secret!Done, Secret!Acknowledged,
      KeysAgree, ReaderIsAlone, Secret!Reading
<1>1. ASSUME NEW t \in Threads, NEW a \in Secret!Accounts, Secret!AskStore(t, a) PROVE (KeysAgree /\ ReaderIsAlone)'
  BY <1>1 DEF Secret!AskStore
<1>2. ASSUME NEW t \in Threads, NEW a \in Providers, Secret!AskDelete(t, a) PROVE (KeysAgree /\ ReaderIsAlone)'
  BY <1>2 DEF Secret!AskDelete
<1>3. ASSUME NEW t \in Threads, NEW a \in Recordings, Secret!DeleteRecovered(t, a) PROVE (KeysAgree /\ ReaderIsAlone)'
  BY <1>3 DEF Secret!DeleteRecovered
<1>4. ASSUME NEW a \in Recordings, Secret!WriteAudio(a) PROVE (KeysAgree /\ ReaderIsAlone)'
  BY <1>4 DEF Secret!WriteAudio
<1>5. ASSUME NEW t \in Threads, Secret!RunCommand(t) PROVE (KeysAgree /\ ReaderIsAlone)'
  BY <1>5 DEF Secret!RunCommand
<1>6. ASSUME NEW t \in Threads, Secret!CommandFails(t) PROVE (KeysAgree /\ ReaderIsAlone)'
  BY <1>6 DEF Secret!CommandFails
<1>7. ASSUME NEW t \in Threads, Secret!ReadFile(t) PROVE (KeysAgree /\ ReaderIsAlone)'
  BY <1>7 DEF Secret!ReadFile
<1>8. ASSUME NEW t \in Threads, Secret!WriteFile(t) PROVE (KeysAgree /\ ReaderIsAlone)'
  BY <1>8 DEF Secret!WriteFile, Secret!Changed
<1>9. ASSUME NEW t \in Threads, Secret!WriteFails(t) PROVE (KeysAgree /\ ReaderIsAlone)'
  BY <1>9 DEF Secret!WriteFails, Secret!Changed
<1>10. CASE Secret!Crash
  BY <1>10 DEF Secret!Crash
<1>11. CASE UNCHANGED secretVars
  BY <1>11 DEF secretVars
<1> QED  BY ONLY [Secret!Next]_secretVars, <1>1, <1>2, <1>3, <1>4, <1>5, <1>6, <1>7, <1>8,
     <1>9, <1>10, <1>11 DEF Secret!Next

LEMMA NextSecret == SecretInv /\ [Secret!Next]_secretVars => SecretInv'
<1> SUFFICES ASSUME SecretInv, [Secret!Next]_secretVars PROVE SecretInv'
  OBVIOUS
<1>1. SecretTypes' /\ AudioHasKey'
  BY NextSecretTypes, NextAudio DEF SecretInv
<1>2. collided \/ unread => collided' \/ unread'
  BY DEF Secret!Next, Secret!AskStore, Secret!AskDelete, Secret!DeleteRecovered,
    Secret!WriteAudio, Secret!RunCommand, Secret!CommandFails, Secret!ReadFile,
    Secret!WriteFile, Secret!WriteFails, Secret!Crash, secretVars
<1>3. ~(collided \/ unread)' => (KeysAgree /\ ReaderIsAlone)'
  BY <1>2, NextKeys DEF SecretInv
<1> QED  BY <1>1, <1>3 DEF SecretInv

-----------------------------------------------------------------------------
(* Settings.  While updates do not overlap, the one that is on its way has *)
(* merged its field into what memory and file hold, and the copies follow  *)
(* step by step; an old key leaves the file after it left for the store.   *)

SettingTypes ==
  /\ Setting!TypeOK
  /\ merged \in [Updaters -> [Fields -> Setting!Values]] /\ field \in [Updaters -> Fields]
  /\ change \in [Fields -> Setting!Values] /\ next \in Nat
  /\ old \subseteq Legacy /\ overlapped \in BOOLEAN /\ damaged \in BOOLEAN /\ fellBack \in BOOLEAN
  /\ secret \in [{Accounts[s] : s \in Legacy} -> Legacy \cup {None}]
  /\ ~damaged => disk # Damaged

Followers == used = memory /\ shown = memory /\ chord = memory[Hotkey]
FileIsMemory == disk # Damaged => disk.fields = memory

OneUpdate ==
  /\ phase # "load" /\ Setting!Idle => Followers /\ FileIsMemory
  /\ \A u \in Updaters : step[u] # "idle" =>
       /\ \A v \in Updaters \ {u} : step[v] = "idle"
       /\ step[u] \in {"read", "backed"} =>
            /\ Followers /\ FileIsMemory
            /\ \A f \in Fields \ {field[u]} : merged[u][f] = memory[f]
       /\ step[u] \in {"written", "cached", "published"} => disk = Setting!File(merged[u])
       /\ step[u] = "written" => Followers
       /\ step[u] \in {"cached", "published"} => memory = merged[u]
       /\ step[u] = "published" => used = memory /\ shown = memory

Moved(s) == secret[Accounts[s]] # None \/ s \in refused
KeysMove ==
  /\ \A s \in old : s \in disk.keys \/ Moved(s)
  /\ phase \in {"migrate", "save"} => \A s \in disk.keys \ todo : Moved(s)
  /\ phase = "save" => todo = {}

SettingInv ==
  /\ SettingTypes
  /\ overlapped \/ OneUpdate
  /\ overlapped \/ damaged \/ disk.fields = change
  /\ damaged \/ fellBack \/ KeysMove

\* A saved file reads back as what was saved.
LEMMA FilesRead ==
  /\ \A g \in [Fields -> Setting!Values] :
       /\ Setting!File(g) \in Setting!Files /\ Setting!File(g) # Damaged
       /\ Setting!File(g).fields = g /\ Setting!File(g).keys = {}
  /\ \A d \in Setting!Files \ {Damaged} :
       d.fields \in [Fields -> Setting!Values] /\ d.keys \subseteq Legacy
<1>1. ASSUME NEW g \in [Fields -> Setting!Values]
      PROVE  /\ Setting!File(g) \in Setting!Files
             /\ Setting!File(g).fields = g /\ Setting!File(g).keys = {}
  BY DEF Setting!File, Setting!Files
<1>2. ASSUME NEW g \in [Fields -> Setting!Values] PROVE Setting!File(g) # Damaged
  <2>1. Setting!File(g) \in
          [fields : [Fields -> 0..MaxValue], keys : SUBSET Legacy, gone : BOOLEAN]
    BY DEF Setting!File, Setting!Values
  <2> QED  BY <2>1, SettingsAssumption
<1>3. ASSUME NEW d \in Setting!Files \ {Damaged}
      PROVE  d.fields \in [Fields -> Setting!Values] /\ d.keys \subseteq Legacy
  BY DEF Setting!Files
<1> QED  BY <1>1, <1>2, <1>3

LEMMA InitSetting == Setting!Init => SettingInv
<1> SUFFICES ASSUME Setting!Init PROVE SettingInv
  OBVIOUS
<1> USE SettingsAssumption DEF Setting!Init
<1>1. Setting!Defaults \in [Fields -> Setting!Values] /\ 0 \in Setting!Values
  BY DEF Setting!Defaults, Setting!Values
<1>6. disk \in Setting!Files /\ disk # Damaged
  BY <1>1 DEF Setting!Files, Setting!Values
<1>7. /\ memory \in [Fields -> Setting!Values] /\ used \in [Fields -> Setting!Values]
      /\ shown \in [Fields -> Setting!Values] /\ chord \in Setting!Values
      /\ merged \in [Updaters -> [Fields -> Setting!Values]]
      /\ field \in [Updaters -> Fields] /\ change \in [Fields -> Setting!Values]
      /\ old \subseteq Legacy /\ next \in Nat
  BY <1>1
<1>8. /\ step \in [Updaters -> {"idle", "read", "backed", "written", "cached", "published"}]
      /\ Setting!Idle
  BY DEF Setting!Idle
<1>9. /\ bak = None /\ phase = "load" /\ todo = {} /\ refused = {}
      /\ overlapped = FALSE /\ damaged = FALSE /\ fellBack = FALSE
      /\ secret \in [{Accounts[x] : x \in Legacy} -> Legacy \cup {None}]
  OBVIOUS
<1>2. SettingTypes
  BY ONLY <1>6, <1>7, <1>8, <1>9 DEF SettingTypes, Setting!TypeOK
<1>3. OneUpdate
  BY DEF OneUpdate
<1>4. disk.fields = change
  OBVIOUS
<1>5. KeysMove
  BY DEF KeysMove
<1> QED  BY <1>2, <1>3, <1>4, <1>5 DEF SettingInv

LEMMA NextSettingTypes ==
  SettingTypes /\ [Setting!Next]_settingsVars => SettingTypes'
<1> SUFFICES ASSUME SettingTypes, [Setting!Next]_settingsVars PROVE SettingTypes'
  OBVIOUS
<1> USE SettingsAssumption DEF SettingTypes, Setting!TypeOK, Setting!Values, Setting!Files,
      Setting!File, Setting!Idle, Setting!Defaults
<1>1. CASE Setting!Load
  <2>1. Setting!Defaults \in [Fields -> Setting!Values]
    BY DEF Setting!Defaults, Setting!Values
  <2>2. memory' \in [Fields -> Setting!Values]
    BY ONLY <1>1, <2>1, FilesRead, disk \in Setting!Files DEF Setting!Load
  <2>3. /\ used' = memory' /\ shown' = memory' /\ chord' \in Setting!Values
        /\ phase' \in {"load", "migrate", "save", "up"}
    BY <1>1, <2>2 DEF Setting!Load
  <2>4. /\ disk' \in Setting!Files /\ bak' \in Setting!Files \cup {None}
        /\ disk' = Damaged <=> disk = Damaged
    BY ONLY <1>1, <2>2, FilesRead, disk \in Setting!Files, bak \in Setting!Files \cup {None}
       DEF Setting!Load
  <2>8. fellBack' \in BOOLEAN
    BY <1>1 DEF Setting!Load
  <2>6. todo' \subseteq Legacy
    BY ONLY <1>1, FilesRead, disk \in Setting!Files DEF Setting!Load
  <2>7. phase' = "up" /\ disk' # Damaged => disk'.keys = {}
    BY ONLY <1>1, <2>2, FilesRead DEF Setting!Load
  <2>5. Setting!Idle'
    BY <1>1 DEF Setting!Load, Setting!Idle
  <2> QED  BY ONLY <1>1, <2>2, <2>3, <2>4, <2>5, <2>6, <2>7, <2>8,
           SettingTypes
           DEF Setting!Load, SettingTypes, Setting!TypeOK
<1>2. CASE Setting!SaveMigrated
  BY ONLY <1>2, FilesRead, SettingTypes
     DEF Setting!SaveMigrated, SettingTypes, Setting!TypeOK, Setting!Idle
<1>3. CASE Setting!Dies
  BY <1>3 DEF Setting!Dies, Setting!Fail
<1>4. CASE Setting!Damage
  BY <1>4 DEF Setting!Damage, Setting!Fail
<1>5. ASSUME NEW s \in Legacy, Setting!MoveKey(s) PROVE SettingTypes'
  BY <1>5 DEF Setting!MoveKey, Setting!Fail
<1>6. ASSUME NEW u \in Updaters, Setting!Update(u) PROVE SettingTypes'
  BY <1>6 DEF Setting!Update, Setting!Merge
<1>7. ASSUME NEW u \in Updaters, Setting!Backup(u) PROVE SettingTypes'
  BY <1>7 DEF Setting!Backup
<1>8. ASSUME NEW u \in Updaters, Setting!Replace(u) PROVE SettingTypes'
  <2>1. /\ disk' \in Setting!Files /\ disk' # Damaged /\ disk'.keys = {}
        /\ merged[u][field[u]] \in Setting!Values
    BY ONLY <1>8, FilesRead, SettingTypes DEF Setting!Replace, SettingTypes, Setting!TypeOK
  <2> QED  BY ONLY <1>8, <2>1, SettingTypes
           DEF Setting!Replace, SettingTypes, Setting!TypeOK, Setting!Idle
<1>9. ASSUME NEW u \in Updaters, Setting!ReplaceFails(u) PROVE SettingTypes'
  BY <1>9 DEF Setting!ReplaceFails, Setting!Fail
<1>10. ASSUME NEW u \in Updaters, Setting!Cache(u) PROVE SettingTypes'
  BY <1>10 DEF Setting!Cache
<1>11. ASSUME NEW u \in Updaters, Setting!Publish(u) PROVE SettingTypes'
  BY <1>11 DEF Setting!Publish
<1>12. ASSUME NEW u \in Updaters, Setting!Reload(u) PROVE SettingTypes'
  BY <1>12 DEF Setting!Reload
<1>13. CASE UNCHANGED settingsVars
  BY <1>13 DEF settingsVars
<1> QED  BY ONLY [Setting!Next]_settingsVars, <1>1, <1>2, <1>3, <1>4, <1>5, <1>6, <1>7,
        <1>8, <1>9, <1>10, <1>11, <1>12, <1>13 DEF Setting!Next

LEMMA NextOneUpdate ==
  SettingTypes /\ OneUpdate /\ ~overlapped' /\ [Setting!Next]_settingsVars => OneUpdate'
<1> SUFFICES ASSUME SettingTypes, OneUpdate, ~overlapped', [Setting!Next]_settingsVars PROVE OneUpdate'
  OBVIOUS
<1> USE SettingsAssumption DEF SettingTypes, Setting!TypeOK, Setting!Values, Setting!Files,
      Setting!File, Setting!Idle, Setting!Defaults, OneUpdate, Followers, FileIsMemory
<1>1. CASE Setting!Load
  BY <1>1 DEF Setting!Load
<1>2. CASE Setting!SaveMigrated
  BY <1>2 DEF Setting!SaveMigrated
<1>3. CASE Setting!Dies
  BY <1>3 DEF Setting!Dies, Setting!Fail
<1>4. CASE Setting!Damage
  BY <1>4 DEF Setting!Damage, Setting!Fail
<1>5. ASSUME NEW s \in Legacy, Setting!MoveKey(s) PROVE OneUpdate'
  BY <1>5 DEF Setting!MoveKey, Setting!Fail
<1>6. ASSUME NEW u \in Updaters, Setting!Update(u) PROVE OneUpdate'
  <2>1. Setting!Idle /\ Followers /\ FileIsMemory
    BY <1>6 DEF Setting!Update
  <2>2. Followers' /\ FileIsMemory'
    BY ONLY <1>6, <2>1 DEF Setting!Update, Followers, FileIsMemory
  <2>3. PICK f \in Fields : /\ field' = [field EXCEPT ![u] = f]
                            /\ merged' = [merged EXCEPT ![u] = [memory EXCEPT ![f] = next]]
    BY <1>6 DEF Setting!Update, Setting!Merge
  <2>4. field'[u] = f /\ \A g \in Fields \ {f} : merged'[u][g] = memory'[g]
    BY <1>6, <2>3 DEF Setting!Update
  <2>5. step'[u] = "read" /\ \A v \in Updaters \ {u} : step'[v] = "idle"
    BY <1>6, <2>1 DEF Setting!Update
  <2> QED  BY ONLY <2>2, <2>4, <2>5 DEF OneUpdate, Setting!Idle
<1>7. ASSUME NEW u \in Updaters, Setting!Backup(u) PROVE OneUpdate'
  BY <1>7 DEF Setting!Backup
<1>8. ASSUME NEW u \in Updaters, Setting!Replace(u) PROVE OneUpdate'
  BY <1>8 DEF Setting!Replace
<1>9. ASSUME NEW u \in Updaters, Setting!ReplaceFails(u) PROVE OneUpdate'
  BY <1>9 DEF Setting!ReplaceFails, Setting!Fail
<1>10. ASSUME NEW u \in Updaters, Setting!Cache(u) PROVE OneUpdate'
  BY <1>10 DEF Setting!Cache
<1>11. ASSUME NEW u \in Updaters, Setting!Publish(u) PROVE OneUpdate'
  BY <1>11 DEF Setting!Publish
<1>12. ASSUME NEW u \in Updaters, Setting!Reload(u) PROVE OneUpdate'
  BY <1>12 DEF Setting!Reload
<1>13. CASE UNCHANGED settingsVars
  BY <1>13 DEF settingsVars
<1> QED  BY ONLY [Setting!Next]_settingsVars, <1>1, <1>2, <1>3, <1>4, <1>5, <1>6, <1>7,
        <1>8, <1>9, <1>10, <1>11, <1>12, <1>13 DEF Setting!Next

LEMMA NextSaved ==
  SettingTypes /\ OneUpdate /\ ~overlapped' /\ ~damaged' /\ disk.fields = change /\ [Setting!Next]_settingsVars => disk'.fields = change'
<1> SUFFICES ASSUME SettingTypes, OneUpdate, ~overlapped', ~damaged', disk.fields = change, [Setting!Next]_settingsVars PROVE disk'.fields = change'
  OBVIOUS
<1> USE SettingsAssumption DEF SettingTypes, Setting!TypeOK, Setting!Values, Setting!Files,
      Setting!File, Setting!Idle, Setting!Defaults, OneUpdate, Followers, FileIsMemory
<1>1. CASE Setting!Load
  BY <1>1 DEF Setting!Load
<1>2. CASE Setting!SaveMigrated
  BY <1>2 DEF Setting!SaveMigrated
<1>3. CASE Setting!Dies
  BY <1>3 DEF Setting!Dies, Setting!Fail
<1>4. CASE Setting!Damage
  BY <1>4 DEF Setting!Damage, Setting!Fail
<1>5. ASSUME NEW s \in Legacy, Setting!MoveKey(s) PROVE disk'.fields = change'
  BY <1>5 DEF Setting!MoveKey, Setting!Fail
<1>6. ASSUME NEW u \in Updaters, Setting!Update(u) PROVE disk'.fields = change'
  BY <1>6 DEF Setting!Update, Setting!Merge
<1>7. ASSUME NEW u \in Updaters, Setting!Backup(u) PROVE disk'.fields = change'
  BY <1>7 DEF Setting!Backup
<1>8. ASSUME NEW u \in Updaters, Setting!Replace(u) PROVE disk'.fields = change'
  BY <1>8 DEF Setting!Replace
<1>9. ASSUME NEW u \in Updaters, Setting!ReplaceFails(u) PROVE disk'.fields = change'
  BY <1>9 DEF Setting!ReplaceFails, Setting!Fail
<1>10. ASSUME NEW u \in Updaters, Setting!Cache(u) PROVE disk'.fields = change'
  BY <1>10 DEF Setting!Cache
<1>11. ASSUME NEW u \in Updaters, Setting!Publish(u) PROVE disk'.fields = change'
  BY <1>11 DEF Setting!Publish
<1>12. ASSUME NEW u \in Updaters, Setting!Reload(u) PROVE disk'.fields = change'
  BY <1>12 DEF Setting!Reload
<1>13. CASE UNCHANGED settingsVars
  BY <1>13 DEF settingsVars
<1> QED  BY ONLY [Setting!Next]_settingsVars, <1>1, <1>2, <1>3, <1>4, <1>5, <1>6, <1>7,
        <1>8, <1>9, <1>10, <1>11, <1>12, <1>13 DEF Setting!Next

LEMMA NextKeysMove ==
  SettingTypes /\ KeysMove /\ ~damaged' /\ ~fellBack' /\ [Setting!Next]_settingsVars => KeysMove'
<1> SUFFICES ASSUME SettingTypes, KeysMove, ~damaged', ~fellBack', [Setting!Next]_settingsVars PROVE KeysMove'
  OBVIOUS
<1> USE SettingsAssumption DEF SettingTypes, Setting!TypeOK, Setting!Values, Setting!Files,
      Setting!File, Setting!Idle, Setting!Defaults, KeysMove, Moved
<1>1. CASE Setting!Load
  BY <1>1 DEF Setting!Load
<1>2. CASE Setting!SaveMigrated
  BY <1>2 DEF Setting!SaveMigrated
<1>3. CASE Setting!Dies
  BY <1>3 DEF Setting!Dies, Setting!Fail
<1>4. CASE Setting!Damage
  BY <1>4 DEF Setting!Damage, Setting!Fail
<1>5. ASSUME NEW s \in Legacy, Setting!MoveKey(s) PROVE KeysMove'
  <2>1. \A r \in Legacy : Moved(r) => Moved(r)'
    BY <1>5 DEF Setting!MoveKey, Setting!Fail
  <2>2. Moved(s)'
    BY <1>5 DEF Setting!MoveKey, Setting!Fail
  <2>3. /\ disk' = disk /\ old' = old /\ todo' = todo \ {s} /\ phase = "migrate"
        /\ phase' = IF todo' = {} THEN "save" ELSE "migrate"
    BY <1>5 DEF Setting!MoveKey
  <2>4. old \subseteq Legacy /\ disk.keys \subseteq Legacy
    BY <1>5, FilesRead DEF Setting!MoveKey
  <2> QED  BY ONLY KeysMove, <2>1, <2>2, <2>3, <2>4 DEF KeysMove
<1>6. ASSUME NEW u \in Updaters, Setting!Update(u) PROVE KeysMove'
  BY <1>6 DEF Setting!Update, Setting!Merge
<1>7. ASSUME NEW u \in Updaters, Setting!Backup(u) PROVE KeysMove'
  BY <1>7 DEF Setting!Backup
<1>8. ASSUME NEW u \in Updaters, Setting!Replace(u) PROVE KeysMove'
  BY <1>8 DEF Setting!Replace
<1>9. ASSUME NEW u \in Updaters, Setting!ReplaceFails(u) PROVE KeysMove'
  BY <1>9 DEF Setting!ReplaceFails, Setting!Fail
<1>10. ASSUME NEW u \in Updaters, Setting!Cache(u) PROVE KeysMove'
  BY <1>10 DEF Setting!Cache
<1>11. ASSUME NEW u \in Updaters, Setting!Publish(u) PROVE KeysMove'
  BY <1>11 DEF Setting!Publish
<1>12. ASSUME NEW u \in Updaters, Setting!Reload(u) PROVE KeysMove'
  BY <1>12 DEF Setting!Reload
<1>13. CASE UNCHANGED settingsVars
  BY <1>13 DEF settingsVars
<1> QED  BY ONLY [Setting!Next]_settingsVars, <1>1, <1>2, <1>3, <1>4, <1>5, <1>6, <1>7,
        <1>8, <1>9, <1>10, <1>11, <1>12, <1>13 DEF Setting!Next

HistoryKept == (overlapped => overlapped') /\ (damaged => damaged') /\ (fellBack => fellBack')

LEMMA HistoryStays ==
   [Setting!Next]_settingsVars => HistoryKept
<1> SUFFICES ASSUME [Setting!Next]_settingsVars PROVE HistoryKept
  OBVIOUS
<1> USE DEF HistoryKept
<1>1. CASE Setting!Load
  BY <1>1 DEF Setting!Load
<1>2. CASE Setting!SaveMigrated
  BY <1>2 DEF Setting!SaveMigrated
<1>3. CASE Setting!Dies
  BY <1>3 DEF Setting!Dies
<1>4. CASE Setting!Damage
  BY <1>4 DEF Setting!Damage
<1>5. ASSUME NEW s \in Legacy, Setting!MoveKey(s) PROVE HistoryKept
  BY <1>5 DEF Setting!MoveKey
<1>6. ASSUME NEW u \in Updaters, Setting!Update(u) PROVE HistoryKept
  BY <1>6 DEF Setting!Update
<1>7. ASSUME NEW u \in Updaters, Setting!Backup(u) PROVE HistoryKept
  BY <1>7 DEF Setting!Backup
<1>8. ASSUME NEW u \in Updaters, Setting!Replace(u) PROVE HistoryKept
  BY <1>8 DEF Setting!Replace
<1>9. ASSUME NEW u \in Updaters, Setting!ReplaceFails(u) PROVE HistoryKept
  BY <1>9 DEF Setting!ReplaceFails
<1>10. ASSUME NEW u \in Updaters, Setting!Cache(u) PROVE HistoryKept
  BY <1>10 DEF Setting!Cache
<1>11. ASSUME NEW u \in Updaters, Setting!Publish(u) PROVE HistoryKept
  BY <1>11 DEF Setting!Publish
<1>12. ASSUME NEW u \in Updaters, Setting!Reload(u) PROVE HistoryKept
  BY <1>12 DEF Setting!Reload
<1>13. CASE UNCHANGED settingsVars
  BY <1>13 DEF settingsVars
<1> QED  BY ONLY [Setting!Next]_settingsVars, <1>1, <1>2, <1>3, <1>4, <1>5, <1>6, <1>7,
        <1>8, <1>9, <1>10, <1>11, <1>12, <1>13 DEF Setting!Next

LEMMA NextSetting == SettingInv /\ [Setting!Next]_settingsVars => SettingInv'
<1> SUFFICES ASSUME SettingInv, [Setting!Next]_settingsVars PROVE SettingInv'
  OBVIOUS
<1>1. SettingTypes'
  BY NextSettingTypes DEF SettingInv
<1>2. (overlapped => overlapped') /\ (damaged => damaged') /\ (fellBack => fellBack')
  BY HistoryStays DEF HistoryKept
<1>3. ~overlapped' => OneUpdate'
  BY <1>2, NextOneUpdate DEF SettingInv
<1>4. ~overlapped' /\ ~damaged' => disk'.fields = change'
  BY <1>2, NextSaved DEF SettingInv
<1>5. ~damaged' /\ ~fellBack' => KeysMove'
  BY <1>2, NextKeysMove DEF SettingInv
<1> QED  BY <1>1, <1>3, <1>4, <1>5 DEF SettingInv

-----------------------------------------------------------------------------
(* EventFanout.  The events of one thread are scheduled in their order,    *)
(* each is either with a socket or in one task that still has to write to  *)
(* it, and what happens to other sockets changes neither.                  *)

FanoutTypes ==
  /\ Fanout!TypeOK /\ tasks \in Seq(Fanout!Task) /\ past \subseteq Sockets
  /\ since \in [Sockets -> [Emitters -> 0..MaxEvents]]
  /\ sent \in [Sockets -> Seq(Fanout!Events)]
  /\ crowded \in BOOLEAN
  /\ \A e \in Emitters : snapshot[e] # None => emitted[e] # 0

\* An open socket stays connected: only closed ones are noted as dead.
OpenStay ==
  /\ open \subseteq connections
  /\ \A e \in Emitters : snapshot[e] # None => snapshot[e] \subseteq past
  /\ \A i \in 1..Len(tasks) :
       tasks[i].todo \subseteq past /\ tasks[i].dead \subseteq past \ open

\* The events of e that went to emit and were scheduled, or needed no task.
Taken(e) == IF snapshot[e] = None THEN emitted[e] ELSE emitted[e] - 1

TasksInOrder ==
  /\ \A i \in 1..Len(tasks) : tasks[i].event[2] <= Taken(tasks[i].event[1])
  /\ \A i, j \in 1..Len(tasks) : i < j /\ tasks[i].event[1] = tasks[j].event[1]
       => tasks[i].event[2] < tasks[j].event[2]

SentOnce ==
  \A s \in Sockets : \A k \in 1..Len(sent[s]) :
    /\ sent[s][k][2] <= Taken(sent[s][k][1])
    /\ \A i \in 1..Len(tasks) : s \in tasks[i].todo => sent[s][k] # tasks[i].event
    /\ \A j \in 1..(k - 1) : sent[s][j] # sent[s][k]

\* With one socket at a time a task writes once, as soon as it starts.
OneWrite ==
  \A i \in 1..Len(tasks) :
    /\ \A s, r \in tasks[i].todo : s = r
    /\ tasks[i].todo # {} =>
         \/ tasks[i].at = "new"
         \/ tasks[i].at = "ready" /\ \A j \in 1..(i - 1) : tasks[j].at # "new"

SentInOrder ==
  \A s \in Sockets : \A k \in 1..Len(sent[s]) :
    /\ \A i \in 1..Len(tasks) : s \in tasks[i].todo /\ sent[s][k][1] = tasks[i].event[1]
         => sent[s][k][2] < tasks[i].event[2]
    /\ \A j \in 1..(k - 1) : sent[s][j][1] = sent[s][k][1] => sent[s][j][2] < sent[s][k][2]

OnItsWay(s, e, n) ==
  \/ \E k \in 1..Len(sent[s]) : sent[s][k] = <<e, n>>
  \/ \E i \in 1..Len(tasks) : tasks[i].event = <<e, n>> /\ s \in tasks[i].todo
  \/ n = emitted[e] /\ snapshot[e] # None /\ s \in snapshot[e]

NoneMissed ==
  \A s \in open, e \in Emitters : \A n \in since[s][e] + 1 .. emitted[e] : OnItsWay(s, e, n)

FanoutInv ==
  /\ FanoutTypes /\ OpenStay /\ TasksInOrder /\ SentOnce /\ NoneMissed
  /\ crowded \/ (OneWrite /\ SentInOrder)

\* Sequences: removing, replacing and appending one element.
LEMMA RemoveAtRemoves ==
  ASSUME NEW S, NEW q \in Seq(S), NEW i \in 1..Len(q)
  PROVE  /\ Fanout!RemoveAt(q, i) \in Seq(S)
         /\ Len(Fanout!RemoveAt(q, i)) = Len(q) - 1
         /\ \A j \in 1..(Len(q) - 1) :
              Fanout!RemoveAt(q, i)[j] = IF j < i THEN q[j] ELSE q[j + 1]
<1> DEFINE a == SubSeq(q, 1, i - 1)
           b == SubSeq(q, i + 1, Len(q))
<1>1. Len(q) \in Nat /\ i \in Nat /\ i >= 1 /\ i <= Len(q)
  OBVIOUS
<1>2. /\ a \in Seq(S) /\ Len(a) = i - 1
      /\ \A j \in 1..(i - 1) : a[j] = q[j]
  BY <1>1, SubSeqProperties
<1>3. /\ b \in Seq(S) /\ Len(b) = Len(q) - i
      /\ \A j \in 1..(Len(q) - i) : b[j] = q[j + i]
  BY <1>1, SubSeqProperties
<1> HIDE DEF a, b
<1>4. a \o b \in Seq(S) /\ Len(a \o b) = Len(a) + Len(b)
  BY <1>2, <1>3, ConcatProperties
<1>6. Len(a) + Len(b) = Len(q) - 1
  BY <1>1, <1>2, <1>3
<1>5. ASSUME NEW j \in 1..(Len(q) - 1)
      PROVE  (a \o b)[j] = IF j < i THEN q[j] ELSE q[j + 1]
  <2>1. CASE j < i
    BY <2>1, <1>1, <1>2, <1>3, ConcatProperties
  <2>2. CASE ~(j < i)
    <3>1. (a \o b)[j] = b[j - (i - 1)]
      BY <2>2, <1>1, <1>2, <1>3, ConcatProperties
    <3>2. j - (i - 1) \in 1..(Len(q) - i) /\ (j - (i - 1)) + i = j + 1
      BY <2>2, <1>1
    <3> QED  BY <3>1, <3>2, <2>2, <1>1, <1>3
  <2> QED  BY <2>1, <2>2, <1>1
<1> QED  BY <1>4, <1>5, <1>6 DEF Fanout!RemoveAt, a, b

LEMMA UpdateReplaces ==
  ASSUME NEW S, NEW q \in Seq(S), NEW i \in 1..Len(q), NEW x \in S
  PROVE  /\ [q EXCEPT ![i] = x] \in Seq(S) /\ Len([q EXCEPT ![i] = x]) = Len(q)
         /\ [q EXCEPT ![i] = x][i] = x
         /\ \A j \in 1..Len(q) : j # i => [q EXCEPT ![i] = x][j] = q[j]
OBVIOUS

LEMMA AppendAppends ==
  ASSUME NEW S, NEW q \in Seq(S), NEW x \in S
  PROVE  /\ Append(q, x) \in Seq(S) /\ Len(Append(q, x)) = Len(q) + 1
         /\ Append(q, x)[Len(q) + 1] = x
         /\ \A j \in 1..Len(q) : Append(q, x)[j] = q[j]
OBVIOUS

\* What each step of a task does to the tasks.
LEMMA ScheduleAppends ==
  ASSUME FanoutTypes, NEW e \in Emitters, Fanout!Schedule(e)
  PROVE  LET n == Len(tasks) + 1
         IN /\ tasks' \in Seq(Fanout!Task) /\ Len(tasks') = n
            /\ tasks'[n].event = <<e, emitted[e]>> /\ tasks'[n].todo = snapshot[e]
            /\ tasks'[n].dead = {} /\ tasks'[n].at = "new"
            /\ \A j \in 1..Len(tasks) : tasks'[j] = tasks[j]
<1> DEFINE t == [event |-> <<e, emitted[e]>>, todo |-> snapshot[e], dead |-> {}, at |-> "new"]
<1>1. t \in Fanout!Task
  <2>1. snapshot[e] \subseteq Sockets
    <3>1. snapshot \in [Emitters -> (SUBSET Sockets) \cup {None}] /\ snapshot[e] # None
      BY DEF Fanout!Schedule, FanoutTypes, Fanout!TypeOK
    <3>2. snapshot[e] \in SUBSET Sockets
      BY ONLY <3>1, e \in Emitters
    <3> QED  BY ONLY <3>2
  <2>2. emitted[e] \in 1..MaxEvents
    <3>1. emitted \in [Emitters -> 0..MaxEvents] /\ emitted[e] # 0
      BY DEF Fanout!Schedule, FanoutTypes, Fanout!TypeOK
    <3> QED  BY ONLY <3>1, e \in Emitters, SocketsAssumption
  <2> QED  BY <2>1, <2>2 DEF Fanout!Task, Fanout!Events
<1>2. tasks' = Append(tasks, t) /\ tasks \in Seq(Fanout!Task)
  BY DEF Fanout!Schedule, FanoutTypes
<1>3. /\ t.event = <<e, emitted[e]>> /\ t.todo = snapshot[e] /\ t.dead = {} /\ t.at = "new"
  OBVIOUS
<1> HIDE DEF t
<1> QED  BY ONLY <1>1, <1>2, <1>3, AppendAppends

LEMMA ResumeMakesReady ==
  ASSUME FanoutTypes, NEW i \in 1..Len(tasks), Fanout!Resume(i)
  PROVE  /\ tasks' \in Seq(Fanout!Task) /\ Len(tasks') = Len(tasks)
         /\ tasks'[i].event = tasks[i].event /\ tasks'[i].todo = tasks[i].todo
         /\ tasks'[i].dead = tasks[i].dead /\ tasks'[i].at = "ready"
         /\ \A j \in 1..Len(tasks) : j # i => tasks'[j] = tasks[j]
<1> DEFINE t == [tasks[i] EXCEPT !.at = "ready"]
<1>1. tasks \in Seq(Fanout!Task) /\ tasks[i] \in Fanout!Task
  BY DEF FanoutTypes
<1>2. /\ t \in Fanout!Task /\ t.event = tasks[i].event /\ t.todo = tasks[i].todo
      /\ t.dead = tasks[i].dead /\ t.at = "ready"
  BY <1>1 DEF Fanout!Task
<1>3. tasks' = [tasks EXCEPT ![i] = t]
  BY <1>1 DEF Fanout!Resume
<1> HIDE DEF t
<1> QED  BY ONLY <1>1, <1>2, <1>3, UpdateReplaces, i \in 1..Len(tasks)

LEMMA WriteTakesOne ==
  ASSUME FanoutTypes, NEW i \in 1..Len(tasks), Fanout!Write(i)
  PROVE  \E s \in tasks[i].todo :
           /\ tasks' \in Seq(Fanout!Task) /\ Len(tasks') = Len(tasks)
           /\ tasks'[i].event = tasks[i].event /\ tasks'[i].todo = tasks[i].todo \ {s}
           /\ \A j \in 1..Len(tasks) : j # i => tasks'[j] = tasks[j]
           /\ running = i /\ s \in Sockets
           /\ \/ /\ s \notin open /\ tasks'[i].dead = tasks[i].dead \cup {s}
                 /\ tasks'[i].at = tasks[i].at
                 /\ UNCHANGED <<sent, full, running>>
              \/ /\ s \in open /\ tasks'[i].dead = tasks[i].dead
                 /\ sent' = [sent EXCEPT ![s] = Append(@, tasks[i].event)]
                 /\ full' \in {full, full \cup {s}}
                 /\ \/ running' = i /\ tasks'[i].at = "ready"
                    \/ running' = 0 /\ tasks'[i].at = s
<1> DEFINE t1(s) == [tasks[i] EXCEPT !.todo = @ \ {s}, !.dead = @ \cup {s}]
           t2(s, a) == [tasks[i] EXCEPT !.todo = @ \ {s}, !.at = a]
<1>0. tasks \in Seq(Fanout!Task) /\ tasks[i] \in Fanout!Task
  BY DEF FanoutTypes
<1>1. tasks \in Seq(Fanout!Task) /\ tasks[i] \in Fanout!Task /\ tasks[i].todo \subseteq Sockets
  BY ONLY <1>0 DEF Fanout!Task
<1>2. PICK s \in tasks[i].todo :
        IF s \notin open
        THEN /\ tasks' = [tasks EXCEPT ![i].todo = @ \ {s}, ![i].dead = @ \cup {s}]
             /\ UNCHANGED <<sent, full, running>>
        ELSE /\ sent' = [sent EXCEPT ![s] = Append(@, tasks[i].event)]
             /\ full' \in {full, full \cup {s}}
             /\ running' = IF s \in full' THEN 0 ELSE i
             /\ tasks' = [tasks EXCEPT ![i].todo = @ \ {s},
                                       ![i].at = IF s \in full' THEN s ELSE "ready"]
  BY DEF Fanout!Write
<1>3. running = i /\ s \in Sockets
  BY <1>1 DEF Fanout!Write
<1>4. CASE s \notin open
  <2>1. tasks' = [tasks EXCEPT ![i] = t1(s)] /\ UNCHANGED <<sent, full, running>>
    BY <1>1, <1>2, <1>4
  <2>2. /\ t1(s) \in Fanout!Task /\ t1(s).event = tasks[i].event
        /\ t1(s).todo = tasks[i].todo \ {s} /\ t1(s).dead = tasks[i].dead \cup {s}
        /\ t1(s).at = tasks[i].at
    BY <1>1, <1>3 DEF Fanout!Task
  <2> HIDE DEF t1
  <2> QED  BY ONLY <1>1, <1>3, <1>4, <2>1, <2>2, UpdateReplaces, i \in 1..Len(tasks)
<1>5. CASE s \in open
  <2> DEFINE a == IF s \in full' THEN s ELSE "ready"
  <2>1. /\ tasks' = [tasks EXCEPT ![i] = t2(s, a)]
        /\ sent' = [sent EXCEPT ![s] = Append(@, tasks[i].event)]
        /\ full' \in {full, full \cup {s}}
        /\ running' = IF s \in full' THEN 0 ELSE i
    BY <1>1, <1>2, <1>5
  <2>2. /\ t2(s, a) \in Fanout!Task /\ t2(s, a).event = tasks[i].event
        /\ t2(s, a).todo = tasks[i].todo \ {s} /\ t2(s, a).dead = tasks[i].dead
        /\ t2(s, a).at = a
    BY <1>1, <1>3 DEF Fanout!Task
  <2>3. \/ running' = i /\ a = "ready"
        \/ running' = 0 /\ a = s
    BY <2>1
  <2> HIDE DEF t2, a
  <2>4. /\ tasks' \in Seq(Fanout!Task) /\ Len(tasks') = Len(tasks)
        /\ tasks'[i] = t2(s, a)
        /\ \A j \in 1..Len(tasks) : j # i => tasks'[j] = tasks[j]
    BY ONLY <1>1, <2>1, <2>2, UpdateReplaces, i \in 1..Len(tasks)
  <2> QED  BY ONLY <1>3, <1>5, <2>1, <2>2, <2>3, <2>4
<1> QED  BY <1>4, <1>5

LEMMA EndRemoves ==
  ASSUME FanoutTypes, NEW i \in 1..Len(tasks), Fanout!End(i)
  PROVE  /\ tasks' \in Seq(Fanout!Task) /\ Len(tasks') = Len(tasks) - 1
         /\ \A j \in 1..(Len(tasks) - 1) : tasks'[j] = IF j < i THEN tasks[j] ELSE tasks[j + 1]
BY RemoveAtRemoves DEF Fanout!End, FanoutTypes

LEMMA InitFanout == Fanout!Init => FanoutInv
<1> SUFFICES ASSUME Fanout!Init PROVE FanoutInv
  OBVIOUS
<1> USE SocketsAssumption DEF Fanout!Init
<1>4. /\ emitted \in [Emitters -> 0..MaxEvents]
      /\ since \in [Sockets -> [Emitters -> 0..MaxEvents]]
      /\ \A e \in Emitters : snapshot[e] = None
  OBVIOUS
<1>5. snapshot \in [Emitters -> (SUBSET Sockets) \cup {None}]
  OBVIOUS
<1>6. sent \in [Sockets -> Seq(Fanout!Events)]
  OBVIOUS
<1>7. tasks \in Seq(Fanout!Task) /\ Len(tasks) = 0 /\ running = 0
  OBVIOUS
<1>8. /\ open = {} /\ connections = {} /\ past = {} /\ full = {} /\ crowded \in BOOLEAN
  OBVIOUS
<1>1. FanoutTypes
  BY ONLY <1>4, <1>5, <1>6, <1>7, <1>8 DEF FanoutTypes, Fanout!TypeOK
<1>2. OpenStay /\ TasksInOrder /\ SentOnce /\ OneWrite /\ SentInOrder
  BY DEF OpenStay, TasksInOrder, SentOnce, OneWrite, SentInOrder
<1>3. NoneMissed
  BY DEF NoneMissed
<1> QED  BY <1>1, <1>2, <1>3 DEF FanoutInv

LEMMA NextFanoutTypes ==
  FanoutTypes /\ [Fanout!Next]_eventVars => FanoutTypes'
<1> SUFFICES ASSUME FanoutTypes, [Fanout!Next]_eventVars PROVE FanoutTypes'
  OBVIOUS
<1> USE SocketsAssumption DEF FanoutTypes, Fanout!TypeOK
<1>0. /\ tasks \in Seq(Fanout!Task) /\ Len(tasks) \in Nat /\ running \in 0..Len(tasks)
      /\ running # 0 => tasks[running].at = "ready"
      /\ \A j \in 1..Len(tasks) : tasks[j].at = "ready" => j = running
      /\ \A j \in 1..Len(tasks) : tasks[j] \in Fanout!Task
  <2>1. tasks \in Seq(Fanout!Task)
    BY ONLY FanoutTypes DEF FanoutTypes
  <2>2. Len(tasks) \in Nat /\ \A j \in 1..Len(tasks) : tasks[j] \in Fanout!Task
    BY ONLY <2>1
  <2>3. /\ running \in 0..Len(tasks) /\ (running # 0 => tasks[running].at = "ready")
        /\ \A j \in 1..Len(tasks) : tasks[j].at = "ready" => j = running
    BY ONLY FanoutTypes DEF FanoutTypes, Fanout!TypeOK
  <2> QED
    BY ONLY <2>1, <2>2, <2>3
<1>1. ASSUME NEW s \in Sockets, Fanout!Connect(s) PROVE FanoutTypes'
  BY <1>1 DEF Fanout!Connect
<1>2. ASSUME NEW s \in Sockets, Fanout!Close(s) PROVE FanoutTypes'
  BY <1>2 DEF Fanout!Close
<1>3. ASSUME NEW s \in Sockets, Fanout!Unregister(s) PROVE FanoutTypes'
  BY <1>3 DEF Fanout!Unregister
<1>4. ASSUME NEW s \in Sockets, Fanout!Drain(s) PROVE FanoutTypes'
  BY <1>4 DEF Fanout!Drain
<1>5. ASSUME NEW e \in Emitters, Fanout!Emit(e) PROVE FanoutTypes'
  <2>1. emitted' \in [Emitters -> 0..MaxEvents] /\ emitted'[e] # 0
    BY <1>5 DEF Fanout!Emit
  <2>2. snapshot' \in [Emitters -> (SUBSET Sockets) \cup {None}]
    <3>1. connections \in SUBSET Sockets
      OBVIOUS
    <3> QED  BY <1>5, <3>1 DEF Fanout!Emit
  <2>3. \A d \in Emitters : snapshot'[d] # None => emitted'[d] # 0
    BY <1>5, <2>1 DEF Fanout!Emit
  <2> QED  BY <1>5, <2>1, <2>2, <2>3 DEF Fanout!Emit
<1>6. ASSUME NEW e \in Emitters, Fanout!Schedule(e) PROVE FanoutTypes'
  <2>1. /\ tasks' \in Seq(Fanout!Task) /\ running' \in 0..Len(tasks')
        /\ running' # 0 => tasks'[running'].at = "ready"
        /\ \A j \in 1..Len(tasks') : tasks'[j].at = "ready" => j = running'
    <3>1. running' = running
      BY <1>6 DEF Fanout!Schedule
    <3>2. /\ tasks' \in Seq(Fanout!Task) /\ Len(tasks') = Len(tasks) + 1
          /\ tasks'[Len(tasks) + 1].at = "new"
          /\ \A j \in 1..Len(tasks) : tasks'[j] = tasks[j]
      BY ONLY <1>6, FanoutTypes, e \in Emitters, ScheduleAppends
    <3> QED  BY ONLY <1>0, <3>1, <3>2
  <2> QED  BY <1>6, <2>1 DEF Fanout!Schedule
<1>7. ASSUME NEW i \in 1..Len(tasks), Fanout!Resume(i) PROVE FanoutTypes'
  <2>1. /\ tasks' \in Seq(Fanout!Task) /\ running' \in 0..Len(tasks')
        /\ running' # 0 => tasks'[running'].at = "ready"
        /\ \A j \in 1..Len(tasks') : tasks'[j].at = "ready" => j = running'
    <3>1. running' = i /\ running = 0
      BY <1>7 DEF Fanout!Resume
    <3>2. /\ tasks' \in Seq(Fanout!Task) /\ Len(tasks') = Len(tasks)
          /\ tasks'[i].at = "ready"
          /\ \A j \in 1..Len(tasks) : j # i => tasks'[j] = tasks[j]
      BY ONLY <1>7, FanoutTypes, i \in 1..Len(tasks), ResumeMakesReady
    <3> QED  BY ONLY <1>0, <3>1, <3>2, i \in 1..Len(tasks)
  <2> QED  BY <1>7, <2>1 DEF Fanout!Resume
<1>8. ASSUME NEW i \in 1..Len(tasks), Fanout!Write(i) PROVE FanoutTypes'
  <2>0. PICK s \in tasks[i].todo :
          /\ tasks' \in Seq(Fanout!Task) /\ Len(tasks') = Len(tasks)
          /\ tasks'[i].event = tasks[i].event /\ tasks'[i].todo = tasks[i].todo \ {s}
          /\ \A j \in 1..Len(tasks) : j # i => tasks'[j] = tasks[j]
          /\ running = i /\ s \in Sockets
          /\ \/ /\ s \notin open /\ tasks'[i].dead = tasks[i].dead \cup {s}
                /\ tasks'[i].at = tasks[i].at
                /\ UNCHANGED <<sent, full, running>>
             \/ /\ s \in open /\ tasks'[i].dead = tasks[i].dead
                /\ sent' = [sent EXCEPT ![s] = Append(@, tasks[i].event)]
                /\ full' \in {full, full \cup {s}}
                /\ \/ running' = i /\ tasks'[i].at = "ready"
                   \/ running' = 0 /\ tasks'[i].at = s
    BY ONLY <1>8, FanoutTypes, i \in 1..Len(tasks), WriteTakesOne
  <2>1. /\ tasks' \in Seq(Fanout!Task) /\ running' \in 0..Len(tasks')
        /\ running' # 0 => tasks'[running'].at = "ready"
        /\ \A j \in 1..Len(tasks') : tasks'[j].at = "ready" => j = running'
    BY ONLY <1>0, <2>0, i \in 1..Len(tasks), SocketsAssumption
  <2>2. /\ sent' \in [Sockets -> Seq(Fanout!Events)] /\ full' \subseteq open
    <3>1. tasks[i].event \in Fanout!Events
      BY ONLY <1>0, i \in 1..Len(tasks) DEF Fanout!Task
    <3>2. sent \in [Sockets -> Seq(Fanout!Events)] /\ full \subseteq open
      OBVIOUS
    <3>3. full' \subseteq open
      BY ONLY <2>0, <3>2
    <3>4. s \in Sockets /\ (UNCHANGED sent \/ sent' = [sent EXCEPT ![s] = Append(@, tasks[i].event)])
      BY ONLY <2>0
    <3>6. Append(sent[s], tasks[i].event) \in Seq(Fanout!Events)
      BY ONLY <3>1, <3>2, <3>4, AppendAppends
    <3>5. sent' \in [Sockets -> Seq(Fanout!Events)]
      BY ONLY <3>2, <3>4, <3>6
    <3> QED  BY ONLY <3>3, <3>5
  <2> QED  BY <1>8, <2>1, <2>2 DEF Fanout!Write
<1>9. ASSUME NEW i \in 1..Len(tasks), Fanout!End(i) PROVE FanoutTypes'
  <2>1. /\ tasks' \in Seq(Fanout!Task) /\ running' \in 0..Len(tasks')
        /\ running' # 0 => tasks'[running'].at = "ready"
        /\ \A j \in 1..Len(tasks') : tasks'[j].at = "ready" => j = running'
    <3>1. running = i /\ running' = 0
      BY <1>9 DEF Fanout!End
    <3>2. /\ tasks' \in Seq(Fanout!Task) /\ Len(tasks') = Len(tasks) - 1
          /\ \A j \in 1..(Len(tasks) - 1) :
               tasks'[j] = IF j < i THEN tasks[j] ELSE tasks[j + 1]
      BY ONLY <1>9, FanoutTypes, i \in 1..Len(tasks), EndRemoves
    <3> QED  BY ONLY <1>0, <3>1, <3>2, i \in 1..Len(tasks)
  <2> QED  BY <1>9, <2>1 DEF Fanout!End
<1>10. CASE UNCHANGED eventVars
  BY <1>10 DEF eventVars
<1> QED  BY ONLY [Fanout!Next]_eventVars, <1>1, <1>2, <1>3, <1>4, <1>5, <1>6, <1>7, <1>8,
        <1>9, <1>10 DEF Fanout!Next, Fanout!Loop

\* The numbers in tasks and in what was sent.
LEMMA Numbers ==
  ASSUME FanoutTypes
  PROVE  /\ \A e \in Emitters : emitted[e] \in Nat /\ Taken(e) \in Int
         /\ Len(tasks) \in Nat
         /\ \A i \in 1..Len(tasks) :
              tasks[i].event[1] \in Emitters /\ tasks[i].event[2] \in Nat
         /\ \A s \in Sockets : Len(sent[s]) \in Nat /\ \A k \in 1..Len(sent[s]) :
              sent[s][k] \in Emitters \X Nat /\ sent[s][k][1] \in Emitters /\ sent[s][k][2] \in Nat
<1>1. emitted \in [Emitters -> 0..MaxEvents] /\ MaxEvents \in Nat
  BY SocketsAssumption DEF FanoutTypes, Fanout!TypeOK
<1>2. \A e \in Emitters : emitted[e] \in Nat /\ Taken(e) \in Int
  BY <1>1 DEF Taken
<1>3. tasks \in Seq(Fanout!Task) /\ sent \in [Sockets -> Seq(Fanout!Events)]
  BY DEF FanoutTypes
<1>4. \A i \in 1..Len(tasks) : tasks[i].event \in Fanout!Events
  <2>1. \A i \in 1..Len(tasks) : tasks[i] \in Fanout!Task
    BY ONLY <1>3
  <2>2. \A t \in Fanout!Task : t.event \in Fanout!Events
    BY ONLY TRUE DEF Fanout!Task
  <2> QED  BY ONLY <2>1, <2>2
<1>5. \A v \in Fanout!Events : v \in Emitters \X Nat /\ v[1] \in Emitters /\ v[2] \in Nat
  BY <1>1 DEF Fanout!Events
<1>6. \A s \in Sockets : Len(sent[s]) \in Nat /\ \A k \in 1..Len(sent[s]) : sent[s][k] \in Fanout!Events
  BY <1>3
<1> QED  BY <1>2, <1>3, <1>4, <1>5, <1>6

\* Steps that touch no task: what remains is about the windows.
LEMMA QuietSteps ==
  ASSUME FanoutInv, UNCHANGED <<emitted, snapshot, tasks, sent, crowded>>
  PROVE  /\ TasksInOrder' /\ SentOnce' /\ (crowded' \/ (OneWrite' /\ SentInOrder'))
BY DEF FanoutInv, TasksInOrder, SentOnce, OneWrite, SentInOrder, Taken

LEMMA ConnectKeeps ==
  ASSUME FanoutInv, NEW s \in Sockets, Fanout!Connect(s)
  PROVE  OpenStay' /\ TasksInOrder' /\ SentOnce' /\ NoneMissed'
         /\ (crowded' \/ (OneWrite' /\ SentInOrder'))
<1>1. OpenStay'
  BY DEF FanoutInv, OpenStay, Fanout!Connect
<1>2. NoneMissed'
  <2>1. /\ UNCHANGED <<emitted, snapshot, tasks, sent>> /\ open' = open \cup {s}
        /\ since' = [since EXCEPT ![s] = emitted]
        /\ since \in [Sockets -> [Emitters -> 0..MaxEvents]]
    BY DEF Fanout!Connect, FanoutInv, FanoutTypes
  <2>2. \A e \in Emitters : emitted[e] \in Nat
    BY Numbers DEF FanoutInv
  <2>3. NoneMissed
    BY DEF FanoutInv
  <2>4. ASSUME NEW r \in open', NEW e \in Emitters, NEW n \in since'[r][e] + 1 .. emitted'[e]
        PROVE  OnItsWay(r, e, n)'
    <3>1. CASE r = s
      <4>1. since'[r][e] = emitted[e]
        BY ONLY <2>1, <3>1, s \in Sockets
      <4> QED  BY ONLY <2>1, <2>2, <4>1, e \in Emitters,
           n \in since'[r][e] + 1 .. emitted'[e]
    <3>2. CASE r # s
      <4>1. r \in open /\ since'[r] = since[r]
        BY ONLY <2>1, <3>2, r \in open'
      <4>2. n \in since[r][e] + 1 .. emitted[e]
        BY ONLY <2>1, <4>1, n \in since'[r][e] + 1 .. emitted'[e]
      <4>3. OnItsWay(r, e, n)
        BY ONLY <2>3, <4>1, <4>2, e \in Emitters DEF NoneMissed
      <4> QED  BY ONLY <2>1, <4>3 DEF OnItsWay
    <3> QED  BY <3>1, <3>2
  <2> QED  BY ONLY <2>4 DEF NoneMissed
<1>3. UNCHANGED <<emitted, snapshot, tasks, sent, crowded>>
  BY DEF Fanout!Connect
<1> QED  BY ONLY FanoutInv, <1>1, <1>2, <1>3, QuietSteps

LEMMA LeaveKeeps ==
  ASSUME FanoutInv, NEW s \in Sockets, Fanout!Close(s) \/ Fanout!Unregister(s) \/ Fanout!Drain(s)
  PROVE  OpenStay' /\ TasksInOrder' /\ SentOnce' /\ NoneMissed'
         /\ (crowded' \/ (OneWrite' /\ SentInOrder'))
<1>1. OpenStay'
  BY DEF FanoutInv, OpenStay, Fanout!Close, Fanout!Unregister, Fanout!Drain
<1>2. NoneMissed'
  <2>1. UNCHANGED <<emitted, snapshot, tasks, sent, since>> /\ open' \subseteq open
    BY DEF Fanout!Close, Fanout!Unregister, Fanout!Drain
  <2>2. NoneMissed
    BY DEF FanoutInv
  <2>3. ASSUME NEW r \in open', NEW e \in Emitters, NEW n \in since'[r][e] + 1 .. emitted'[e]
        PROVE  OnItsWay(r, e, n)'
    <3>1. OnItsWay(r, e, n)
      BY ONLY <2>1, <2>2, r \in open', e \in Emitters, n \in since'[r][e] + 1 .. emitted'[e]
         DEF NoneMissed
    <3> QED  BY ONLY <2>1, <3>1 DEF OnItsWay
  <2> QED  BY ONLY <2>3 DEF NoneMissed
<1>3. UNCHANGED <<emitted, snapshot, tasks, sent, crowded>>
  BY DEF Fanout!Close, Fanout!Unregister, Fanout!Drain
<1> QED  BY ONLY FanoutInv, <1>1, <1>2, <1>3, QuietSteps

LEMMA EmitKeeps ==
  ASSUME FanoutInv, NEW e \in Emitters, Fanout!Emit(e)
  PROVE  OpenStay' /\ TasksInOrder' /\ SentOnce' /\ NoneMissed'
         /\ (crowded' \/ (OneWrite' /\ SentInOrder'))
<1> USE DEF FanoutInv
<1>0. /\ UNCHANGED <<open, connections, past, tasks, sent, since, crowded>>
      /\ snapshot[e] = None /\ emitted' = [emitted EXCEPT ![e] = @ + 1]
      /\ snapshot' = [snapshot EXCEPT ![e] = IF connections = {} THEN None ELSE connections]
  BY DEF Fanout!Emit
<1>1. /\ emitted \in [Emitters -> 0..MaxEvents] /\ snapshot \in [Emitters -> (SUBSET Sockets) \cup {None}]
      /\ connections \subseteq past /\ open \subseteq past /\ past \subseteq Sockets
  BY DEF FanoutTypes, Fanout!TypeOK
<1>2. /\ emitted'[e] = emitted[e] + 1
      /\ snapshot'[e] = IF connections = {} THEN None ELSE connections
      /\ \A d \in Emitters : d # e => emitted'[d] = emitted[d] /\ snapshot'[d] = snapshot[d]
  BY ONLY <1>0, <1>1
<1>3. \A d \in Emitters : emitted[d] \in Nat /\ Taken(d) \in Int /\ Taken(d)' \in Int /\ Taken(d) <= Taken(d)'
  <2>1. \A d \in Emitters : emitted[d] \in Nat
    BY Numbers
  <2> QED  BY ONLY <1>0, <1>2, <2>1 DEF Taken
<1>4. OpenStay'
  BY ONLY <1>0, <1>1, <1>2, OpenStay DEF OpenStay
<1>5. TasksInOrder'
  <2>1. \A i \in 1..Len(tasks) : tasks[i].event[1] \in Emitters /\ tasks[i].event[2] \in Nat
    BY Numbers
  <2> QED  BY ONLY <1>0, <1>3, <2>1, TasksInOrder DEF TasksInOrder
<1>6. SentOnce'
  <2>1. \A s \in Sockets : \A k \in 1..Len(sent[s]) : sent[s][k][1] \in Emitters /\ sent[s][k][2] \in Nat
    BY Numbers
  <2>2. sent' = sent /\ tasks' = tasks
    BY ONLY <1>0
  <2>3. ASSUME NEW s \in Sockets, NEW k \in 1..Len(sent'[s])
        PROVE  (sent[s][k][2] <= Taken(sent[s][k][1]))'
    <3>1. k \in 1..Len(sent[s]) /\ sent'[s][k] = sent[s][k]
      BY ONLY <2>2, k \in 1..Len(sent'[s])
    <3>2. sent[s][k][2] <= Taken(sent[s][k][1])
      BY ONLY <3>1, SentOnce, s \in Sockets DEF SentOnce
    <3>3. PICK d \in Emitters : d = sent[s][k][1] /\ sent[s][k][2] \in Nat
      BY ONLY <3>1, <2>1, s \in Sockets
    <3>4. Taken(d)' \in Int /\ Taken(d) \in Int /\ Taken(d) <= Taken(d)'
      BY ONLY d \in Emitters, <1>3
    <3>5. sent[s][k][2] <= Taken(d)'
      BY ONLY <3>2, <3>3, <3>4
    <3> QED  BY ONLY <3>1, <3>3, <3>5
  <2>4. \A s \in Sockets : \A k \in 1..Len(sent'[s]) :
          /\ \A i \in 1..Len(tasks') : s \in tasks'[i].todo => sent'[s][k] # tasks'[i].event
          /\ \A j \in 1..(k - 1) : sent'[s][j] # sent'[s][k]
    BY ONLY <2>2, SentOnce DEF SentOnce
  <2> QED  BY ONLY <2>3, <2>4 DEF SentOnce
<1>7. NoneMissed'
  <2>1. \A s \in open, d \in Emitters : \A n \in since[s][d] + 1 .. emitted[d] : OnItsWay(s, d, n)
    BY DEF NoneMissed
  <2>2. since \in [Sockets -> [Emitters -> 0..MaxEvents]] /\ MaxEvents \in Nat
    BY SocketsAssumption DEF FanoutTypes
  <2>3. ASSUME NEW s \in open, NEW d \in Emitters, NEW n \in since[s][d] + 1 .. emitted'[d]
        PROVE  OnItsWay(s, d, n)'
    <3>1. CASE d = e /\ n = emitted'[e]
      <4>1. s \in connections
        BY OpenStay DEF OpenStay
      <4>2. snapshot'[e] = connections
        BY ONLY <1>2, <4>1
      <4>3. connections # None
        BY <1>1, SocketsAssumption
      <4> QED  BY ONLY <3>1, <4>1, <4>2, <4>3 DEF OnItsWay
    <3>2. CASE ~(d = e /\ n = emitted'[e])
      <4>0. since[s][d] \in Nat
        BY ONLY <1>1, <2>2, s \in open, d \in Emitters
      <4>1. n \in since[s][d] + 1 .. emitted[d]
        BY ONLY <1>2, <1>3, <4>0, <3>2, d \in Emitters, n \in since[s][d] + 1 .. emitted'[d]
      <4>2. OnItsWay(s, d, n)
        BY ONLY <2>1, <4>1, s \in open, d \in Emitters
      <4> QED  BY ONLY <1>0, <1>2, <4>2, d \in Emitters DEF OnItsWay
    <3> QED  BY <3>1, <3>2
  <2> QED  BY ONLY <1>0, <2>3 DEF NoneMissed
<1>8. crowded' \/ (OneWrite' /\ SentInOrder')
  BY <1>0 DEF OneWrite, SentInOrder
<1> QED  BY <1>4, <1>5, <1>6, <1>7, <1>8

LEMMA ScheduleKeeps ==
  ASSUME FanoutInv, NEW e \in Emitters, Fanout!Schedule(e)
  PROVE  OpenStay' /\ TasksInOrder' /\ SentOnce' /\ NoneMissed'
         /\ (crowded' \/ (OneWrite' /\ SentInOrder'))
<1> DEFINE m == Len(tasks)
<1>1. /\ m \in Nat /\ Len(tasks') = m + 1
      /\ tasks'[m + 1].event = <<e, emitted[e]>> /\ tasks'[m + 1].todo = snapshot[e]
      /\ tasks'[m + 1].dead = {} /\ tasks'[m + 1].at = "new"
      /\ \A j \in 1..m : tasks'[j] = tasks[j]
  BY ScheduleAppends, Numbers DEF FanoutInv
<1>2. /\ UNCHANGED <<open, connections, past, emitted, sent, since>>
      /\ snapshot[e] # None /\ snapshot' = [snapshot EXCEPT ![e] = None]
      /\ crowded' = (crowded \/ \E s, r \in snapshot[e] : s # r)
  BY DEF Fanout!Schedule
<1>3. snapshot \in [Emitters -> (SUBSET Sockets) \cup {None}] /\ open \subseteq Sockets
  BY DEF FanoutInv, FanoutTypes, Fanout!TypeOK
<1>4. snapshot'[e] = None /\ \A d \in Emitters : d # e => snapshot'[d] = snapshot[d]
  BY ONLY <1>2, <1>3
<1>5. /\ \A d \in Emitters : emitted[d] \in Nat /\ Taken(d) \in Int
      /\ \A i \in 1..m : tasks[i].event[1] \in Emitters /\ tasks[i].event[2] \in Nat
      /\ \A s \in Sockets : Len(sent[s]) \in Nat /\ \A k \in 1..Len(sent[s]) :
           sent[s][k] \in Emitters \X Nat /\ sent[s][k][1] \in Emitters /\ sent[s][k][2] \in Nat
  BY Numbers DEF FanoutInv
<1>6. /\ Taken(e) = emitted[e] - 1 /\ Taken(e)' = emitted[e]
      /\ \A d \in Emitters : d # e => Taken(d)' = Taken(d)
  BY ONLY <1>2, <1>4 DEF Taken
<1>7. OpenStay /\ TasksInOrder /\ SentOnce /\ NoneMissed /\ (crowded \/ (OneWrite /\ SentInOrder))
  BY DEF FanoutInv
<1> HIDE DEF m
<1>10. \A j \in 1..(m + 1) : j \in 1..m \/ j = m + 1
  BY ONLY <1>1
<1>11. OpenStay'
  <2>1. snapshot[e] \subseteq past
    BY ONLY <1>2, <1>7, e \in Emitters DEF OpenStay
  <2>2. \A i \in 1..m : tasks[i].todo \subseteq past /\ tasks[i].dead \subseteq past \ open
    BY ONLY <1>7 DEF OpenStay, m
  <2>3. \A i \in 1..(m + 1) : tasks'[i].todo \subseteq past /\ tasks'[i].dead \subseteq past \ open
    BY ONLY <1>1, <1>10, <2>1, <2>2
  <2> QED  BY ONLY <1>1, <1>2, <1>4, <1>7, <2>3 DEF OpenStay
<1>12. \A i \in 1..m : tasks[i].event[2] <= Taken(tasks[i].event[1])
  BY ONLY <1>7 DEF TasksInOrder, m
<1>13. TasksInOrder'
  <2>1. ASSUME NEW i \in 1..(m + 1) PROVE (tasks[i].event[2] <= Taken(tasks[i].event[1]))'
    <3>1. CASE i \in 1..m
      <4>1. PICK d \in Emitters : d = tasks[i].event[1] /\ tasks[i].event[2] \in Nat
        BY ONLY <3>1, <1>5
      <4>2. tasks[i].event[2] <= Taken(d)
        BY ONLY <3>1, <4>1, <1>12
      <4>3. Taken(d) <= Taken(d)' /\ Taken(d) \in Int /\ Taken(d)' \in Int
        BY ONLY <1>5, <1>6, e \in Emitters, d \in Emitters
      <4>4. tasks[i].event[2] <= Taken(d)'
        BY ONLY <4>1, <4>2, <4>3
      <4>5. tasks'[i] = tasks[i]
        BY ONLY <3>1, <1>1
      <4> QED  BY ONLY <4>1, <4>4, <4>5
    <3>2. CASE i = m + 1
      <4>1. tasks'[i].event[1] = e /\ tasks'[i].event[2] = emitted[e]
        BY ONLY <3>2, <1>1
      <4> QED  BY ONLY <4>1, <1>6, <1>5, e \in Emitters
    <3> QED  BY ONLY <3>1, <3>2, <1>10, i \in 1..(m + 1)
  <2>2. ASSUME NEW i \in 1..(m + 1), NEW j \in 1..(m + 1), i < j,
               tasks'[i].event[1] = tasks'[j].event[1]
        PROVE  tasks'[i].event[2] < tasks'[j].event[2]
    <3>0. i \in 1..m /\ tasks'[i] = tasks[i]
      BY ONLY <1>1, i \in 1..(m + 1), j \in 1..(m + 1), i < j
    <3>1. CASE j \in 1..m
      BY ONLY <3>0, <3>1, <1>1, <1>7, <2>2 DEF TasksInOrder, m
    <3>2. CASE j = m + 1
      <4>1. tasks'[j].event[1] = e /\ tasks'[j].event[2] = emitted[e]
        BY ONLY <3>2, <1>1
      <4>2. tasks[i].event[1] = e
        BY ONLY <3>0, <4>1, <2>2
      <4>3. tasks[i].event[2] <= Taken(e) /\ tasks[i].event[2] \in Nat
        BY ONLY <3>0, <4>2, <1>5, <1>12
      <4> QED  BY ONLY <3>0, <4>1, <4>3, <1>5, <1>6, e \in Emitters
    <3> QED  BY ONLY <3>1, <3>2, <1>10, j \in 1..(m + 1)
  <2> QED  BY ONLY <2>1, <2>2, <1>1 DEF TasksInOrder
<1>14. \A s \in Sockets : \A k \in 1..Len(sent[s]) : sent[s][k][2] <= Taken(sent[s][k][1])
  BY ONLY <1>7 DEF SentOnce
<1>15. ASSUME NEW s \in Sockets, NEW k \in 1..Len(sent[s]), sent[s][k][1] = e
       PROVE  sent[s][k][2] < emitted[e]
  <2>1. sent[s][k][2] <= Taken(e) /\ sent[s][k][2] \in Nat
    BY ONLY <1>14, <1>15, <1>5, s \in Sockets
  <2> QED  BY ONLY <2>1, <1>5, <1>6, e \in Emitters
<1>16. SentOnce'
  <2>1. ASSUME NEW s \in Sockets, NEW k \in 1..Len(sent[s])
        PROVE  /\ (sent[s][k][2] <= Taken(sent[s][k][1]))'
               /\ \A i \in 1..(m + 1) : s \in tasks'[i].todo => sent[s][k] # tasks'[i].event
               /\ \A j \in 1..(k - 1) : sent[s][j] # sent[s][k]
    <3>1. PICK d \in Emitters : d = sent[s][k][1] /\ sent[s][k][2] \in Nat
      BY ONLY <1>5, s \in Sockets, k \in 1..Len(sent[s])
    <3>2. sent[s][k][2] <= Taken(d)
      BY ONLY <3>1, <1>14, s \in Sockets, k \in 1..Len(sent[s])
    <3>3. Taken(d) <= Taken(d)' /\ Taken(d) \in Int /\ Taken(d)' \in Int
      BY ONLY <1>5, <1>6, e \in Emitters, d \in Emitters
    <3>4. sent[s][k][2] <= Taken(d)'
      BY ONLY <3>1, <3>2, <3>3
    <3>5. (sent[s][k][2] <= Taken(sent[s][k][1]))'
      BY ONLY <3>1, <3>4, <1>2
    <3>6. ASSUME NEW i \in 1..(m + 1), s \in tasks'[i].todo PROVE sent[s][k] # tasks'[i].event
      <4>1. CASE i \in 1..m
        <5>1. tasks'[i] = tasks[i]
          BY ONLY <4>1, <1>1
        <5> QED  BY ONLY <5>1, <4>1, <3>6, <1>7, s \in Sockets, k \in 1..Len(sent[s])
              DEF SentOnce, m
      <4>2. CASE i = m + 1
        <5>1. tasks'[i].event = <<e, emitted[e]>>
          BY ONLY <4>2, <1>1
        <5>2. sent[s][k][1] = e => sent[s][k][2] < emitted[e]
          BY <1>15
        <5> QED  BY ONLY <5>1, <5>2, <3>1, <1>5, e \in Emitters
      <4> QED  BY ONLY <4>1, <4>2, <1>10, i \in 1..(m + 1)
    <3>7. \A j \in 1..(k - 1) : sent[s][j] # sent[s][k]
      BY ONLY <1>7, s \in Sockets, k \in 1..Len(sent[s]) DEF SentOnce
    <3> QED  BY ONLY <3>5, <3>6, <3>7
  <2> QED  BY ONLY <2>1, <1>1, <1>2 DEF SentOnce
<1>17. NoneMissed'
  <2>1. ASSUME NEW s \in open, NEW d \in Emitters, NEW n \in since[s][d] + 1 .. emitted[d]
        PROVE  OnItsWay(s, d, n)'
    <3>0. OnItsWay(s, d, n)
      BY ONLY <1>7, s \in open, d \in Emitters,
         n \in since[s][d] + 1 .. emitted[d] DEF NoneMissed
    <3>1. CASE \E k \in 1..Len(sent[s]) : sent[s][k] = <<d, n>>
      BY ONLY <3>1, <1>2 DEF OnItsWay
    <3>2. CASE \E i \in 1..m : tasks[i].event = <<d, n>> /\ s \in tasks[i].todo
      <4>1. PICK i \in 1..m : tasks[i].event = <<d, n>> /\ s \in tasks[i].todo
        BY <3>2
      <4>2. i \in 1..Len(tasks') /\ tasks'[i] = tasks[i]
        BY ONLY <1>1, i \in 1..m
      <4> QED  BY ONLY <4>1, <4>2 DEF OnItsWay
    <3>3. CASE n = emitted[d] /\ snapshot[d] # None /\ s \in snapshot[d]
      <4>1. CASE d = e
        <5>1. /\ m + 1 \in 1..Len(tasks') /\ tasks'[m + 1].event = <<d, n>>
              /\ s \in tasks'[m + 1].todo
          BY ONLY <4>1, <3>3, <1>1
        <5> QED  BY ONLY <5>1 DEF OnItsWay
      <4>2. CASE d # e
        BY ONLY <4>2, <3>3, <1>2, <1>4, d \in Emitters DEF OnItsWay
      <4> QED  BY ONLY <4>1, <4>2
    <3> QED  BY ONLY <3>0, <3>1, <3>2, <3>3 DEF OnItsWay, m
  <2> QED  BY ONLY <2>1, <1>2 DEF NoneMissed
<1>18. ASSUME ~crowded' PROVE OneWrite' /\ SentInOrder'
  <2>1. OneWrite /\ SentInOrder /\ \A s, r \in snapshot[e] : s = r
    BY ONLY <1>18, <1>2, <1>7
  <2>2. ASSUME NEW i \in 1..(m + 1)
        PROVE  /\ \A s, r \in tasks'[i].todo : s = r
               /\ tasks'[i].todo # {} =>
                    \/ tasks'[i].at = "new"
                    \/ tasks'[i].at = "ready" /\ \A j \in 1..(i - 1) : tasks'[j].at # "new"
    <3>1. CASE i \in 1..m
      <4>1. tasks'[i] = tasks[i] /\ \A j \in 1..(i - 1) : tasks'[j] = tasks[j]
        BY ONLY <3>1, <1>1
      <4> QED  BY ONLY <3>1, <4>1, <2>1 DEF OneWrite, m
    <3>2. CASE i = m + 1
      BY ONLY <3>2, <1>1, <2>1
    <3> QED  BY ONLY <3>1, <3>2, <1>10, i \in 1..(m + 1)
  <2>3. ASSUME NEW s \in Sockets, NEW k \in 1..Len(sent[s]), NEW i \in 1..(m + 1),
               s \in tasks'[i].todo, sent[s][k][1] = tasks'[i].event[1]
        PROVE  sent[s][k][2] < tasks'[i].event[2]
    <3>1. CASE i \in 1..m
      <4>1. tasks'[i] = tasks[i]
        BY ONLY <3>1, <1>1
      <4> QED  BY ONLY <3>1, <4>1, <2>1, <2>3 DEF SentInOrder, m
    <3>2. CASE i = m + 1
      <4>1. tasks'[i].event[1] = e /\ tasks'[i].event[2] = emitted[e]
        BY ONLY <3>2, <1>1
      <4> QED  BY <4>1, <1>15, <2>3
    <3> QED  BY ONLY <3>1, <3>2, <1>10, i \in 1..(m + 1)
  <2>4. \A s \in Sockets : \A k \in 1..Len(sent[s]) : \A j \in 1..(k - 1) :
          sent[s][j][1] = sent[s][k][1] => sent[s][j][2] < sent[s][k][2]
    BY ONLY <2>1 DEF SentInOrder
  <2>5. OneWrite'
    BY ONLY <2>2, <1>1 DEF OneWrite
  <2>6. SentInOrder'
    BY ONLY <2>3, <2>4, <1>1, <1>2 DEF SentInOrder
  <2> QED  BY ONLY <2>5, <2>6
<1> QED  BY ONLY <1>11, <1>13, <1>16, <1>17, <1>18

LEMMA ResumeKeeps ==
  ASSUME FanoutInv, NEW i \in 1..Len(tasks), Fanout!Resume(i)
  PROVE  OpenStay' /\ TasksInOrder' /\ SentOnce' /\ NoneMissed'
         /\ (crowded' \/ (OneWrite' /\ SentInOrder'))
<1>1. /\ Len(tasks') = Len(tasks)
      /\ tasks'[i].event = tasks[i].event /\ tasks'[i].todo = tasks[i].todo
      /\ tasks'[i].dead = tasks[i].dead /\ tasks'[i].at = "ready"
      /\ \A j \in 1..Len(tasks) : j # i => tasks'[j] = tasks[j]
  BY ResumeMakesReady DEF FanoutInv
<1>2. UNCHANGED <<open, connections, past, emitted, snapshot, sent, since, crowded>>
  BY DEF Fanout!Resume
<1>3. \A j \in 1..Len(tasks) :
        /\ tasks'[j].event = tasks[j].event /\ tasks'[j].todo = tasks[j].todo
        /\ tasks'[j].dead = tasks[j].dead
  BY ONLY <1>1, i \in 1..Len(tasks)
<1>4. OpenStay /\ TasksInOrder /\ SentOnce /\ NoneMissed /\ (crowded \/ (OneWrite /\ SentInOrder))
  BY DEF FanoutInv
<1>5. OpenStay'
  BY ONLY <1>1, <1>2, <1>3, <1>4 DEF OpenStay
<1>6. TasksInOrder'
  BY ONLY <1>1, <1>2, <1>3, <1>4 DEF TasksInOrder, Taken
<1>7. SentOnce'
  BY ONLY <1>1, <1>2, <1>3, <1>4 DEF SentOnce, Taken
<1>8. NoneMissed'
  <2>1. \A s \in open, e \in Emitters : \A n \in since[s][e] + 1 .. emitted[e] : OnItsWay(s, e, n)
    BY ONLY <1>4 DEF NoneMissed
  <2>2. \A s, e, n : OnItsWay(s, e, n) => OnItsWay(s, e, n)'
    BY ONLY <1>1, <1>2, <1>3 DEF OnItsWay
  <2> QED  BY ONLY <1>2, <2>1, <2>2 DEF NoneMissed
<1>9. SentInOrder => SentInOrder'
  BY ONLY <1>1, <1>2, <1>3 DEF SentInOrder
<1>10. ASSUME OneWrite PROVE OneWrite'
  <2>1. \A j \in 1..Len(tasks) : tasks[j].at # "ready"
    <3>1. /\ running = 0
          /\ \A j \in 1..Len(tasks) : tasks[j].at = "ready" => j = running
      BY DEF Fanout!Resume, FanoutInv, FanoutTypes, Fanout!TypeOK
    <3> QED  BY ONLY <3>1
  <2>2. \/ tasks[i].at = "new" /\ \A j \in 1..(i - 1) : tasks[j].at # "new"
        \/ tasks[i].at \in Sockets
    BY DEF Fanout!Resume, Fanout!MayRun
  <2>3. tasks[i].todo # {} => \A j \in 1..(i - 1) : tasks[j].at # "new"
    BY ONLY <1>10, <2>1, <2>2, i \in 1..Len(tasks), SocketsAssumption DEF OneWrite
  <2>4. ASSUME NEW j \in 1..Len(tasks), tasks[j].todo # {}
        PROVE  \/ tasks'[j].at = "new"
               \/ tasks'[j].at = "ready" /\ \A h \in 1..(j - 1) : tasks'[h].at # "new"
    <3>1. CASE j = i
      BY ONLY <3>1, <1>1, <2>3, <2>4, i \in 1..Len(tasks)
    <3>2. CASE j # i
      BY ONLY <3>2, <1>1, <1>10, <2>1, <2>4 DEF OneWrite
    <3> QED  BY ONLY <3>1, <3>2
  <2>5. \A j \in 1..Len(tasks) : \A s, r \in tasks'[j].todo : s = r
    BY ONLY <1>3, <1>10 DEF OneWrite
  <2> QED  BY ONLY <1>1, <1>3, <2>4, <2>5 DEF OneWrite
<1> QED  BY ONLY <1>2, <1>4, <1>5, <1>6, <1>7, <1>8, <1>9, <1>10

LEMMA WriteKeeps ==
  ASSUME FanoutInv, NEW i \in 1..Len(tasks), Fanout!Write(i)
  PROVE  OpenStay' /\ TasksInOrder' /\ SentOnce' /\ NoneMissed'
         /\ (crowded' \/ (OneWrite' /\ SentInOrder'))
<1>0. PICK s \in tasks[i].todo :
          /\ tasks' \in Seq(Fanout!Task) /\ Len(tasks') = Len(tasks)
          /\ tasks'[i].event = tasks[i].event /\ tasks'[i].todo = tasks[i].todo \ {s}
          /\ \A j \in 1..Len(tasks) : j # i => tasks'[j] = tasks[j]
          /\ running = i /\ s \in Sockets
          /\ \/ /\ s \notin open /\ tasks'[i].dead = tasks[i].dead \cup {s}
                /\ tasks'[i].at = tasks[i].at
                /\ UNCHANGED <<sent, full, running>>
             \/ /\ s \in open /\ tasks'[i].dead = tasks[i].dead
                /\ sent' = [sent EXCEPT ![s] = Append(@, tasks[i].event)]
                /\ full' \in {full, full \cup {s}}
                /\ \/ running' = i /\ tasks'[i].at = "ready"
                   \/ running' = 0 /\ tasks'[i].at = s
  BY WriteTakesOne DEF FanoutInv
<1>1. \A j \in 1..Len(tasks) :
        tasks'[j].event = tasks[j].event /\ tasks'[j].todo \subseteq tasks[j].todo
  BY ONLY <1>0, i \in 1..Len(tasks)
<1>2. UNCHANGED <<open, connections, past, emitted, snapshot, since, crowded>>
  BY DEF Fanout!Write
<1>3. OpenStay /\ TasksInOrder /\ SentOnce /\ NoneMissed /\ (crowded \/ (OneWrite /\ SentInOrder))
  BY DEF FanoutInv
<1>4. /\ \A d \in Emitters : Taken(d) \in Int
      /\ tasks[i].event[1] \in Emitters /\ tasks[i].event[2] \in Nat
      /\ \A j \in 1..Len(tasks) : tasks[j].event[2] \in Nat
      /\ \A r \in Sockets : Len(sent[r]) \in Nat
  BY Numbers DEF FanoutInv
<1>5. tasks[i].event[2] <= Taken(tasks[i].event[1])
  BY ONLY <1>3, i \in 1..Len(tasks) DEF TasksInOrder

\* What s, and only s, was sent.
<1>6. \/ sent' = sent /\ s \notin open
      \/ /\ s \in open /\ \A r \in Sockets : r # s => sent'[r] = sent[r]
         /\ Len(sent'[s]) = Len(sent[s]) + 1
         /\ sent'[s][Len(sent[s]) + 1] = tasks[i].event
         /\ \A k \in 1..Len(sent[s]) : sent'[s][k] = sent[s][k]
  <2>1. sent \in [Sockets -> Seq(Fanout!Events)]
    BY DEF FanoutInv, FanoutTypes
  <2>2. CASE s \notin open
    BY ONLY <2>2, <1>0
  <2>3. CASE s \in open
    <3>1. s \in Sockets /\ sent' = [sent EXCEPT ![s] = Append(@, tasks[i].event)]
      BY ONLY <2>3, <1>0
    <3>2. tasks[i].event \in Fanout!Events
      <4>1. tasks[i] \in Fanout!Task
        BY DEF FanoutInv, FanoutTypes
      <4> QED  BY ONLY <4>1 DEF Fanout!Task
    <3> QED  BY ONLY <2>1, <2>3, <3>1, <3>2, AppendAppends
  <2> QED  BY ONLY <2>2, <2>3
\* What s, and only s, was sent.
<1>7. ASSUME NEW r \in Sockets
      PROVE  /\ \A k \in 1..Len(sent[r]) : k \in 1..Len(sent'[r]) /\ sent'[r][k] = sent[r][k]
             /\ \A k \in 1..Len(sent'[r]) :
                  \/ k \in 1..Len(sent[r]) /\ sent'[r][k] = sent[r][k]
                  \/ r = s /\ k = Len(sent[s]) + 1 /\ sent'[r][k] = tasks[i].event
  <2>1. s \in Sockets /\ Len(sent[r]) \in Nat /\ Len(sent[s]) \in Nat
    BY ONLY <1>0, <1>4, r \in Sockets
  <2>2. CASE r = s /\ s \in open
    BY ONLY <2>1, <2>2, <1>6
  <2>3. CASE ~(r = s /\ s \in open)
    <3>1. sent'[r] = sent[r]
      BY ONLY <2>1, <2>3, <1>6, r \in Sockets
    <3> QED  BY ONLY <3>1
  <2> QED  BY ONLY <2>2, <2>3
<1>13. s \in open => \E k \in 1..Len(sent'[s]) : sent'[s][k] = tasks[i].event
  <2>1. ASSUME s \in open PROVE Len(sent[s]) + 1 \in 1..Len(sent'[s])
                                /\ sent'[s][Len(sent[s]) + 1] = tasks[i].event
    BY ONLY <2>1, <1>0, <1>4, <1>6
  <2> QED  BY ONLY <2>1
<1>14. /\ \A r \in Sockets : \A k \in 1..Len(sent[r]) : \A j \in 1..Len(tasks) :
            r \in tasks[j].todo => sent[r][k] # tasks[j].event
       /\ s \in Sockets /\ s \in tasks[i].todo
  BY ONLY <1>0, <1>3, s \in tasks[i].todo DEF SentOnce
<1>8. OpenStay'
  <2>1. tasks'[i].dead \subseteq tasks[i].dead \cup ({s} \ open) /\ s \in past
    BY ONLY <1>0, <1>3, i \in 1..Len(tasks) DEF OpenStay
  <2>2. \A j \in 1..Len(tasks) : tasks'[j].todo \subseteq past /\ tasks'[j].dead \subseteq past \ open
    BY ONLY <1>0, <1>1, <1>3, <2>1 DEF OpenStay
  <2> QED  BY ONLY <1>0, <1>2, <1>3, <2>2 DEF OpenStay
<1>9. TasksInOrder'
  BY ONLY <1>0, <1>1, <1>2, <1>3 DEF TasksInOrder, Taken
<1>10. SentOnce'
  <2>1. \A r \in Sockets : \A k \in 1..Len(sent'[r]) :
          sent'[r][k][2] <= Taken(sent'[r][k][1])
    BY ONLY <1>3, <1>5, <1>7 DEF SentOnce
  <2>2. ASSUME NEW r \in Sockets, NEW k \in 1..Len(sent'[r]), NEW j \in 1..Len(tasks),
               r \in tasks'[j].todo
        PROVE  sent'[r][k] # tasks'[j].event
    <3>1. CASE k \in 1..Len(sent[r]) /\ sent'[r][k] = sent[r][k]
      BY ONLY <3>1, <1>1, <1>3, <2>2 DEF SentOnce
    <3>2. CASE r = s /\ k = Len(sent[s]) + 1 /\ sent'[r][k] = tasks[i].event
      <4>1. j # i
        BY ONLY <1>0, <2>2, <3>2
      <4>2. tasks[j].event # tasks[i].event
        BY ONLY <4>1, <1>3, <1>4, i \in 1..Len(tasks), j \in 1..Len(tasks) DEF TasksInOrder
      <4> QED  BY ONLY <4>2, <3>2, <1>1, j \in 1..Len(tasks)
    <3> QED  BY ONLY <3>1, <3>2, <1>7, r \in Sockets, k \in 1..Len(sent'[r])
  <2>3. ASSUME NEW r \in Sockets, NEW k \in 1..Len(sent'[r]), NEW j \in 1..(k - 1)
        PROVE  sent'[r][j] # sent'[r][k]
    <3>1. CASE k \in 1..Len(sent[r]) /\ sent'[r][k] = sent[r][k]
      <4>1. j \in 1..Len(sent[r]) 
        BY ONLY <3>1, <1>4, r \in Sockets, j \in 1..(k - 1)
      <4>2. sent'[r][j] = sent[r][j]
        BY ONLY <4>1, <1>7, r \in Sockets
      <4> QED  BY ONLY <3>1, <4>2, <1>3, r \in Sockets, j \in 1..(k - 1) DEF SentOnce
    <3>2. CASE r = s /\ k = Len(sent[s]) + 1 /\ sent'[r][k] = tasks[i].event
      <4>1. j \in 1..Len(sent[s]) 
        BY ONLY <3>2, <1>4, r \in Sockets, j \in 1..(k - 1)
      <4>2. sent'[r][j] = sent[s][j]
        BY ONLY <4>1, <3>2, <1>7, r \in Sockets
      <4>3. sent[s][j] # tasks[i].event
        BY ONLY <4>1, <1>14, i \in 1..Len(tasks)
      <4> QED  BY ONLY <4>2, <4>3, <3>2
    <3> QED  BY ONLY <3>1, <3>2, <1>7, r \in Sockets, k \in 1..Len(sent'[r])
  <2>4. \A r \in Sockets : \A k \in 1..Len(sent'[r]) :
          (sent[r][k][2] <= Taken(sent[r][k][1]))'
    BY ONLY <2>1, <1>2 DEF Taken
  <2> QED  BY ONLY <2>2, <2>3, <2>4, <1>0 DEF SentOnce
<1>11. NoneMissed'
  <2>1. ASSUME NEW r \in open, NEW e \in Emitters, NEW n \in since[r][e] + 1 .. emitted[e]
        PROVE  OnItsWay(r, e, n)'
    <3>0. OnItsWay(r, e, n) /\ r \in Sockets
      <4>1. open \subseteq Sockets
        BY DEF FanoutInv, FanoutTypes, Fanout!TypeOK
      <4> QED  BY ONLY <4>1, <1>3, r \in open, e \in Emitters,
           n \in since[r][e] + 1 .. emitted[e]
            DEF NoneMissed
    <3>1. CASE \E k \in 1..Len(sent[r]) : sent[r][k] = <<e, n>>
      <4>1. PICK k \in 1..Len(sent[r]) : sent[r][k] = <<e, n>>
        BY <3>1
      <4>2. k \in 1..Len(sent'[r]) /\ sent'[r][k] = <<e, n>>
        BY ONLY <4>1, <3>0, <1>7
      <4> QED  BY ONLY <4>2 DEF OnItsWay
    <3>2. CASE \E j \in 1..Len(tasks) : tasks[j].event = <<e, n>> /\ r \in tasks[j].todo
      <4>1. PICK j \in 1..Len(tasks) : tasks[j].event = <<e, n>> /\ r \in tasks[j].todo
        BY <3>2
      <4>2. CASE j = i /\ r = s
        <5>1. \E k \in 1..Len(sent'[r]) : sent'[r][k] = <<e, n>>
          BY ONLY <4>1, <4>2, <1>13, r \in open
        <5> QED  BY ONLY <5>1 DEF OnItsWay
      <4>3. CASE ~(j = i /\ r = s)
        <5>1. j \in 1..Len(tasks') /\ tasks'[j].event = <<e, n>> /\ r \in tasks'[j].todo
          BY ONLY <4>1, <4>3, <1>0, j \in 1..Len(tasks)
        <5> QED  BY ONLY <5>1 DEF OnItsWay
      <4> QED  BY ONLY <4>2, <4>3
    <3>3. CASE n = emitted[e] /\ snapshot[e] # None /\ r \in snapshot[e]
      BY ONLY <3>3, <1>2 DEF OnItsWay
    <3> QED  BY ONLY <3>0, <3>1, <3>2, <3>3 DEF OnItsWay
  <2> QED  BY ONLY <2>1, <1>2 DEF NoneMissed
<1>12. ASSUME ~crowded' PROVE OneWrite' /\ SentInOrder'
  <2>1. OneWrite /\ SentInOrder
    BY ONLY <1>12, <1>2, <1>3
  <2>2. \A j \in 1..Len(tasks) : tasks[j].at = "ready" <=> j = i
    <3>1. /\ running # 0 => tasks[running].at = "ready"
          /\ \A j \in 1..Len(tasks) : tasks[j].at = "ready" => j = running
      BY DEF FanoutInv, FanoutTypes, Fanout!TypeOK
    <3> QED  BY ONLY <3>1, <1>0, i \in 1..Len(tasks)
  <2>3. \A j \in 1..(i - 1) : tasks[j].at # "new"
    BY ONLY <2>1, <2>2, s \in tasks[i].todo, i \in 1..Len(tasks) DEF OneWrite
  \* The other tasks that still write come after this one.
  <2>4. \A j \in 1..Len(tasks) : tasks[j].todo # {} /\ j # i => i < j /\ tasks[j].at = "new"
    <3>1. \A j \in 1..Len(tasks) : tasks[j].todo # {} /\ j # i => tasks[j].at = "new"
      BY ONLY <2>1, <2>2 DEF OneWrite
    <3> QED  BY ONLY <3>1, <2>3, i \in 1..Len(tasks), <1>4
  <2>5. tasks'[i].todo = {}
    BY ONLY <1>0, <2>1, i \in 1..Len(tasks) DEF OneWrite
  <2>6. OneWrite'
    <3>1. ASSUME NEW j \in 1..Len(tasks)
          PROVE  /\ \A q, r \in tasks'[j].todo : q = r
                 /\ tasks'[j].todo # {} => tasks'[j].at = "new"
      BY ONLY <1>0, <1>1, <2>1, <2>4, <2>5, j \in 1..Len(tasks) DEF OneWrite
    <3> QED  BY ONLY <1>0, <3>1 DEF OneWrite
  <2>7. ASSUME NEW r \in Sockets, NEW k \in 1..Len(sent'[r]), NEW j \in 1..Len(tasks),
               r \in tasks'[j].todo, sent'[r][k][1] = tasks'[j].event[1]
        PROVE  sent'[r][k][2] < tasks'[j].event[2]
    <3>1. CASE k \in 1..Len(sent[r]) /\ sent'[r][k] = sent[r][k]
      BY ONLY <3>1, <1>1, <2>1, <2>7 DEF SentInOrder
    <3>2. CASE r = s /\ k = Len(sent[s]) + 1 /\ sent'[r][k] = tasks[i].event
      <4>1. j # i /\ tasks[j].todo # {}
        BY ONLY <1>1, <2>5, <2>7
      <4>2. i < j
        BY ONLY <4>1, <2>4, j \in 1..Len(tasks)
      <4>3. tasks[i].event[1] = tasks[j].event[1]
        BY ONLY <3>2, <2>7, <1>1
      <4>4. tasks[i].event[2] < tasks[j].event[2]
        BY ONLY <4>2, <4>3, <1>3, i \in 1..Len(tasks), j \in 1..Len(tasks) DEF TasksInOrder
      <4> QED  BY ONLY <4>4, <3>2, <1>1, j \in 1..Len(tasks)
    <3> QED  BY ONLY <3>1, <3>2, <1>7, r \in Sockets, k \in 1..Len(sent'[r])
  <2>8. ASSUME NEW r \in Sockets, NEW k \in 1..Len(sent'[r]), NEW j \in 1..(k - 1),
               sent'[r][j][1] = sent'[r][k][1]
        PROVE  sent'[r][j][2] < sent'[r][k][2]
    <3>1. CASE k \in 1..Len(sent[r]) /\ sent'[r][k] = sent[r][k]
      <4>1. j \in 1..Len(sent[r]) 
        BY ONLY <3>1, <1>4, r \in Sockets, j \in 1..(k - 1)
      <4>2. sent'[r][j] = sent[r][j]
        BY ONLY <4>1, <1>7, r \in Sockets
      <4> QED  BY ONLY <3>1, <4>2, <2>1, <2>8 DEF SentInOrder
    <3>2. CASE r = s /\ k = Len(sent[s]) + 1 /\ sent'[r][k] = tasks[i].event
      <4>1. j \in 1..Len(sent[s]) 
        BY ONLY <3>2, <1>4, r \in Sockets, j \in 1..(k - 1)
      <4>2. sent'[r][j] = sent[s][j]
        BY ONLY <4>1, <3>2, <1>7, r \in Sockets
      <4>3. sent[s][j][1] = tasks[i].event[1]
        BY ONLY <4>2, <3>2, <2>8
      <4>4. sent[s][j][2] < tasks[i].event[2]
        BY ONLY <4>1, <4>3, <2>1, <1>14, i \in 1..Len(tasks) DEF SentInOrder
      <4> QED  BY ONLY <4>2, <4>4, <3>2
    <3> QED  BY ONLY <3>1, <3>2, <1>7, r \in Sockets, k \in 1..Len(sent'[r])
  <2>9. SentInOrder'
    BY ONLY <2>7, <2>8, <1>0 DEF SentInOrder
  <2> QED  BY ONLY <2>6, <2>9
<1> QED  BY ONLY <1>8, <1>9, <1>10, <1>11, <1>12

LEMMA EndKeeps ==
  ASSUME FanoutInv, NEW i \in 1..Len(tasks), Fanout!End(i)
  PROVE  OpenStay' /\ TasksInOrder' /\ SentOnce' /\ NoneMissed'
         /\ (crowded' \/ (OneWrite' /\ SentInOrder'))
<1>0. Len(tasks) \in Nat
  BY Numbers DEF FanoutInv
<1>1. /\ Len(tasks') = Len(tasks) - 1
      /\ \A j \in 1..(Len(tasks) - 1) : tasks'[j] = IF j < i THEN tasks[j] ELSE tasks[j + 1]
  BY EndRemoves DEF FanoutInv
<1>2. /\ UNCHANGED <<open, past, emitted, snapshot, sent, since, crowded>>
      /\ tasks[i].todo = {} /\ connections' = connections \ tasks[i].dead
  BY DEF Fanout!End
<1>3. OpenStay /\ TasksInOrder /\ SentOnce /\ NoneMissed /\ (crowded \/ (OneWrite /\ SentInOrder))
  BY DEF FanoutInv

\* Where a task was before, and where the others are now.
<1>4. ASSUME NEW j \in 1..Len(tasks')
      PROVE  \E k \in 1..Len(tasks) :
               tasks'[j] = tasks[k] /\ (k = IF j < i THEN j ELSE j + 1)
  BY ONLY <1>0, <1>1, j \in 1..Len(tasks'), i \in 1..Len(tasks)
<1>5. ASSUME NEW k \in 1..Len(tasks), k # i
      PROVE  \E j \in 1..Len(tasks') : tasks'[j] = tasks[k]
  <2>1. CASE k < i
    BY ONLY <2>1, <1>0, <1>1, k \in 1..Len(tasks), i \in 1..Len(tasks)
  <2>2. CASE k > i
    <3>1. k - 1 \in 1..Len(tasks') /\ ~(k - 1 < i) /\ (k - 1) + 1 = k
      BY ONLY <2>2, <1>0, <1>1, k \in 1..Len(tasks), i \in 1..Len(tasks)
    <3>2. tasks'[k - 1] = tasks[k]
      BY ONLY <3>1, <1>1
    <3> QED  BY ONLY <3>1, <3>2
  <2> QED  BY ONLY <2>1, <2>2, <1>5, <1>0, k \in 1..Len(tasks), i \in 1..Len(tasks)
<1>6. OpenStay'
  <2>1. \A j \in 1..Len(tasks') : tasks'[j].todo \subseteq past /\ tasks'[j].dead \subseteq past \ open
    BY ONLY <1>3, <1>4 DEF OpenStay
  <2>2. open \subseteq connections'
    BY ONLY <1>2, <1>3, i \in 1..Len(tasks) DEF OpenStay
  <2> QED  BY ONLY <1>2, <1>3, <2>1, <2>2 DEF OpenStay
<1>7. ASSUME NEW j \in 1..Len(tasks'), NEW h \in 1..Len(tasks'), j < h
      PROVE  \E k, g \in 1..Len(tasks) : tasks'[j] = tasks[k] /\ tasks'[h] = tasks[g] /\ k < g
  BY ONLY <1>0, <1>1, <1>4, <1>7, i \in 1..Len(tasks)
<1>8. TasksInOrder'
  <2>1. \A j \in 1..Len(tasks') : tasks'[j].event[2] <= Taken(tasks'[j].event[1])
    BY ONLY <1>3, <1>4 DEF TasksInOrder
  <2>2. \A j \in 1..Len(tasks') : (tasks[j].event[2] <= Taken(tasks[j].event[1]))'
    BY ONLY <2>1, <1>2 DEF Taken
  <2>3. \A j, h \in 1..Len(tasks') : j < h /\ tasks'[j].event[1] = tasks'[h].event[1]
          => tasks'[j].event[2] < tasks'[h].event[2]
    <3>1. ASSUME NEW j \in 1..Len(tasks'), NEW h \in 1..Len(tasks'), j < h,
                 tasks'[j].event[1] = tasks'[h].event[1]
          PROVE  tasks'[j].event[2] < tasks'[h].event[2]
      <4>1. PICK k, g \in 1..Len(tasks) : tasks'[j] = tasks[k] /\ tasks'[h] = tasks[g] /\ k < g
        BY <1>7, <3>1
      <4> QED  BY ONLY <1>3, <3>1, <4>1 DEF TasksInOrder
    <3> QED  BY ONLY <3>1
  <2> QED  BY ONLY <2>2, <2>3 DEF TasksInOrder
<1>9. SentOnce'
  <2>1. \A s \in Sockets : \A k \in 1..Len(sent[s]) : \A j \in 1..Len(tasks') :
          s \in tasks'[j].todo => sent[s][k] # tasks'[j].event
    BY ONLY <1>3, <1>4 DEF SentOnce
  <2>2. \A s \in Sockets : \A k \in 1..Len(sent[s]) :
          /\ sent[s][k][2] <= Taken(sent[s][k][1])
          /\ \A j \in 1..(k - 1) : sent[s][j] # sent[s][k]
    BY ONLY <1>3 DEF SentOnce
  <2> QED  BY ONLY <1>2, <2>1, <2>2 DEF SentOnce, Taken
<1>10. NoneMissed'
  <2>1. \A s \in open, e \in Emitters : \A n \in since[s][e] + 1 .. emitted[e] : OnItsWay(s, e, n)
    BY ONLY <1>3 DEF NoneMissed
  <2>2. ASSUME NEW s, NEW e, NEW n, OnItsWay(s, e, n) PROVE OnItsWay(s, e, n)'
    <3>1. CASE \E k \in 1..Len(tasks) : tasks[k].event = <<e, n>> /\ s \in tasks[k].todo
      <4>1. PICK k \in 1..Len(tasks) : tasks[k].event = <<e, n>> /\ s \in tasks[k].todo
        BY <3>1
      <4>2. PICK j \in 1..Len(tasks') : tasks'[j] = tasks[k]
        BY ONLY <1>2, <1>5, <4>1, k \in 1..Len(tasks)
      <4> QED  BY ONLY <4>1, <4>2 DEF OnItsWay
    <3>2. CASE ~\E k \in 1..Len(tasks) : tasks[k].event = <<e, n>> /\ s \in tasks[k].todo
      BY ONLY <3>2, <2>2, <1>2 DEF OnItsWay
    <3> QED  BY ONLY <3>1, <3>2
  <2> QED  BY ONLY <1>2, <2>1, <2>2 DEF NoneMissed
<1>11. ASSUME ~crowded' PROVE OneWrite' /\ SentInOrder'
  <2>1. OneWrite /\ SentInOrder
    BY ONLY <1>11, <1>2, <1>3
  <2>2. SentInOrder'
    <3>1. \A s \in Sockets : \A k \in 1..Len(sent[s]) : \A j \in 1..Len(tasks') :
            s \in tasks'[j].todo /\ sent[s][k][1] = tasks'[j].event[1]
              => sent[s][k][2] < tasks'[j].event[2]
      <4>1. ASSUME NEW j \in 1..Len(tasks'), NEW s \in Sockets, NEW k \in 1..Len(sent[s]),
                   s \in tasks'[j].todo, sent[s][k][1] = tasks'[j].event[1]
            PROVE  sent[s][k][2] < tasks'[j].event[2]
        <5>1. PICK g \in 1..Len(tasks) : tasks'[j] = tasks[g]
          BY <1>4
        <5> QED  BY ONLY <2>1, <4>1, <5>1 DEF SentInOrder
      <4> QED  BY ONLY <4>1
    <3> QED  BY ONLY <1>2, <2>1, <3>1 DEF SentInOrder
  <2>3. ASSUME NEW j \in 1..Len(tasks')
        PROVE  /\ \A s, r \in tasks'[j].todo : s = r
               /\ tasks'[j].todo # {} =>
                    \/ tasks'[j].at = "new"
                    \/ tasks'[j].at = "ready" /\ \A h \in 1..(j - 1) : tasks'[h].at # "new"
    <3>1. PICK k \in 1..Len(tasks) :
            tasks'[j] = tasks[k] /\ (k = IF j < i THEN j ELSE j + 1)
      BY <1>4
    <3>2. \A h \in 1..(j - 1) : \E g \in 1..(k - 1) : tasks'[h] = tasks[g]
      <4>1. ASSUME NEW h \in 1..(j - 1) PROVE \E g \in 1..(k - 1) : tasks'[h] = tasks[g]
        <5>1. h \in 1..Len(tasks')
          BY ONLY <1>0, <1>1, j \in 1..Len(tasks'), h \in 1..(j - 1)
        <5>2. PICK g \in 1..Len(tasks) :
                tasks'[h] = tasks[g] /\ (g = IF h < i THEN h ELSE h + 1)
          BY <1>4, <5>1
        <5>3. g \in 1..(k - 1)
          BY ONLY <3>1, <5>2, <1>0, <1>1, j \in 1..Len(tasks'), h \in 1..(j - 1),
             i \in 1..Len(tasks)
        <5> QED  BY ONLY <5>2, <5>3
      <4> QED  BY ONLY <4>1
    <3>3. /\ \A s, r \in tasks[k].todo : s = r
          /\ tasks[k].todo # {} =>
               \/ tasks[k].at = "new"
               \/ tasks[k].at = "ready" /\ \A g \in 1..(k - 1) : tasks[g].at # "new"
      BY ONLY <2>1, k \in 1..Len(tasks) DEF OneWrite
    <3>4. (\A g \in 1..(k - 1) : tasks[g].at # "new") => \A h \in 1..(j - 1) : tasks'[h].at # "new"
      <4>1. ASSUME \A g \in 1..(k - 1) : tasks[g].at # "new", NEW h \in 1..(j - 1)
            PROVE  tasks'[h].at # "new"
        BY <3>2, <4>1
      <4> QED  BY ONLY <4>1
    <3>5. tasks'[j] = tasks[k]
      BY ONLY <3>1
    <3> QED  BY ONLY <3>3, <3>4, <3>5
  <2>4. OneWrite'
    BY ONLY <2>3 DEF OneWrite
  <2> QED  BY ONLY <2>2, <2>4
<1> QED  BY ONLY <1>6, <1>8, <1>9, <1>10, <1>11

LEMMA NextFanout == FanoutInv /\ [Fanout!Next]_eventVars => FanoutInv'
<1> SUFFICES ASSUME FanoutInv, [Fanout!Next]_eventVars PROVE FanoutInv'
  OBVIOUS
<1>1. FanoutTypes'
  BY NextFanoutTypes DEF FanoutInv
<1>2. CASE UNCHANGED eventVars
  <2>1. UNCHANGED <<emitted, snapshot, tasks, sent, crowded, open, connections, past, since>>
    BY <1>2 DEF eventVars
  <2>2. OpenStay'
    BY <2>1 DEF FanoutInv, OpenStay
  <2>3. NoneMissed'
    <3>1. NoneMissed
      BY DEF FanoutInv
    <3>2. \A s, e, n : OnItsWay(s, e, n) => OnItsWay(s, e, n)'
      BY ONLY <2>1 DEF OnItsWay
    <3> QED  BY ONLY <3>1, <3>2, <2>1 DEF NoneMissed
  <2> QED  BY <1>1, <2>1, <2>2, <2>3, QuietSteps DEF FanoutInv
<1>3. CASE Fanout!Next
  BY <1>1, <1>3, ConnectKeeps, LeaveKeeps, EmitKeeps, ScheduleKeeps, ResumeKeeps,
     WriteKeeps,
     EndKeeps DEF Fanout!Next, Fanout!Loop, FanoutInv
<1> QED  BY <1>2, <1>3

LEMMA FanoutDelivers == FanoutInv => DeliveredInOrder
<1> SUFFICES ASSUME FanoutInv PROVE DeliveredInOrder
  OBVIOUS
<1>1. /\ SentOnce /\ (crowded \/ SentInOrder) /\ NoneMissed
      /\ \A s \in Sockets : Len(sent[s]) \in Nat
      /\ open \subseteq Sockets /\ Fanout!TypeOK
  BY Numbers DEF FanoutInv, FanoutTypes, Fanout!TypeOK
<1>2. Fanout!InOrder
  <2>1. ASSUME NEW s \in Sockets, NEW i \in 1..Len(sent[s]), NEW j \in 1..Len(sent[s]),
               i < j, sent[s][i][1] = sent[s][j][1]
        PROVE  /\ sent[s][i] # sent[s][j]
               /\ ~crowded => sent[s][i][2] < sent[s][j][2]
    <3>1. i \in 1..(j - 1)
      BY ONLY <1>1, s \in Sockets, i \in 1..Len(sent[s]), j \in 1..Len(sent[s]), i < j
    <3> QED  BY ONLY <1>1, <2>1, <3>1 DEF SentOnce, SentInOrder
  <2> QED  BY ONLY <2>1 DEF Fanout!InOrder
<1>3. Fanout!NothingIsMissed
  <2>1. ASSUME tasks = <<>>, \A e \in Emitters : snapshot[e] = None,
               NEW s \in open, NEW e \in Emitters, NEW n \in since[s][e] + 1 .. emitted[e]
        PROVE  Fanout!Contains(sent[s], <<e, n>>)
    <3>1. OnItsWay(s, e, n)
      BY ONLY <1>1, s \in open, e \in Emitters,
         n \in since[s][e] + 1 .. emitted[e] DEF NoneMissed
    <3>2. \E k \in 1..Len(sent[s]) : sent[s][k] = <<e, n>>
      BY <3>1, <2>1 DEF OnItsWay
    <3> QED  BY <3>2 DEF Fanout!Contains
  <2> QED  BY ONLY <2>1 DEF Fanout!NothingIsMissed
<1> QED  BY <1>1, <1>2, <1>3 DEF DeliveredInOrder

-----------------------------------------------------------------------------
(* Hotkeys.  While no release was missed, the chord holds only keys that   *)
(* are down on a keyboard that is heard or whose release is on its way: a  *)
(* queued press is of such a key, and what the input thread read of the    *)
(* chord stays true until it has handled the event.                        *)

ReleaseQueued(d, k) == \E i \in 1..Len(queue[d]) : queue[d][i] = <<k, "release">>

Fingered(k) == \E d \in Keyboards : Hot!Heard(d) /\ (k \in held[d] \/ ReleaseQueued(d, k))

QueuesFollow ==
  \A d \in Keyboards :
    /\ queue[d] # <<>> => Hot!Heard(d)
    /\ \A i \in 1..Len(queue[d]) : queue[d][i][2] # "release" =>
         \/ queue[d][i][1] \in held[d]
         \/ \E j \in 1..Len(queue[d]) : i <= j /\ queue[d][j] = <<queue[d][i][1], "release">>

ChordFollows ==
  /\ \A k \in pressed :
       \/ event # NoEvent /\ event.kind = "release" /\ event.key = k
       \/ Fingered(k)
  /\ event # NoEvent => /\ event.was = Hot!Active(keys, pressed)
                        /\ event.kind # "release" => Fingered(event.key)
  /\ recording = "held" => mode = "hold_to_record" /\ Hot!Active(keys, pressed)

\* With evdev a key is in the chord only by a press that was seen.
PressesAreFresh ==
  backend = "evdev" =>
    /\ pressed \subseteq fresh
    /\ event # NoEvent => event.kind # "repeat" /\ (event.kind = "press" => event.key \in fresh)

HotInv == Hot!TypeOK /\ QueuesFollow /\ PressesAreFresh /\ (missed \/ ChordFollows)

HotEvents == Hot!Keys \X Hot!Kinds

LEMMA InitHot == Hot!Init => HotInv
<1> SUFFICES ASSUME Hot!Init PROVE HotInv
  OBVIOUS
<1>1. Hot!TypeOK
  <2>1. ASSUME NEW preferred \in Hot!Backends, NEW display \in BOOLEAN
        PROVE  Hot!Started(preferred, display) \in Hot!Backends \cup {"none"}
    BY DEF Hot!Started, Hot!Backends
  <2>2. backend \in Hot!Backends \cup {"none"}
    BY <2>1 DEF Hot!Init
  <2>3. /\ held = [d \in Keyboards |-> {}] /\ queue = [d \in Keyboards |-> <<>>]
        /\ plugged \in SUBSET Keyboards /\ paths = IF backend = "evdev" THEN plugged ELSE {}
        /\ devices = [d \in Keyboards |-> IF d \in paths THEN "open" ELSE "closed"]
        /\ mode \in Hot!Modes /\ keys \in Chords /\ pressed = {} /\ fresh = {}
        /\ capture = FALSE /\ update = "none" /\ event = NoEvent
        /\ recording = "no" /\ missed = FALSE
    BY DEF Hot!Init
  <2>4. queue \in [Keyboards -> Seq(Hot!Keys \X Hot!Kinds)]
    BY ONLY <2>3
  <2>5. /\ devices \in [Keyboards -> {"closed", "open", "stale"}]
        /\ \A d \in Keyboards : devices[d] # "closed" <=> d \in paths
        /\ paths \subseteq Keyboards
    BY ONLY <2>3
  <2>6. held \in [Keyboards -> SUBSET Hot!Keys]
    BY ONLY <2>3
  <2> QED  BY ONLY <2>2, <2>3, <2>4, <2>5, <2>6 DEF Hot!TypeOK
<1>2. QueuesFollow /\ PressesAreFresh /\ ChordFollows
  BY DEF Hot!Init, QueuesFollow, PressesAreFresh, ChordFollows
<1> QED  BY <1>1, <1>2 DEF HotInv

\* What the kernel queues, and what the input thread takes.
LEMMA QueuedAppends ==
  ASSUME Hot!TypeOK, NEW d \in Keyboards, NEW k \in Hot!Keys, NEW kind \in Hot!Kinds,
         Hot!Queued(d, k, kind)
  PROVE  /\ queue' \in [Keyboards -> Seq(HotEvents)]
         /\ \A e \in Keyboards : e # d => queue'[e] = queue[e]
         /\ \/ ~Hot!Heard(d) /\ queue' = queue
            \/ /\ Hot!Heard(d) /\ Len(queue'[d]) = Len(queue[d]) + 1
               /\ queue'[d][Len(queue[d]) + 1] = <<k, kind>>
               /\ \A i \in 1..Len(queue[d]) : queue'[d][i] = queue[d][i]
<1>1. queue \in [Keyboards -> Seq(HotEvents)] /\ <<k, kind>> \in HotEvents
  BY DEF Hot!TypeOK, HotEvents
<1>2. \/ ~Hot!Heard(d) /\ queue' = queue
      \/ Hot!Heard(d) /\ queue' = [queue EXCEPT ![d] = Append(@, <<k, kind>>)]
  BY DEF Hot!Queued
<1>3. Append(queue[d], <<k, kind>>) \in Seq(HotEvents)
  BY ONLY <1>1, d \in Keyboards, AppendAppends
<1>4. CASE ~Hot!Heard(d) /\ queue' = queue
  BY ONLY <1>1, <1>4
<1>5. CASE Hot!Heard(d) /\ queue' = [queue EXCEPT ![d] = Append(@, <<k, kind>>)]
  <2>1. /\ queue' \in [Keyboards -> Seq(HotEvents)]
        /\ \A e \in Keyboards : e # d => queue'[e] = queue[e]
        /\ queue'[d] = Append(queue[d], <<k, kind>>)
    BY ONLY <1>1, <1>3, <1>5, d \in Keyboards
  <2> QED  BY ONLY <1>1, <1>5, <2>1, d \in Keyboards, AppendAppends
<1> QED  BY <1>2, <1>4, <1>5

LEMMA LookTakes ==
  ASSUME Hot!TypeOK, NEW d \in Keyboards, Hot!Look(d)
  PROVE  /\ queue' \in [Keyboards -> Seq(HotEvents)]
         /\ \A e \in Keyboards : e # d => queue'[e] = queue[e]
         /\ queue[d] # <<>> /\ Len(queue[d]) \in Nat \ {0}
         /\ Len(queue'[d]) = Len(queue[d]) - 1
         /\ \A i \in 1..(Len(queue[d]) - 1) : queue'[d][i] = queue[d][i + 1]
         /\ Head(queue[d]) = queue[d][1] /\ queue[d][1] \in HotEvents
<1>1. queue \in [Keyboards -> Seq(HotEvents)]
  BY DEF Hot!TypeOK, HotEvents
<1>2. queue[d] # <<>> /\ queue' = [queue EXCEPT ![d] = Tail(@)]
  BY DEF Hot!Look
<1> QED  BY ONLY <1>1, <1>2, d \in Keyboards

LEMMA NextHotTypes ==
  Hot!TypeOK /\ [Hot!Next]_hotkeyVars => Hot!TypeOK'
<1> SUFFICES ASSUME Hot!TypeOK, [Hot!Next]_hotkeyVars PROVE Hot!TypeOK'
  OBVIOUS
<1> USE DEF Hot!Misses
<1>1. ASSUME NEW d \in Keyboards, NEW k \in Hot!Keys,
             Hot!Press(d, k) \/ Hot!Release(d, k) \/ Hot!Repeat(d, k)
      PROVE  Hot!TypeOK'
  <2>1. \E kind \in Hot!Kinds : Hot!Queued(d, k, kind)
    BY <1>1 DEF Hot!Press, Hot!Release, Hot!Repeat, Hot!Kinds
  <2>2. queue' \in [Keyboards -> Seq(HotEvents)]
    BY <2>1, QueuedAppends
  <2>3. held' \in [Keyboards -> SUBSET Hot!Keys]
    <3>1. held \in [Keyboards -> SUBSET Hot!Keys]
      BY DEF Hot!TypeOK
    <3>2. \/ held' = held
          \/ held' = [held EXCEPT ![d] = @ \cup {k}]
          \/ held' = [held EXCEPT ![d] = @ \ {k}]
      BY <1>1 DEF Hot!Press, Hot!Release, Hot!Repeat
    <3> QED  BY ONLY <3>1, <3>2, d \in Keyboards, k \in Hot!Keys
  <2>4. UNCHANGED <<plugged, devices, paths, backend, mode, keys, pressed, capture, update,
                    event, recording, missed, fresh>>
    BY <1>1 DEF Hot!Press, Hot!Release, Hot!Repeat
  <2> QED  BY <2>2, <2>3, <2>4 DEF Hot!TypeOK, HotEvents
<1>2. ASSUME NEW d \in Keyboards, Hot!Look(d) PROVE Hot!TypeOK'
  <2>1. queue' \in [Keyboards -> Seq(HotEvents)]
    BY <1>2, LookTakes
  <2>2. Head(queue[d])[1] \in Hot!Keys /\ Head(queue[d])[2] \in Hot!Kinds
    BY <1>2, LookTakes DEF HotEvents
  <2>3. /\ event' \in {NoEvent} \cup [key : Hot!Keys, kind : Hot!Kinds, was : BOOLEAN]
        /\ fresh' \subseteq Hot!Keys /\ pressed' \subseteq Hot!Keys /\ capture' \in BOOLEAN
    <3>1. Hot!Active(keys, pressed) \in BOOLEAN
      BY DEF Hot!Active
    <3>2. LET k == Head(queue[d])[1]
              kind == Head(queue[d])[2]
          IN /\ event' \in {event, [key |-> k, kind |-> kind, was |-> Hot!Active(keys, pressed)]}
             /\ fresh' \in {fresh, fresh \cup {k}}
             /\ pressed' \in {pressed, {}} /\ capture' \in {capture, FALSE}
      BY <1>2 DEF Hot!Look, Hot!CaptureKey
    <3>3. /\ event \in {NoEvent} \cup [key : Hot!Keys, kind : Hot!Kinds, was : BOOLEAN]
          /\ fresh \subseteq Hot!Keys /\ pressed \subseteq Hot!Keys /\ capture \in BOOLEAN
      BY DEF Hot!TypeOK
    <3> DEFINE k == Head(queue[d])[1]
               kind == Head(queue[d])[2]
               a == Hot!Active(keys, pressed)
    <3> HIDE DEF a
    <3>4. k \in Hot!Keys /\ kind \in Hot!Kinds /\ a \in BOOLEAN
      BY <2>2, <3>1 DEF a
    <3>5. /\ event' = event \/ event' = [key |-> k, kind |-> kind, was |-> a]
          /\ fresh' = fresh \/ fresh' = fresh \cup {k}
          /\ pressed' = pressed \/ pressed' = {}
          /\ capture' = capture \/ capture' = FALSE
      BY <3>2 DEF a
    <3> HIDE DEF k, kind
    <3>6. event' \in {NoEvent} \cup [key : Hot!Keys, kind : Hot!Kinds, was : BOOLEAN]
      BY ONLY <3>3, <3>4, <3>5
    <3>7. fresh' \subseteq Hot!Keys
      BY ONLY <3>3, <3>4, <3>5
    <3>8. pressed' \subseteq Hot!Keys /\ capture' \in BOOLEAN
      BY ONLY <3>3, <3>5
    <3> QED  BY ONLY <3>6, <3>7, <3>8
  <2>4. UNCHANGED <<held, plugged, devices, paths, backend, mode, keys, update, recording>>
        /\ missed' \in BOOLEAN
    BY <1>2 DEF Hot!Look
  <2> QED  BY <2>1, <2>3, <2>4 DEF Hot!TypeOK, HotEvents
<1>3. ASSUME NEW d \in Keyboards, Hot!Unplug(d) PROVE Hot!TypeOK'
  BY <1>3 DEF Hot!Unplug, Hot!TypeOK
<1>4. ASSUME NEW d \in Keyboards, Hot!Plug(d) PROVE Hot!TypeOK'
  BY <1>4 DEF Hot!Plug, Hot!TypeOK
<1>5. ASSUME NEW d \in Keyboards, Hot!Forget(d) PROVE Hot!TypeOK'
  BY <1>5 DEF Hot!Forget, Hot!TypeOK
<1>6. CASE Hot!Rescan
  BY <1>6 DEF Hot!Rescan, Hot!TypeOK
<1>7. CASE Hot!Handle
  BY <1>7 DEF Hot!Handle, Hot!Handled, Hot!Begin, Hot!Stop, Hot!LeftAfterToggle,
     Hot!Updated,
     Hot!TypeOK
<1>8. CASE Hot!Window
  BY <1>8 DEF Hot!Window, Hot!Begin, Hot!Stop, Hot!TypeOK
<1>9. CASE Hot!UpdateConfig \/ Hot!ReloadKeys \/ Hot!StartCapture \/ Hot!StopCapture
  BY <1>9 DEF Hot!UpdateConfig, Hot!ReloadKeys, Hot!StartCapture, Hot!StopCapture,
     Hot!TypeOK
<1>10. CASE UNCHANGED hotkeyVars
  BY <1>10 DEF hotkeyVars, Hot!TypeOK
<1> QED  BY ONLY [Hot!Next]_hotkeyVars, <1>1, <1>2, <1>3, <1>4, <1>5, <1>6, <1>7, <1>8,
     <1>9, <1>10
        DEF Hot!Next

\* Steps of neither the fingers nor the queues.
LEMMA FingersStay ==
  ASSUME UNCHANGED <<held, queue>>, \A d \in Keyboards : Hot!Heard(d) => Hot!Heard(d)'
  PROVE  /\ QueuesFollow => QueuesFollow'
         /\ \A k : Fingered(k) => Fingered(k)'
BY DEF QueuesFollow, Fingered, ReleaseQueued

\* A release that may have been missed is remembered until nothing is left
\* that it could matter to.
LEMMA MissesKeeps ==
  ASSUME NEW now, Hot!Misses(now), missed' = FALSE \/ ~missed'
  PROVE  ChordFollows' \/ (~missed /\ ~now)
BY DEF Hot!Misses, ChordFollows

LEMMA KeyKeeps ==
  ASSUME HotInv, NEW d \in Keyboards, NEW k \in Hot!Keys,
         Hot!Press(d, k) \/ Hot!Release(d, k) \/ Hot!Repeat(d, k)
  PROVE  QueuesFollow' /\ PressesAreFresh' /\ (missed' \/ ChordFollows')
<1>1. PICK kind \in Hot!Kinds :
        /\ Hot!Queued(d, k, kind)
        /\ \/ kind = "press" /\ held' = [held EXCEPT ![d] = @ \cup {k}]
           \/ kind = "release" /\ held' = [held EXCEPT ![d] = @ \ {k}]
           \/ kind = "repeat" /\ held' = held /\ k \in held[d]
  BY DEF Hot!Press, Hot!Release, Hot!Repeat, Hot!Kinds
<1>2. /\ UNCHANGED <<devices, backend, mode, keys, pressed, event, recording, missed, fresh>>
      /\ \A e \in Keyboards : Hot!Heard(e)' <=> Hot!Heard(e)
  BY DEF Hot!Press, Hot!Release, Hot!Repeat, Hot!Heard
<1>3. /\ \A e \in Keyboards : e # d => queue'[e] = queue[e]
      /\ \/ ~Hot!Heard(d) /\ queue' = queue
         \/ /\ Hot!Heard(d) /\ Len(queue'[d]) = Len(queue[d]) + 1
            /\ queue'[d][Len(queue[d]) + 1] = <<k, kind>>
            /\ \A i \in 1..Len(queue[d]) : queue'[d][i] = queue[d][i]
  BY <1>1, QueuedAppends DEF HotInv
<1>4. /\ \A e \in Keyboards : e # d => held'[e] = held[e]
      /\ \/ kind = "press" /\ held'[d] = held[d] \cup {k}
         \/ kind = "release" /\ held'[d] = held[d] \ {k}
         \/ kind = "repeat" /\ held'[d] = held[d] /\ k \in held[d]
  <2>1. held \in [Keyboards -> SUBSET Hot!Keys]
    BY DEF HotInv, Hot!TypeOK
  <2> QED  BY ONLY <1>1, <2>1, d \in Keyboards
<1>5. QueuesFollow /\ \A e \in Keyboards : Len(queue[e]) \in Nat /\ (queue[e] = <<>> <=> Len(queue[e]) = 0)
  BY DEF HotInv, Hot!TypeOK
<1> DEFINE n == Len(queue[d])
\* What is queued stays, and what leaves the hand is queued.
<1>6. ASSUME NEW e \in Keyboards, Hot!Heard(e), NEW x, x \in held[e] \/ ReleaseQueued(e, x)
      PROVE  x \in held'[e] \/ ReleaseQueued(e, x)'
  <2>1. CASE e # d
    BY ONLY <2>1, <1>3, <1>4, <1>6, e \in Keyboards DEF ReleaseQueued
  <2>2. CASE e = d
    <3>1. /\ n \in Nat /\ Len(queue'[d]) = n + 1 /\ queue'[d][n + 1] = <<k, kind>>
          /\ \A i \in 1..n : queue'[d][i] = queue[d][i]
      BY ONLY <2>2, <1>3, <1>5, <1>6, d \in Keyboards
    <3>2. CASE ReleaseQueued(d, x)
      <4>1. PICK i \in 1..n : queue[d][i] = <<x, "release">>
        BY <3>2 DEF ReleaseQueued
      <4>2. i \in 1..Len(queue'[d]) /\ queue'[d][i] = <<x, "release">>
        BY ONLY <3>1, <4>1
      <4> QED  BY ONLY <2>2, <4>2 DEF ReleaseQueued
    <3>3. CASE x \in held[d] /\ x \notin held'[d]
      <4>1. x = k /\ kind = "release"
        BY ONLY <3>3, <1>4
      <4>2. n + 1 \in 1..Len(queue'[d]) /\ queue'[d][n + 1] = <<x, "release">>
        BY ONLY <3>1, <4>1
      <4> QED  BY ONLY <2>2, <4>2 DEF ReleaseQueued
    <3> QED  BY ONLY <2>2, <1>6, <3>2, <3>3
  <2> QED  BY ONLY <2>1, <2>2
<1>7. \A x : Fingered(x) => Fingered(x)'
  BY ONLY <1>2, <1>6 DEF Fingered
<1>8. QueuesFollow'
  <2>1. ASSUME NEW e \in Keyboards, queue'[e] # <<>> PROVE Hot!Heard(e)
    BY ONLY <2>1, <1>3, <1>5, e \in Keyboards DEF QueuesFollow
  <2>2. ASSUME NEW e \in Keyboards, NEW i \in 1..Len(queue'[e]), queue'[e][i][2] # "release"
        PROVE  \/ queue'[e][i][1] \in held'[e]
               \/ \E j \in 1..Len(queue'[e]) : i <= j /\ queue'[e][j] = <<queue'[e][i][1], "release">>
    <3>1. CASE e # d \/ ~Hot!Heard(d)
      <4>1. queue'[e] = queue[e]
        BY ONLY <3>1, <1>3, e \in Keyboards
      <4>2. CASE e # d
        <5>1. held'[e] = held[e]
          BY ONLY <4>2, <1>4, e \in Keyboards
        <5>2. i \in 1..Len(queue[e]) /\ queue[e][i][2] # "release"
          BY ONLY <4>1, <2>2, i \in 1..Len(queue'[e])
        <5>3. \/ queue[e][i][1] \in held[e]
              \/ \E j \in 1..Len(queue[e]) : i <= j /\ queue[e][j] = <<queue[e][i][1], "release">>
          BY ONLY <5>2, <1>5, e \in Keyboards DEF QueuesFollow
        <5> QED  BY ONLY <4>1, <5>1, <5>3
      <4>3. CASE e = d /\ ~Hot!Heard(d)
        BY ONLY <4>1, <4>3, <2>2, <1>5 DEF QueuesFollow
      <4> QED  BY ONLY <3>1, <4>2, <4>3
    <3>2. CASE e = d /\ Hot!Heard(d)
      <4>1. /\ n \in Nat /\ Len(queue'[d]) = n + 1 /\ queue'[d][n + 1] = <<k, kind>>
            /\ \A j \in 1..n : queue'[d][j] = queue[d][j]
        BY ONLY <3>2, <1>3, <1>5, d \in Keyboards
      <4> HIDE DEF n
      <4>2. CASE i = n + 1
        BY ONLY <4>1, <4>2, <2>2, <3>2, <1>4
      <4>3. CASE i \in 1..n
        <5>1. queue'[d][i] = queue[d][i]
          BY ONLY <4>1, <4>3
        <5>2. \/ queue[d][i][1] \in held[d]
              \/ \E j \in 1..n : i <= j /\ queue[d][j] = <<queue[d][i][1], "release">>
          BY ONLY <4>3, <5>1, <2>2, <3>2, <1>5 DEF QueuesFollow, n
        <5>3. CASE queue[d][i][1] \in held'[d]
          BY ONLY <3>2, <5>1, <5>3
        <5>4. CASE queue[d][i][1] \in held[d] /\ queue[d][i][1] \notin held'[d]
          <6>1. queue[d][i][1] = k /\ kind = "release"
            BY ONLY <5>4, <1>4
          <6>2. n + 1 \in 1..Len(queue'[d]) /\ i <= n + 1
            BY ONLY <4>1, <4>3
          <6> QED  BY ONLY <3>2, <4>1, <5>1, <6>1, <6>2
        <5>5. CASE \E j \in 1..n : i <= j /\ queue[d][j] = <<queue[d][i][1], "release">>
          <6>1. PICK j \in 1..n : i <= j /\ queue[d][j] = <<queue[d][i][1], "release">>
            BY <5>5
          <6>2. j \in 1..Len(queue'[d]) /\ queue'[d][j] = queue[d][j]
            BY ONLY <4>1, j \in 1..n
          <6> QED  BY ONLY <3>2, <5>1, <6>1, <6>2
        <5> QED  BY ONLY <5>2, <5>3, <5>4, <5>5
      <4> QED  BY ONLY <4>1, <4>2, <4>3, <3>2, i \in 1..Len(queue'[e])
    <3> QED  BY ONLY <3>1, <3>2
  <2> QED  BY ONLY <2>1, <2>2, <1>2 DEF QueuesFollow
<1>9. PressesAreFresh'
  BY <1>2 DEF HotInv, PressesAreFresh
<1>10. ChordFollows => ChordFollows'
  BY ONLY <1>2, <1>7 DEF ChordFollows, Hot!Active
<1> QED  BY <1>2, <1>8, <1>9, <1>10 DEF HotInv

LEMMA LookKeeps ==
  ASSUME HotInv, NEW d \in Keyboards, Hot!Look(d)
  PROVE  QueuesFollow' /\ PressesAreFresh' /\ (missed' \/ ChordFollows')
<1>0. PICK n, k, kind : n = Len(queue[d]) /\ k = Head(queue[d])[1] /\ kind = Head(queue[d])[2]
  OBVIOUS
<1>1. /\ n \in Nat \ {0} /\ Len(queue'[d]) = n - 1
      /\ \A i \in 1..(n - 1) : queue'[d][i] = queue[d][i + 1]
      /\ \A e \in Keyboards : e # d => queue'[e] = queue[e]
      /\ queue[d] # <<>> /\ queue[d][1] = <<k, kind>> /\ k \in Hot!Keys /\ kind \in Hot!Kinds
  BY <1>0, LookTakes DEF HotInv, HotEvents
<1>2. /\ event = NoEvent /\ UNCHANGED <<held, devices, backend, mode, keys, recording>>
      /\ Hot!Misses(capture)
      /\ \A e \in Keyboards : Hot!Heard(e)' <=> Hot!Heard(e)
  BY DEF Hot!Look, Hot!Heard
<1>3. \/ Hot!Translated(kind) = {} /\ UNCHANGED <<event, capture, pressed, fresh>>
      \/ capture /\ pressed' \in {{}, pressed} /\ UNCHANGED <<event, fresh>>
      \/ /\ Hot!Translated(kind) # {} /\ UNCHANGED pressed
         /\ event' = [key |-> k, kind |-> kind, was |-> Hot!Active(keys, pressed)]
         /\ fresh' = IF kind = "press" THEN fresh \cup {k} ELSE fresh
  BY <1>0 DEF Hot!Look, Hot!CaptureKey
<1>4. QueuesFollow /\ Hot!Heard(d) /\ \A e \in Keyboards : Len(queue[e]) \in Nat
  <2>1. QueuesFollow /\ Hot!TypeOK
    BY DEF HotInv
  <2>2. queue \in [Keyboards -> Seq(HotEvents)]
    BY <2>1 DEF Hot!TypeOK, HotEvents
  <2>3. \A e \in Keyboards : Len(queue[e]) \in Nat
    BY ONLY <2>2
  <2> QED  BY <1>1, <2>1, <2>3 DEF QueuesFollow
<1>5. PressesAreFresh'
  BY <1>2, <1>3 DEF HotInv, PressesAreFresh, Hot!Translated
<1>6. kind = "release" => Hot!Translated(kind) # {}
  BY DEF Hot!Translated
<1>7. ASSUME NEW i \in 2..n
      PROVE  i - 1 \in 1..Len(queue'[d]) /\ queue'[d][i - 1] = queue[d][i]
  BY ONLY <1>1, <1>0, i \in 2..n
<1>8. QueuesFollow'
  <2>1. ASSUME NEW e \in Keyboards, queue'[e] # <<>> PROVE Hot!Heard(e)
    BY ONLY <2>1, <1>1, <1>4, e \in Keyboards DEF QueuesFollow
  <2>2. ASSUME NEW e \in Keyboards, NEW i \in 1..Len(queue'[e]), queue'[e][i][2] # "release"
        PROVE  \/ queue'[e][i][1] \in held[e]
               \/ \E j \in 1..Len(queue'[e]) : i <= j /\ queue'[e][j] = <<queue'[e][i][1], "release">>
    <3>1. CASE e # d
      <4>1. queue'[e] = queue[e]
        BY ONLY <3>1, <1>1, e \in Keyboards
      <4>2. i \in 1..Len(queue[e]) /\ queue[e][i][2] # "release"
        BY ONLY <4>1, <2>2, i \in 1..Len(queue'[e])
      <4>3. \/ queue[e][i][1] \in held[e]
            \/ \E j \in 1..Len(queue[e]) : i <= j /\ queue[e][j] = <<queue[e][i][1], "release">>
        BY ONLY <4>2, <1>4, e \in Keyboards DEF QueuesFollow
      <4> QED  BY ONLY <4>1, <4>3
    <3>2. CASE e = d
      <4>1. i + 1 \in 1..n /\ queue'[d][i] = queue[d][i + 1] /\ i \in Nat
        BY ONLY <3>2, <1>1, <1>0, i \in 1..Len(queue'[e])
      <4>2. \/ queue[d][i + 1][1] \in held[d]
            \/ \E j \in 1..n : i + 1 <= j /\ queue[d][j] = <<queue[d][i + 1][1], "release">>
        <5>1. queue[d][i + 1][2] # "release"
          BY ONLY <4>1, <2>2, <3>2
        <5> QED  BY ONLY <4>1, <5>1, <1>4, <1>0, d \in Keyboards DEF QueuesFollow
      <4>3. CASE queue[d][i + 1][1] \in held[d]
        BY ONLY <4>1, <4>3, <3>2
      <4>4. CASE \E j \in 1..n : i + 1 <= j /\ queue[d][j] = <<queue[d][i + 1][1], "release">>
        <5>1. PICK j \in 1..n : i + 1 <= j /\ queue[d][j] = <<queue[d][i + 1][1], "release">>
          BY <4>4
        <5>2. j \in 2..n /\ i <= j - 1
          BY ONLY <5>1, <4>1, <1>1, i \in 1..Len(queue'[e]), j \in 1..n
        <5>3. j - 1 \in 1..Len(queue'[d]) /\ queue'[d][j - 1] = queue[d][j]
          BY <5>2, <1>7
        <5> QED  BY ONLY <3>2, <4>1, <5>1, <5>2, <5>3
      <4> QED  BY ONLY <4>2, <4>3, <4>4
    <3> QED  BY ONLY <3>1, <3>2
  <2> QED  BY ONLY <2>1, <2>2, <1>2 DEF QueuesFollow
<1>9. ASSUME NEW x, Fingered(x), ~(kind = "release" /\ x = k) PROVE Fingered(x)'
  <2>1. PICK e \in Keyboards : Hot!Heard(e) /\ (x \in held[e] \/ ReleaseQueued(e, x))
    BY <1>9 DEF Fingered
  <2>2. CASE x \in held[e]
    BY ONLY <2>1, <2>2, <1>2 DEF Fingered
  <2>3. CASE ReleaseQueued(e, x) /\ e # d
    <3>1. queue'[e] = queue[e]
      BY ONLY <2>3, <1>1, e \in Keyboards
    <3>2. ReleaseQueued(e, x)'
      BY ONLY <2>3, <3>1 DEF ReleaseQueued
    <3> QED  BY ONLY <3>2, <2>1, <1>2 DEF Fingered
  <2>4. CASE ReleaseQueued(e, x) /\ e = d
    <3>1. PICK i \in 1..n : queue[d][i] = <<x, "release">>
      BY ONLY <2>4, <1>0 DEF ReleaseQueued
    <3>2. i \in 2..n
      BY ONLY <3>1, <1>1, <1>9, i \in 1..n
    <3>3. i - 1 \in 1..Len(queue'[d]) /\ queue'[d][i - 1] = <<x, "release">>
      BY <3>1, <3>2, <1>7
    <3>4. ReleaseQueued(d, x)'
      BY ONLY <3>3 DEF ReleaseQueued
    <3> QED  BY ONLY <2>4, <3>4, <2>1, <1>2 DEF Fingered
  <2> QED  BY ONLY <2>1, <2>2, <2>3, <2>4
\* The key of an event read is down, or its release is queued behind it.
<1>10. kind # "release" => Fingered(k)
  <2>1. ASSUME kind # "release" PROVE k \in held[d] \/ ReleaseQueued(d, k)
    <3>1. 1 \in 1..Len(queue[d]) /\ queue[d][1][2] # "release" /\ queue[d][1][1] = k
      BY ONLY <1>1, <1>0, <2>1
    <3> QED  BY ONLY <3>1, <1>4, d \in Keyboards DEF QueuesFollow, ReleaseQueued
  <2> QED  BY ONLY <2>1, <1>4, d \in Keyboards DEF Fingered
<1>11. ASSUME ~missed' PROVE ChordFollows'
  <2>1. CASE ~missed /\ ~capture
    <3>1. ChordFollows
      BY <2>1 DEF HotInv
    <3>2. ASSUME NEW x \in pressed'
          PROVE  \/ event' # NoEvent /\ event'.kind = "release" /\ event'.key = x
                 \/ Fingered(x)'
      <4>1. pressed' = pressed /\ Fingered(x)
        BY ONLY <2>1, <3>1, <1>2, <1>3, x \in pressed' DEF ChordFollows
      <4>2. CASE kind = "release" /\ x = k
        <5>1. event' = [key |-> k, kind |-> kind, was |-> Hot!Active(keys, pressed)]
          BY ONLY <4>2, <2>1, <1>3, <1>6
        <5>2. event' # NoEvent
          <6>1. Hot!Active(keys, pressed) \in BOOLEAN
            BY DEF Hot!Active
          <6> QED  BY <5>1, <6>1, <1>1, EventAssumption DEF Hot!Keys, Hot!Kinds
        <5> QED  BY ONLY <4>2, <5>1, <5>2
      <4>3. CASE ~(kind = "release" /\ x = k)
        BY <4>1, <4>3, <1>9
      <4> QED  BY ONLY <4>2, <4>3
    <3>3. ASSUME event' # NoEvent
          PROVE  /\ event'.was = Hot!Active(keys, pressed)
                 /\ (event.kind # "release" => Fingered(event.key))'
      <4>1. event' = [key |-> k, kind |-> kind, was |-> Hot!Active(keys, pressed)]
        BY ONLY <3>3, <2>1, <1>2, <1>3
      <4>2. event'.kind = kind /\ event'.key = k /\ event'.was = Hot!Active(keys, pressed)
        BY ONLY <4>1
      <4>3. kind # "release" => Fingered(k)'
        BY <1>9, <1>10
      <4>4. (event.kind # "release" => Fingered(event.key))'
        BY ONLY <4>2, <4>3
      <4> QED  BY ONLY <4>2, <4>4
    <3>4. pressed' = pressed /\ UNCHANGED <<keys, mode, recording>>
      BY ONLY <2>1, <1>2, <1>3
    <3> QED  BY ONLY <3>1, <3>2, <3>3, <3>4 DEF ChordFollows, Hot!Active
  <2>2. CASE ~(~missed /\ ~capture)
    BY <2>2, <1>2, <1>11, MissesKeeps
  <2> QED  BY ONLY <2>1, <2>2
<1> QED  BY ONLY <1>5, <1>8, <1>11

LEMMA UnplugKeeps ==
  ASSUME HotInv, NEW d \in Keyboards, Hot!Unplug(d)
  PROVE  QueuesFollow' /\ PressesAreFresh' /\ (missed' \/ ChordFollows')
<1>1. /\ UNCHANGED <<backend, mode, keys, pressed, event, recording, fresh>>
      /\ Hot!Misses(d \in Hot!Fingers \/ event # NoEvent)
      /\ held' = [held EXCEPT ![d] = {}] /\ queue' = [queue EXCEPT ![d] = <<>>]
      /\ devices' = [devices EXCEPT ![d] = IF @ = "open" THEN "stale" ELSE @]
  BY DEF Hot!Unplug
<1>2. /\ held \in [Keyboards -> SUBSET Hot!Keys] /\ queue \in [Keyboards -> Seq(HotEvents)]
      /\ devices \in [Keyboards -> {"closed", "open", "stale"}]
      /\ QueuesFollow /\ PressesAreFresh
  BY DEF HotInv, Hot!TypeOK, HotEvents
<1>3. /\ held'[d] = {} /\ queue'[d] = <<>>
      /\ \A e \in Keyboards : e # d =>
           /\ held'[e] = held[e] /\ queue'[e] = queue[e]
           /\ Hot!Heard(e)' <=> Hot!Heard(e)
  <2>1. \A e \in Keyboards : e # d => devices'[e] = devices[e]
    BY ONLY <1>1, <1>2, d \in Keyboards
  <2>2. /\ held'[d] = {} /\ queue'[d] = <<>>
        /\ \A e \in Keyboards : e # d => held'[e] = held[e] /\ queue'[e] = queue[e]
    BY ONLY <1>1, <1>2, d \in Keyboards
  <2> QED  BY ONLY <1>1, <2>1, <2>2 DEF Hot!Heard
<1>4. QueuesFollow'
  <2>1. ASSUME NEW e \in Keyboards
        PROVE  /\ queue'[e] # <<>> => Hot!Heard(e)'
               /\ \A i \in 1..Len(queue'[e]) : queue'[e][i][2] # "release" =>
                    \/ queue'[e][i][1] \in held'[e]
                    \/ \E j \in 1..Len(queue'[e]) :
                         i <= j /\ queue'[e][j] = <<queue'[e][i][1], "release">>
    <3>1. CASE e = d
      <4>1. queue'[e] = <<>> /\ Len(queue'[e]) = 0
        BY ONLY <3>1, <1>3
      <4> QED  BY ONLY <4>1
    <3>2. CASE e # d
      <4>1. held'[e] = held[e] /\ queue'[e] = queue[e] /\ (Hot!Heard(e)' <=> Hot!Heard(e))
        BY ONLY <3>2, <1>3, e \in Keyboards
      <4>2. /\ queue[e] # <<>> => Hot!Heard(e)
            /\ \A i \in 1..Len(queue[e]) : queue[e][i][2] # "release" =>
                 \/ queue[e][i][1] \in held[e]
                 \/ \E j \in 1..Len(queue[e]) : i <= j /\ queue[e][j] = <<queue[e][i][1], "release">>
        BY ONLY <1>2, e \in Keyboards DEF QueuesFollow
      <4> QED  BY ONLY <4>1, <4>2
    <3> QED  BY ONLY <3>1, <3>2
  <2> QED  BY ONLY <2>1 DEF QueuesFollow
<1>5. PressesAreFresh'
  BY ONLY <1>1, <1>2 DEF PressesAreFresh
<1>6. ASSUME ~missed' PROVE ChordFollows'
  <2>1. CASE ~missed /\ d \notin Hot!Fingers
    <3>1. held[d] = {} /\ queue[d] = <<>>
      BY <2>1 DEF Hot!Fingers
    <3>2. ASSUME NEW x, Fingered(x) PROVE Fingered(x)'
      <4>1. PICK e \in Keyboards : Hot!Heard(e) /\ (x \in held[e] \/ ReleaseQueued(e, x))
        BY <3>2 DEF Fingered
      <4>2. e # d
        <5>1. Len(queue[d]) = 0
          BY ONLY <3>1
        <5> QED  BY ONLY <3>1, <4>1, <5>1 DEF ReleaseQueued
      <4>3. Hot!Heard(e)' /\ held'[e] = held[e] /\ queue'[e] = queue[e]
        BY ONLY <4>1, <4>2, <1>3
      <4> QED  BY ONLY <4>1, <4>3 DEF Fingered, ReleaseQueued
    <3>3. ChordFollows
      BY <2>1 DEF HotInv
    <3> QED  BY ONLY <1>1, <3>2, <3>3 DEF ChordFollows, Hot!Active
  <2>2. CASE ~(~missed /\ d \notin Hot!Fingers)
    BY <2>2, <1>1, <1>6, MissesKeeps
  <2> QED  BY ONLY <2>1, <2>2
<1> QED  BY ONLY <1>4, <1>5, <1>6

LEMMA DevicesKeep ==
  ASSUME HotInv, NEW d \in Keyboards, Hot!Plug(d) \/ Hot!Forget(d) \/ Hot!Rescan
  PROVE  QueuesFollow' /\ PressesAreFresh' /\ (missed' \/ ChordFollows')
<1>1. UNCHANGED <<held, queue, backend, mode, keys, pressed, event, recording, missed, fresh>>
  BY DEF Hot!Plug, Hot!Forget, Hot!Rescan
<1>2. ASSUME NEW e \in Keyboards, Hot!Heard(e) PROVE Hot!Heard(e)'
  <2>1. devices \in [Keyboards -> {"closed", "open", "stale"}]
    BY DEF HotInv, Hot!TypeOK
  <2>2. devices[e] = "open" => devices'[e] = "open"
    BY <2>1 DEF Hot!Plug, Hot!Forget, Hot!Rescan
  <2> QED  BY ONLY <1>1, <1>2, <2>2 DEF Hot!Heard
<1>3. QueuesFollow' /\ \A k : Fingered(k) => Fingered(k)'
  BY <1>1, <1>2, FingersStay DEF HotInv
<1>4. PressesAreFresh'
  BY <1>1 DEF HotInv, PressesAreFresh
<1>5. ChordFollows => ChordFollows'
  BY ONLY <1>1, <1>3 DEF ChordFollows, Hot!Active
<1> QED  BY <1>1, <1>3, <1>4, <1>5 DEF HotInv

LEMMA HandleKeeps ==
  ASSUME HotInv, Hot!Handle
  PROVE  QueuesFollow' /\ PressesAreFresh' /\ (missed' \/ ChordFollows')
<1>1. /\ UNCHANGED <<held, queue, devices, backend, mode, keys>>
      /\ event # NoEvent /\ event' = NoEvent /\ Hot!Misses(FALSE)
      /\ \/ Hot!Activates /\ mode = "press_to_toggle" /\ pressed' = {} /\ fresh' = {}
            /\ recording' \in {recording, "no", "begun", "stopping"}
         \/ /\ ~(Hot!Activates /\ mode = "press_to_toggle")
            /\ pressed' = Hot!Updated /\ fresh' = fresh
            /\ \/ Hot!Activates /\ recording' \in {recording, "no", "held"}
               \/ /\ ~Hot!Activates /\ Hot!Deactivates /\ mode = "hold_to_record"
                  /\ recording' \in {"no", "stopping"}
               \/ /\ ~Hot!Activates /\ ~(Hot!Deactivates /\ mode = "hold_to_record")
                  /\ recording' = recording
  BY DEF Hot!Handle, Hot!Handled, Hot!Begin, Hot!Stop, Hot!LeftAfterToggle
<1>2. \A d \in Keyboards : Hot!Heard(d) => Hot!Heard(d)'
  BY <1>1 DEF Hot!Heard
<1>3. QueuesFollow' /\ \A k : Fingered(k) => Fingered(k)'
  BY <1>1, <1>2, FingersStay DEF HotInv
<1>4. event.kind \in Hot!Kinds /\ mode \in Hot!Modes
  BY <1>1 DEF HotInv, Hot!TypeOK
<1>5. PressesAreFresh'
  BY <1>1, <1>4 DEF HotInv, PressesAreFresh, Hot!Updated, Hot!Kinds
<1>6. ASSUME ~missed' PROVE ChordFollows'
  <2>1. CASE ~missed
    <3>1. ChordFollows
      BY <2>1 DEF HotInv
    <3>2. \A k \in Hot!Updated : Fingered(k)
      BY ONLY <1>1, <3>1 DEF ChordFollows, Hot!Updated
    <3>3. \A k \in pressed' : Fingered(k)'
      BY ONLY <1>1, <1>3, <3>2
    <3>4. ASSUME recording' = "held"
          PROVE  mode' = "hold_to_record" /\ Hot!Active(keys, pressed)'
      <4>1. event.was = Hot!Active(keys, pressed) /\ (recording = "held" => event.was)
            /\ (recording = "held" => mode = "hold_to_record")
        BY ONLY <1>1, <3>1 DEF ChordFollows
      <4>2. Hot!NowActive /\ mode = "hold_to_record" /\ pressed' = Hot!Updated
        BY ONLY <1>1, <1>4, <3>4, <4>1 DEF Hot!Activates, Hot!Deactivates, Hot!Modes
      <4> QED  BY ONLY <1>1, <4>2 DEF Hot!NowActive, Hot!Active
    <3> QED  BY ONLY <1>1, <3>3, <3>4 DEF ChordFollows
  <2>2. CASE missed
    BY <2>2, <1>1, <1>6, MissesKeeps
  <2> QED  BY ONLY <2>1, <2>2
<1> QED  BY ONLY <1>3, <1>5, <1>6

\* The window and the API: whatever moves the chord under the fingers is
\* remembered as a release that may be missed.
LEMMA ApiKeeps ==
  ASSUME HotInv,
         \/ Hot!Window
         \/ Hot!UpdateConfig \/ Hot!ReloadKeys \/ Hot!StartCapture \/ Hot!StopCapture
  PROVE  QueuesFollow' /\ PressesAreFresh' /\ (missed' \/ ChordFollows')
<1>1. UNCHANGED <<held, queue, devices, backend, event, fresh>> /\ pressed' \in {pressed, {}}
  BY DEF Hot!Window, Hot!UpdateConfig, Hot!ReloadKeys, Hot!StartCapture, Hot!StopCapture
<1>2. \A d \in Keyboards : Hot!Heard(d) => Hot!Heard(d)'
  BY <1>1 DEF Hot!Heard
<1>3. QueuesFollow' /\ \A k : Fingered(k) => Fingered(k)'
  BY <1>1, <1>2, FingersStay DEF HotInv
<1>4. PressesAreFresh'
  BY <1>1 DEF HotInv, PressesAreFresh
<1>5. ASSUME ~missed' PROVE ChordFollows'
  <2>1. \/ /\ Hot!Window /\ Hot!Misses(FALSE) /\ UNCHANGED <<mode, keys, pressed>>
           /\ recording' # recording /\ recording' # "held"
        \/ Hot!UpdateConfig /\ Hot!Misses(mode' # mode) /\ UNCHANGED <<keys, pressed, recording>>
        \/ Hot!Misses(TRUE)
    BY DEF Hot!Window, Hot!Begin, Hot!Stop, Hot!UpdateConfig, Hot!ReloadKeys,
       Hot!StartCapture, Hot!StopCapture
  <2>2. CASE ChordFollows'
    BY <2>2
  <2>3. CASE ~ChordFollows'
    <3>1. /\ ~missed /\ UNCHANGED <<mode, keys, pressed>>
          /\ (recording' = "held" => recording = "held")
      BY <2>1, <2>3, <1>5, MissesKeeps
    <3>2. ChordFollows
      BY <3>1 DEF HotInv
    <3> QED  BY ONLY <1>1, <1>3, <3>1, <3>2 DEF ChordFollows, Hot!Active
  <2> QED  BY <2>2, <2>3
<1> QED  BY ONLY <1>3, <1>4, <1>5

LEMMA NextHot == HotInv /\ [Hot!Next]_hotkeyVars => HotInv'
<1> SUFFICES ASSUME HotInv, [Hot!Next]_hotkeyVars PROVE HotInv'
  OBVIOUS
<1>1. Hot!TypeOK'
  BY NextHotTypes DEF HotInv
<1>2. CASE UNCHANGED hotkeyVars
  <2>1. /\ UNCHANGED <<held, queue, devices, backend, mode, keys, pressed, event, recording>>
        /\ UNCHANGED <<missed, fresh>>
    BY <1>2 DEF hotkeyVars
  <2>2. QueuesFollow' /\ \A k : Fingered(k) => Fingered(k)'
    BY <2>1, FingersStay DEF HotInv, Hot!Heard
  <2>3. ChordFollows => ChordFollows'
    BY ONLY <2>1, <2>2 DEF ChordFollows, Hot!Active
  <2> QED  BY <1>1, <2>1, <2>2, <2>3 DEF HotInv, PressesAreFresh
<1>3. CASE Hot!Next
  <2>1. ASSUME Hot!Rescan PROVE \E d \in Keyboards : TRUE
    BY <2>1 DEF Hot!Rescan, HotInv, Hot!TypeOK
  <2> QED  BY <1>1, <1>3, <2>1, KeyKeeps, LookKeeps, UnplugKeeps, DevicesKeep, HandleKeeps,
       ApiKeeps
        DEF Hot!Next, HotInv
<1> QED  BY <1>2, <1>3

LEMMA HotFollows == HotInv => RecordingFollowsChord
<1> SUFFICES ASSUME HotInv PROVE RecordingFollowsChord
  OBVIOUS
<1>1. Hot!HeldWhileRecording
  <2>1. ASSUME recording = "held", event = NoEvent, \A d \in Keyboards : queue[d] = <<>>, ~missed
        PROVE  Hot!ChordIsDown
    <3>1. ChordFollows
      BY <2>1 DEF HotInv
    <3>2. \A k \in pressed : \E d \in Keyboards : k \in held[d]
      <4>1. \A d \in Keyboards : Len(queue[d]) = 0
        BY ONLY <2>1
      <4>2. \A d \in Keyboards : \A k : ~ReleaseQueued(d, k)
        BY ONLY <4>1 DEF ReleaseQueued
      <4>3. \A k \in pressed : Fingered(k)
        BY ONLY <2>1, <3>1 DEF ChordFollows
      <4> QED  BY ONLY <4>2, <4>3 DEF Fingered
    <3>3. pressed \subseteq UNION {held[d] : d \in Keyboards}
      BY ONLY <3>2
    <3>4. Hot!Active(keys, pressed)
      BY ONLY <2>1, <3>1 DEF ChordFollows
    <3> DEFINE down == UNION {held[d] : d \in Keyboards}
    <3> HIDE DEF down
    <3>5. Hot!Active(keys, down)
      <4>1. pressed \subseteq down
        BY <3>3 DEF down
      <4> QED  BY ONLY <3>4, <4>1 DEF Hot!Active
    <3> QED  BY <3>5 DEF Hot!ChordIsDown, down
  <2> QED  BY <2>1 DEF Hot!HeldWhileRecording
<1>2. Hot!OneToggleAPress
  <2>1. ASSUME event # NoEvent, backend = "evdev", Hot!Activates PROVE Hot!Active(keys, fresh)
    <3>1. event.kind \in Hot!Kinds
      BY <2>1 DEF HotInv, Hot!TypeOK
    <3>2. Hot!Updated \subseteq fresh
      BY <2>1, <3>1 DEF HotInv, PressesAreFresh, Hot!Updated, Hot!Kinds
    <3> QED  BY ONLY <2>1, <3>2 DEF Hot!Activates, Hot!NowActive, Hot!Active
  <2> QED  BY <2>1 DEF Hot!OneToggleAPress
<1> QED  BY <1>1, <1>2 DEF HotInv, RecordingFollowsChord

-----------------------------------------------------------------------------
(* DefaultPrompt.  A deletion that takes the default either goes on to     *)
(* forget it or is one of those the history remembers.                     *)

LEMMA InitDefault == Default!Init => DefaultPromptExists
BY PromptAssumption DEF Default!Init, DefaultPromptExists, Default!TypeOK,
   Default!DefaultIsThere,
   Default!Existing

Flat ==
  /\ Default!Existing \subseteq Prompts
  /\ \A t \in Default!Existing : root[t] \in Default!Existing /\ root[root[t]] = root[t]

HandlersTyped ==
  /\ prompt \in Prompts \cup {NoPrompt} /\ handlers \subseteq Default!Handler
  /\ unnoticed \subseteq Prompts \cup {NoPrompt}

LEMMA AtIsHandler ==
  ASSUME NEW place \in {"forget", "set"}, NEW t \in Prompts \cup {NoPrompt}
  PROVE  /\ Default!At(place, t) \in Default!Handler
         /\ Default!At(place, t).at = place /\ Default!At(place, t).prompt = t
BY DEF Default!At, Default!Handler

\* What is left is flat, and the default is there still, is the one that the
\* handler compares, or is remembered.
LEMMA DeleteLeaves ==
  ASSUME Flat, HandlersTyped, NEW S \in SUBSET Default!Existing, NEW id, Default!DeleteRows(S, id),
         prompt' = prompt
  PROVE  /\ Flat' /\ unnoticed' \subseteq Prompts \cup {NoPrompt} /\ unnoticed \subseteq unnoticed'
         /\ Default!Has(prompt) =>
              Default!Has(prompt)' \/ (prompt = id /\ S # {}) \/ prompt \in unnoticed'
<1> DEFINE gone == S \cup Default!Members(S)
<1>1. /\ root' = [t \in Default!Existing \ gone |-> root[t]]
      /\ unnoticed' = unnoticed \cup ((gone \cap {prompt}) \ {id})
  BY DEF Default!DeleteRows
<1>2. gone \subseteq Default!Existing /\ gone \subseteq Prompts
  BY DEF Default!Members, Flat
<1>3. \A t \in Default!Existing \ gone : root[t] \in Default!Existing \ gone
  BY DEF Default!Members, Flat
<1>4. S = {} => gone = {}
  BY DEF Default!Members
<1> HIDE DEF gone
<1>5. Flat'
  BY <1>1, <1>3 DEF Flat, Default!Existing
<1>6. Default!Has(prompt) => Default!Has(prompt)' \/ (prompt = id /\ S # {}) \/ prompt \in unnoticed'
  <2>1. (DOMAIN root)' = DOMAIN root \ gone
    BY <1>1 DEF Default!Existing
  <2>2. CASE prompt \in gone
    BY <1>1, <1>4, <2>2
  <2>3. CASE prompt \notin gone
    BY <2>1, <2>3 DEF Default!Has
  <2> QED  BY <2>2, <2>3
<1> QED  BY <1>1, <1>2, <1>5, <1>6 DEF HandlersTyped

\* Handlers come and go; the one that forgets a default does not, or forgets it.
LEMMA NextDefault ==
  DefaultPromptExists /\ [Default!Next]_promptVars => DefaultPromptExists'
<1> SUFFICES ASSUME DefaultPromptExists, [Default!Next]_promptVars PROVE DefaultPromptExists'
  OBVIOUS
<1>1. Flat /\ HandlersTyped /\ Default!DefaultIsThere
  BY DEF DefaultPromptExists, Default!TypeOK, Flat, HandlersTyped
<1>2. SUFFICES Flat' /\ HandlersTyped' /\ Default!DefaultIsThere'
  BY DEF DefaultPromptExists, Default!TypeOK, Flat, HandlersTyped
<1>3. ASSUME NEW t \in Prompts, NEW s \in Prompts, Default!AppendToTranscript(t, s)
      PROVE  Flat' /\ HandlersTyped' /\ Default!DefaultIsThere'
  <2>1. /\ root' = [u \in Default!Existing |-> IF root[u] = s THEN root[t] ELSE root[u]]
        /\ UNCHANGED <<prompt, handlers, unnoticed>>
        /\ t \in Default!Existing /\ s \in Default!Existing /\ root[s] = s /\ root[t] # s
    BY <1>3 DEF Default!AppendToTranscript, Default!Has, Default!Existing
  <2>2. Flat'
    BY <2>1, <1>1 DEF Flat, Default!Existing
  <2> QED  BY <2>1, <2>2, <1>1 DEF HandlersTyped, Default!DefaultIsThere, Default!Has,
               Default!Existing, Default!Forgetting
<1>4. ASSUME NEW t \in Prompts, Default!DeleteTranscript(t)
      PROVE  Flat' /\ HandlersTyped' /\ Default!DefaultIsThere'
  <2>1. /\ {t} \in SUBSET Default!Existing /\ Default!DeleteRows({t}, t) /\ prompt' = prompt
        /\ handlers' = handlers \cup {Default!At("forget", t)}
    BY <1>4 DEF Default!DeleteTranscript, Default!Deletable, Default!Has, Default!Existing,
       Default!Begin
  <2>2. /\ Flat' /\ unnoticed' \subseteq Prompts \cup {NoPrompt} /\ unnoticed \subseteq unnoticed'
        /\ Default!Has(prompt) => Default!Has(prompt)' \/ prompt = t \/ prompt \in unnoticed'
    BY <2>1, <1>1, DeleteLeaves
  <2>3. HandlersTyped'
    <3>1. Default!At("forget", t) \in Default!Handler
      BY AtIsHandler
    <3> QED  BY <2>1, <2>2, <3>1, <1>1 DEF HandlersTyped
  <2>4. Default!Forgetting(t)'
    <3>1. Default!At("forget", t).at = "forget" /\ Default!At("forget", t).prompt = t
      BY AtIsHandler
    <3> QED  BY <2>1, <3>1 DEF Default!Forgetting
  <2>5. Default!Forgetting(prompt) => Default!Forgetting(prompt)'
    BY <2>1 DEF Default!Forgetting
  <2>6. Default!DefaultIsThere'
    BY <2>1, <2>2, <2>4, <2>5, <1>1 DEF Default!DefaultIsThere, Default!Has,
       Default!Forgetting
  <2> QED  BY <2>2, <2>3, <2>6
<1>5. ASSUME NEW h \in handlers, Default!DeleteMany(h)
      PROVE  Flat' /\ HandlersTyped' /\ Default!DefaultIsThere'
  <2>1. PICK S \in SUBSET Default!Existing :
          /\ Default!DeleteRows(S, h.prompt) /\ prompt' = prompt /\ h.at = "delete"
          /\ IF S # {} /\ h.prompt # NoPrompt
             THEN handlers' = (handlers \ {h}) \cup {Default!At("forget", h.prompt)}
             ELSE handlers' = handlers \ {h}
    <3> DEFINE S == IF h.all THEN Default!Existing \ Protected
                    ELSE {t \in h.ids : Default!Deletable(t)}
    <3>1. S \in SUBSET Default!Existing
      BY DEF Default!Deletable, Default!Has, Default!Existing
    <3>2. /\ Default!DeleteRows(S, h.prompt) /\ prompt' = prompt /\ h.at = "delete"
          /\ IF S # {} /\ h.prompt # NoPrompt
             THEN handlers' = (handlers \ {h}) \cup {Default!At("forget", h.prompt)}
             ELSE handlers' = handlers \ {h}
      BY <1>5 DEF Default!DeleteMany, Default!Go, Default!End
    <3> QED  BY <3>1, <3>2
  <2>2. /\ Flat' /\ unnoticed' \subseteq Prompts \cup {NoPrompt} /\ unnoticed \subseteq unnoticed'
        /\ Default!Has(prompt) =>
             Default!Has(prompt)' \/ (prompt = h.prompt /\ S # {}) \/ prompt \in unnoticed'
    BY <2>1, <1>1, DeleteLeaves
  <2>0. h \in Default!Handler
    BY <1>1 DEF HandlersTyped
  <2>7. h.prompt \in Prompts \cup {NoPrompt}
    BY <2>0 DEF Default!Handler
  <2>8. /\ Default!At("forget", h.prompt) \in Default!Handler
        /\ Default!At("forget", h.prompt).at = "forget"
        /\ Default!At("forget", h.prompt).prompt = h.prompt
    BY <2>7, AtIsHandler
  <2>3. HandlersTyped'
    BY <2>8, <2>1, <2>2, <1>1 DEF HandlersTyped
  <2>4. prompt # NoPrompt /\ prompt = h.prompt /\ S # {} => Default!Forgetting(prompt)'
    BY <2>1, <2>8 DEF Default!Forgetting
  <2>5. Default!Forgetting(prompt) => Default!Forgetting(prompt)'
    BY <2>1 DEF Default!Forgetting
  <2>6. Default!DefaultIsThere'
    BY <2>1, <2>2, <2>4, <2>5, <1>1 DEF Default!DefaultIsThere, Default!Has,
       Default!Forgetting
  <2> QED  BY <2>2, <2>3, <2>6
<1>6. ASSUME UNCHANGED <<root, prompt, unnoticed>>, handlers' \subseteq Default!Handler,
             \A k \in handlers : k.at = "forget" => k \in handlers'
      PROVE  Flat' /\ HandlersTyped' /\ Default!DefaultIsThere'
  <2>1. Flat'
    BY <1>1, <1>6 DEF Flat, Default!Existing
  <2>2. HandlersTyped'
    BY <1>1, <1>6 DEF HandlersTyped
  <2>3. Default!DefaultIsThere'
    BY <1>1, <1>6 DEF Default!DefaultIsThere, Default!Has, Default!Forgetting
  <2> QED  BY <2>1, <2>2, <2>3
<1>7. ASSUME NEW S \in SUBSET Prompts, Default!BatchDelete(S) \/ Default!ClearAll
      PROVE  Flat' /\ HandlersTyped' /\ Default!DefaultIsThere'
  <2>0. prompt \in Prompts \cup {NoPrompt} /\ handlers \subseteq Default!Handler
    BY <1>1 DEF HandlersTyped
  <2>1. PICK T \in SUBSET Prompts, all \in BOOLEAN :
          /\ handlers' = handlers \cup
               {[at |-> "look", prompt |-> prompt, ids |-> T, all |-> all]}
          /\ UNCHANGED <<root, prompt, unnoticed>>
    BY <1>7 DEF Default!BatchDelete, Default!ClearAll, Default!Begin
  <2>2. [at |-> "look", prompt |-> prompt, ids |-> T, all |-> all] \in Default!Handler
    BY <2>0 DEF Default!Handler
  <2> QED  BY <2>0, <2>1, <2>2, <1>6
<1>8. ASSUME NEW t \in Prompts, Default!ChoosePrompt(t)
      PROVE  Flat' /\ HandlersTyped' /\ Default!DefaultIsThere'
  <2>1. Default!At("set", t) \in Default!Handler
    BY AtIsHandler
  <2> QED  BY <1>1, <1>6, <1>8, <2>1 DEF Default!ChoosePrompt, Default!Begin, HandlersTyped
<1>9. ASSUME NEW h \in handlers, Default!LookAtPrompt(h)
      PROVE  Flat' /\ HandlersTyped' /\ Default!DefaultIsThere'
  <2>1. PICK t \in {h.prompt, NoPrompt} :
          /\ handlers' = (handlers \ {h}) \cup {[h EXCEPT !.at = "delete", !.prompt = t]}
          /\ h.at = "look" /\ UNCHANGED <<root, prompt, unnoticed>>
    BY <1>9 DEF Default!LookAtPrompt, Default!Go
  <2>2. h \in Default!Handler /\ handlers \subseteq Default!Handler
    BY <1>1 DEF HandlersTyped
  <2>3. [h EXCEPT !.at = "delete", !.prompt = t] \in Default!Handler
    BY <2>1, <2>2 DEF Default!Handler
  <2> QED  BY <2>1, <2>2, <2>3, <1>6
<1>10. ASSUME NEW h \in handlers, Default!Forget(h)
       PROVE  Flat' /\ HandlersTyped' /\ Default!DefaultIsThere'
  <2>1. /\ handlers' = handlers \ {h} /\ UNCHANGED <<root, unnoticed>>
        /\ prompt' = IF prompt = h.prompt THEN NoPrompt ELSE prompt
    BY <1>10 DEF Default!Forget, Default!End
  <2>2. Flat' /\ HandlersTyped'
    BY <2>1, <1>1 DEF Flat, HandlersTyped, Default!Existing
  <2>3. Default!DefaultIsThere'
    BY <2>1, <1>1 DEF Default!DefaultIsThere, Default!Has, Default!Forgetting
  <2> QED  BY <2>2, <2>3
<1>11. ASSUME NEW h \in handlers, Default!SetPrompt(h)
       PROVE  Flat' /\ HandlersTyped' /\ Default!DefaultIsThere'
  <2>1. /\ handlers' = handlers \ {h} /\ prompt' = h.prompt /\ root' = root /\ h.at = "set"
        /\ unnoticed' = IF Default!Has(h.prompt) THEN unnoticed ELSE unnoticed \cup {h.prompt}
    BY <1>11 DEF Default!SetPrompt, Default!End
  <2>0. h.prompt \in Prompts \cup {NoPrompt}
    <3>1. h \in Default!Handler
      BY <1>1 DEF HandlersTyped
    <3> QED  BY <3>1 DEF Default!Handler
  <2>2. Flat' /\ HandlersTyped'
    BY <2>0, <2>1, <1>1 DEF Flat, HandlersTyped, Default!Existing
  <2>3. Default!DefaultIsThere'
    BY <2>1 DEF Default!DefaultIsThere, Default!Has
  <2> QED  BY <2>2, <2>3
<1>12. ASSUME Default!ClearPrompt PROVE Flat' /\ HandlersTyped' /\ Default!DefaultIsThere'
  BY <1>1, <1>12 DEF Default!ClearPrompt, Flat, HandlersTyped, Default!Existing,
     Default!DefaultIsThere
<1>13. ASSUME Default!Restart PROVE Flat' /\ HandlersTyped' /\ Default!DefaultIsThere'
  <2>1. /\ handlers' = {} /\ UNCHANGED <<root, prompt>>
        /\ unnoticed' = IF Default!Forgetting(prompt) THEN unnoticed \cup {prompt} ELSE unnoticed
    BY <1>13 DEF Default!Restart
  <2>0. prompt \in Prompts \cup {NoPrompt}
    BY <1>1 DEF HandlersTyped
  <2>2. Flat' /\ HandlersTyped'
    BY <2>0, <2>1, <1>1 DEF Flat, HandlersTyped, Default!Existing
  <2>3. Default!DefaultIsThere'
    BY <2>1, <1>1 DEF Default!DefaultIsThere, Default!Has
  <2> QED  BY <2>2, <2>3
<1>14. CASE UNCHANGED promptVars
  BY <1>1, <1>6, <1>14 DEF promptVars, HandlersTyped
<1> QED
  BY <1>3, <1>4, <1>5, <1>7, <1>8, <1>9, <1>10, <1>11, <1>12, <1>13, <1>14 DEF Default!Next

-----------------------------------------------------------------------------
(* A step of the composition is a step of the component it is of, and      *)
(* leaves the others alone.                                                *)
LEMMA StepOfParts ==
  [SafeNext]_safeVars =>
    /\ [Lock!Next]_lockVars /\ [Secret!Next]_secretVars
    /\ [Setting!Next]_settingsVars /\ [Fanout!Next]_eventVars /\ [Hot!Next]_hotkeyVars
    /\ [Default!Next]_promptVars
BY DEF SafeNext, safeVars

(* An instance that was alone on its way up stays the only one until it is *)
(* stopped, leaves or dies, unless its id is removed under a reader:       *)
(* _acquire_lock and _cleanup_stale_lock, with any number of processes and *)
(* of lock files.                                                          *)
THEOREM SafeHasOneInstance == SafeSpec => []OneInstance
<1>1. SafeInit => LockInv
  BY InitLock DEF SafeInit
<1>2. LockInv /\ [SafeNext]_safeVars => LockInv'
  BY StepOfParts, NextLock
<1> QED  BY <1>1, <1>2, LockIsSafe, PTL DEF SafeSpec

(* An acknowledged key is in the store, and so is the key of all encrypted *)
(* audio on disk, at every moment: the callers of secret_store.py, with    *)
(* any number of accounts, threads and failures.                           *)
THEOREM SafeKeepsSecrets == SafeSpec => []SecretsAreKept
<1>1. SafeInit => SecretInv
  BY InitSecret DEF SafeInit
<1>2. SecretInv /\ [SafeNext]_safeVars => SecretInv'
  BY StepOfParts, NextSecret
<1>3. SecretInv => SecretsAreKept
  BY DEF SecretInv, SecretTypes, AudioHasKey, KeysAgree, SecretsAreKept, Secret!KeysAreKept,
    Secret!RecordingsOpen, Secret!Accounts, Secret!TypeOK
<1> QED  BY <1>1, <1>2, <1>3, PTL DEF SafeSpec

(* While updates do not overlap, every copy of the settings is the file's  *)
(* and a saved field stays; no key an old file holds is lost on its way to *)
(* the secret store: settings.py and handle_update_config, with any fields *)
(* and values, any number of failed writes and crashes.                    *)
THEOREM SafeSettingsAgree == SafeSpec => []SettingsAgree
<1>1. SafeInit => SettingInv
  BY InitSetting DEF SafeInit
<1>2. SettingInv /\ [SafeNext]_safeVars => SettingInv'
  BY StepOfParts, NextSetting
<1>3. SettingInv => SettingsAgree
  BY DEF SettingInv, SettingTypes, OneUpdate, Followers, FileIsMemory, KeysMove, Moved,
    SettingsAgree, Setting!CopiesAgree, Setting!SavedStays, Setting!KeysAreMoved,
    Setting!Kept
<1> QED  BY <1>1, <1>2, <1>3, PTL DEF SafeSpec

(* No window gets an event twice; with one window at a time the events of  *)
(* a thread come in their order; and a window misses none of those emitted *)
(* while it is there: broadcast_threadsafe and _do_broadcast, with any     *)
(* number of windows, emitting threads and events.                         *)
THEOREM SafeDeliversInOrder == SafeSpec => []DeliveredInOrder
<1>1. SafeInit => FanoutInv
  BY InitFanout DEF SafeInit
<1>2. FanoutInv /\ [SafeNext]_safeVars => FanoutInv'
  BY StepOfParts, NextFanout
<1> QED  BY <1>1, <1>2, FanoutDelivers, PTL DEF SafeSpec

(* The microphone is open only while the chord is down, unless a release   *)
(* was missed, and each press of a chord toggles once: key_chord,          *)
(* on_input_event, the backends and the callbacks of the coordinator, with *)
(* any number of keyboards, keys and chords and whatever is queued.        *)
THEOREM SafeFollowsChord == SafeSpec => []RecordingFollowsChord
<1>1. SafeInit => HotInv
  BY InitHot DEF SafeInit
<1>2. HotInv /\ [SafeNext]_safeVars => HotInv'
  BY StepOfParts, NextHot
<1> QED  BY <1>1, <1>2, HotFollows, PTL DEF SafeSpec

(* A deleted default prompt is forgotten by the handler that deletes it,   *)
(* when that one read it as the default and nobody sets it after: the      *)
(* handlers and routes that delete, with any number of transcripts and of  *)
(* handlers at once.                                                       *)
THEOREM SafeDefaultExists == SafeSpec => []DefaultPromptExists
<1>1. SafeInit => DefaultPromptExists
  BY InitDefault DEF SafeInit
<1>2. DefaultPromptExists /\ [SafeNext]_safeVars => DefaultPromptExists'
  BY StepOfParts, NextDefault
<1> QED  BY <1>1, <1>2, PTL DEF SafeSpec
===============================================================================
