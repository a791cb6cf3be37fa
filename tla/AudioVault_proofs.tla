--------------------------- MODULE AudioVault_proofs ---------------------------
(***************************************************************************)
(* Theorems about AudioVault for every block size, durability interval and  *)
(* recording length, with readers at work that may raise, and any sequence  *)
(* of kills and power losses: the file stays gapless; but for a repair that *)
(* raises, it keeps what was fsynced and lacks less than one interval and   *)
(* one block of what was heard; the rows in the database say of it what is  *)
(* so.                                                                      *)
(***************************************************************************)
EXTENDS AudioVault, SequenceTheorems, TLAPS

\* The writer's counters and the file agree at each of its steps.
WriterInStep ==
  /\ wpc \in {"idle", "commit", "close"} =>
       /\ synced = Len(chunks) /\ nextChunk = Len(chunks)
       /\ frameCursor = FileEnd /\ heard = FileEnd + pending
  /\ wpc \in {"flushed", "synced"} =>
       /\ Len(chunks) = nextChunk + 1
       /\ chunks[nextChunk + 1].start = frameCursor
       /\ heard = FileEnd + pending
  /\ wpc = "flushed" => synced = nextChunk
  /\ wpc = "synced" => synced = nextChunk + 1

\* What it has yet to commit.
PendingIsBounded ==
  /\ wpc \in {"commit", "flushed", "synced"} => pending < ChunkFrames + Block
  /\ wpc \in {"flushed", "synced"} => pending + chunks[nextChunk + 1].n < ChunkFrames + Block
  /\ wpc = "idle" => pending < ChunkFrames /\ ~closing
  /\ wpc = "commit" => IF closing THEN pending > 0 ELSE pending >= ChunkFrames
  /\ wpc = "close" => pending = 0 /\ closing
  /\ closing /\ wpc \in {"flushed", "synced"} => pending = 0

\* Whatever part of the unsynced chunks is lost, little audio is.
CutIsBounded ==
  /\ synced <= Len(chunks)
  /\ failedAt = {} =>
       \A k \in synced..Len(chunks) : heard < EndOf(chunks, k) + ChunkFrames + Block

PromiseIsSynced ==
  \A i \in 1..Len(promised) :
    \/ i <= synced /\ chunks[i] = promised[i]
    \/ \E k \in failedAt : k <= i

\* A file that was repaired has no writer.
RepairedLater ==
  /\ reader \in {"repair", "down"} => wpc = "gone"
  /\ failedAt # {} => wpc = "gone"

IInv ==
  TypeOK /\ ChunksAreGapless /\ WriterInStep /\ PendingIsBounded
    /\ CutIsBounded /\ PromiseIsSynced /\ RepairedLater

\* A file cut at k has the chunks up to it as they were.
LEMMA CutFile ==
  ASSUME chunks \in Seq(Chunk), NEW k \in 0..Len(chunks), chunks' = SubSeq(chunks, 1, k)
  PROVE  /\ chunks' \in Seq(Chunk) /\ Len(chunks') = k
         /\ \A i \in 1..k : chunks'[i] = chunks[i]
         /\ \A i \in 0..k : EndOf(chunks', i) = EndOf(chunks, i)
         /\ ChunksAreGapless => ChunksAreGapless'
  <1>1. Len(chunks) \in Nat /\ k \in Nat /\ k <= Len(chunks)
    OBVIOUS
  <1>2. chunks' \in Seq(Chunk) /\ Len(chunks') = k /\ \A i \in 1..k : chunks'[i] = chunks[i]
    BY <1>1
  <1>3. \A i \in 0..k : EndOf(chunks', i) = EndOf(chunks, i)
    BY <1>1, <1>2 DEF EndOf
  <1>4. ChunksAreGapless => ChunksAreGapless'
    <2>1. \A i \in 1..k : i \in 1..Len(chunks) /\ i - 1 \in 0..k
      BY <1>1
    <2> QED
      BY ONLY <1>1, <1>2, <1>3, <2>1 DEF ChunksAreGapless
  <1> QED
    BY <1>2, <1>3, <1>4

\* The writer starts in step with an empty file.
LEMMA InitIInv == Init => IInv
  <1> SUFFICES ASSUME Init PROVE IInv
    OBVIOUS
  <1> USE VaultAssumption DEF Init
  <1>1. TypeOK
    <2>1. chunks \in Seq(Chunk) /\ promised \in Seq(Chunk)
      BY DEF Chunk
    <2>2. closing \in BOOLEAN /\ failedAt = {} /\ misread \in BOOLEAN
      OBVIOUS
    <2> QED
      BY <2>1, <2>2 DEF TypeOK
  <1>2. ChunksAreGapless /\ PromiseIsSynced
    BY DEF ChunksAreGapless, PromiseIsSynced
  <1>3. WriterInStep /\ PendingIsBounded
    BY DEF WriterInStep, PendingIsBounded, FileEnd, EndOf
  <1>4. CutIsBounded /\ RepairedLater
    BY DEF CutIsBounded, RepairedLater, EndOf
  <1> QED
    BY <1>1, <1>2, <1>3, <1>4 DEF IInv

\* Recording a chunk keeps the rows and counters well typed.
LEMMA AddRowType ==
  ASSUME NEW c \in Chunk, rows \subseteq Chunk, lastDurable \in Nat, AddRow(c)
  PROVE  rows' \subseteq Chunk /\ frameCount' \in Nat /\ lastDurable' \in Nat
  <1>1. c.index \in Nat /\ c.start \in Nat /\ c.n \in Nat
    BY DEF Chunk
  <1>2. rows' \subseteq Chunk
    BY DEF AddRow
  <1>3. frameCount' \in Nat
    BY <1>1 DEF AddRow
  <1>4. lastDurable' \in Nat
    BY <1>1 DEF AddRow
  <1> QED
    BY <1>2, <1>3, <1>4

\* Every step of the writer, of a reader, and every way the process dies keeps
\* the invariant: a commit writes, fsyncs and records before it counts, and a
\* power loss cuts between what is synced and what is written.
LEMMA NextIInv == IInv /\ [Next]_vars => IInv'
  <1> SUFFICES ASSUME IInv, [Next]_vars
               PROVE  IInv'
    OBVIOUS
  <1> USE VaultAssumption
      DEF IInv, TypeOK, ChunksAreGapless, WriterInStep, PendingIsBounded,
          CutIsBounded, PromiseIsSynced, RepairedLater, EndOf, FileEnd, faultVars
  <1>1. CASE WriteFrames
    <2> USE <1>1 DEF WriteFrames, fileVars, rowVars, readerVars
    <2>1. TypeOK'
      OBVIOUS
    <2>2. ChunksAreGapless'
      OBVIOUS
    <2>3. WriterInStep'
      <3>0. /\ heard' = heard + Block /\ pending' = pending + Block
            /\ heard = FileEnd + pending /\ FileEnd = frameCursor
        BY ONLY <1>1, IInv DEF WriteFrames, IInv, WriterInStep
      <3>1. wpc' \in {"commit", "idle"} /\ heard' = FileEnd + pending'
        BY ONLY <1>1, <3>0, IInv, VaultAssumption, SMTT(20) DEF WriteFrames, IInv, TypeOK
      <3>2. UNCHANGED <<chunks, synced, nextChunk, frameCursor>>
        OBVIOUS
      <3> QED
        BY <3>1, <3>2
    <2>4. PendingIsBounded'
      OBVIOUS
    <2>5. CutIsBounded'
      BY SMTT(20)
    <2>6. PromiseIsSynced' /\ RepairedLater'
      OBVIOUS
    <2> QED
      BY <2>1, <2>2, <2>3, <2>4, <2>5, <2>6
  <1>2. CASE FinalizeStart
    BY <1>2 DEF FinalizeStart, fileVars, rowVars, readerVars
  <1>3. CASE CommitWrite
    <2> DEFINE n == IF closing THEN pending ELSE ChunkFrames
               c == [index |-> nextChunk, start |-> frameCursor, n |-> n]
               L == Len(chunks)
    <2>0. /\ n \in Nat \ {0} /\ n <= pending /\ c \in Chunk
          /\ L \in Nat /\ L = nextChunk /\ synced = L /\ frameCursor = EndOf(chunks, L)
          /\ heard = EndOf(chunks, L) + pending
          /\ closing => n = pending
      <3>1. wpc = "commit" /\ n \in Nat \ {0} /\ n <= pending
        BY <1>3 DEF CommitWrite
      <3>2. closing => n = pending
        OBVIOUS
      <3>3. c \in Chunk
        BY <3>1 DEF Chunk
      <3> HIDE DEF n, c
      <3> QED
        BY <3>1, <3>2, <3>3
    <2>1. /\ chunks' = Append(chunks, c) /\ chunks' \in Seq(Chunk)
          /\ Len(chunks') = L + 1 /\ chunks'[L + 1] = c
          /\ \A i \in 1..L : chunks'[i] = chunks[i]
      <3>1. chunks' = Append(chunks, c) /\ chunks \in Seq(Chunk) /\ c \in Chunk
        BY <2>0, <1>3 DEF CommitWrite
      <3> HIDE DEF c
      <3> QED
        BY ONLY <3>1
    <2>2. /\ wpc = "commit" /\ wpc' = "flushed" /\ pending' = pending - n
          /\ UNCHANGED <<nextChunk, frameCursor, closing, tail, synced, rows,
                         frameCount, lastDurable, status, reader, pos, crashes,
                         heard, promised, faults, failedAt, misread>>
      BY <1>3 DEF CommitWrite, rowVars, readerVars
    <2>3. /\ \A k \in 0..L : EndOf(chunks', k) = EndOf(chunks, k)
          /\ EndOf(chunks', L + 1) = frameCursor + n
      BY <2>0, <2>1
    <2> HIDE DEF n, c
    <2>4. pending' \in Nat /\ TypeOK'
      BY <2>0, <2>1, <2>2
    <2>5. ChunksAreGapless'
      <3> SUFFICES ASSUME NEW i \in 1..(L + 1)
                   PROVE  chunks'[i].index = i - 1 /\ chunks'[i].start = EndOf(chunks', i - 1)
        BY <2>1
      <3>1. CASE i = L + 1
        BY <3>1, <2>0, <2>1, <2>3 DEF c
      <3>2. CASE i \in 1..L
        <4>1. /\ i - 1 \in 0..L /\ chunks'[i] = chunks[i]
              /\ chunks[i].index = i - 1 /\ chunks[i].start = EndOf(chunks, i - 1)
          BY ONLY <3>2, <2>0, <2>1, IInv DEF IInv, ChunksAreGapless
        <4> QED
          BY ONLY <4>1, <2>3
      <3> QED
        BY <3>1, <3>2, <2>0
    <2>6. WriterInStep'
      BY <2>0, <2>1, <2>2, <2>3 DEF c
    <2>7. PendingIsBounded'
      BY <2>0, <2>1, <2>2 DEF c
    <2>8. CutIsBounded'
      <3>1. synced' <= Len(chunks')
        BY <2>0, <2>1, <2>2
      <3>0. /\ pending < ChunkFrames + Block /\ heard' = frameCursor + pending
            /\ pending \in Nat /\ frameCursor \in Nat /\ heard' \in Nat
            /\ EndOf(chunks', L) = frameCursor
        <4>1. pending < ChunkFrames + Block
          BY ONLY <2>2, IInv DEF IInv, PendingIsBounded
        <4>2. EndOf(chunks', L) = frameCursor
          BY ONLY <2>0, <2>3
        <4> QED
          BY ONLY <4>1, <4>2, <2>0, <2>2, IInv DEF IInv, TypeOK
      <3>2. heard' < EndOf(chunks', L) + ChunkFrames + Block
        BY ONLY <3>0, VaultAssumption
      <3>3. heard' < EndOf(chunks', L + 1) + ChunkFrames + Block
        BY ONLY <3>0, <2>0, <2>3, VaultAssumption, SMTT(20)
      <3> QED
        <4>1. synced' = L /\ Len(chunks') = L + 1 /\ L \in Nat
          BY <2>0, <2>1, <2>2
        <4> HIDE DEF L
        <4> QED
          BY ONLY <3>1, <3>2, <3>3, <4>1 DEF CutIsBounded
    <2>9. PromiseIsSynced' /\ RepairedLater'
      BY <2>0, <2>1, <2>2
    <2> QED
      BY <2>4, <2>5, <2>6, <2>7, <2>8, <2>9
  <1>4. CASE CommitSync
    <2> USE <1>4 DEF CommitSync, rowVars, readerVars
    <2>1. TypeOK'
      OBVIOUS
    <2>2. ChunksAreGapless'
      OBVIOUS
    <2>3. WriterInStep'
      OBVIOUS
    <2>4. PendingIsBounded'
      OBVIOUS
    <2>5. CutIsBounded'
      OBVIOUS
    <2>6. PromiseIsSynced' /\ RepairedLater'
      OBVIOUS
    <2> QED
      BY <2>1, <2>2, <2>3, <2>4, <2>5, <2>6
  <1>5. CASE CommitRow
    <2> USE <1>5 DEF CommitRow, AddRow, fileVars, readerVars
    <2>1. TypeOK'
      <3>1. chunks[Len(chunks)] \in Chunk
        BY Len(chunks) \in 1..Len(chunks)
      <3>2. rows' \subseteq Chunk /\ frameCount' \in Nat /\ lastDurable' \in Nat
        BY <3>1, AddRowType
      <3>3. frameCursor' \in Nat /\ nextChunk' \in Nat
        <4>1. chunks[Len(chunks)].n \in Nat
          BY ONLY <3>1 DEF Chunk
        <4>2. /\ frameCursor' = frameCursor + chunks[Len(chunks)].n
              /\ nextChunk' = nextChunk + 1
          BY ONLY <1>5 DEF CommitRow
        <4> QED
          BY ONLY <4>1, <4>2, IInv DEF IInv, TypeOK
      <3>4. wpc' \in {"close", "commit", "idle"}
        OBVIOUS
      <3> QED
        BY <3>2, <3>3, <3>4
    <2>2. ChunksAreGapless'
      OBVIOUS
    <2>3. WriterInStep'
      <3>1. /\ Len(chunks) = nextChunk + 1 /\ nextChunk \in Nat
            /\ chunks[nextChunk + 1].start = frameCursor
            /\ synced = nextChunk + 1 /\ heard = FileEnd + pending
        BY ONLY <1>5, IInv DEF CommitRow, IInv, TypeOK, WriterInStep
      <3>2. /\ nextChunk' = nextChunk + 1
            /\ frameCursor' = frameCursor + chunks[nextChunk + 1].n
            /\ UNCHANGED <<chunks, synced, heard, pending>>
        BY ONLY <1>5, <3>1 DEF CommitRow, fileVars
      <3>3. wpc' \in {"close", "commit", "idle"}
        OBVIOUS
      <3>4. FileEnd' = FileEnd /\ frameCursor' = FileEnd
        BY ONLY <3>1, <3>2 DEF FileEnd, EndOf
      <3> QED
        BY ONLY <3>1, <3>2, <3>3, <3>4 DEF WriterInStep
    <2>4. PendingIsBounded'
      OBVIOUS
    <2>5. CutIsBounded'
      OBVIOUS
    <2>6. PromiseIsSynced' /\ RepairedLater'
      OBVIOUS
    <2> QED
      BY <2>1, <2>2, <2>3, <2>4, <2>5, <2>6
  <1>6. CASE FinalizeClose
    BY <1>6 DEF FinalizeClose, rowVars, readerVars
  <1>7. CASE LoadStart
    BY <1>7 DEF LoadStart, writerVars, fileVars, rowVars
  <1>8. CASE ReadChunk
    <2> USE <1>8 DEF ReadChunk, AddRow, writerVars, fileVars
    <2>1. TypeOK'
      <3>1. chunks[pos] \in Chunk
        OBVIOUS
      <3>2. rows' \subseteq Chunk /\ frameCount' \in Nat /\ lastDurable' \in Nat
        BY <3>1, AddRowType
      <3>3. pos' \in Nat \ {0}
        BY ONLY <1>8, IInv DEF ReadChunk, IInv, TypeOK
      <3> QED
        BY <3>2, <3>3
    <2>2. ChunksAreGapless'
      OBVIOUS
    <2>3. WriterInStep'
      OBVIOUS
    <2>4. PendingIsBounded'
      OBVIOUS
    <2>5. CutIsBounded'
      OBVIOUS
    <2>6. PromiseIsSynced' /\ RepairedLater'
      OBVIOUS
    <2> QED
      BY <2>1, <2>2, <2>3, <2>4, <2>5, <2>6
  <1>9. CASE LoadEnd \/ LoadRaises \/ RepairRaises
    <2>1. /\ UNCHANGED <<pending, nextChunk, frameCursor, wpc, closing, chunks, tail, synced,
                         rows, frameCount, lastDurable, status, crashes, heard, promised,
                         failedAt>>
          /\ pos' \in {1, pos} /\ misread' \in {TRUE, FALSE, misread}
          /\ faults' \in {faults, faults + 1}
          /\ reader' = "none" \/ (reader = "repair" /\ reader' = "down")
      BY ONLY <1>9 DEF LoadEnd, LoadRaises, RepairRaises, writerVars, fileVars, rowVars
    <2>2. TypeOK'
      <3>1. misread' \in BOOLEAN
        BY ONLY <2>1, IInv, Zenon DEF IInv, TypeOK
      <3>2. reader' \in {"none", "load", "repair", "down"} /\ faults' \in Nat /\ pos' \in Nat \ {0}
        BY ONLY <2>1, IInv DEF IInv, TypeOK
      <3> QED
        BY ONLY <2>1, <3>1, <3>2, IInv DEF IInv, TypeOK
    <2>3. ChunksAreGapless' /\ CutIsBounded' /\ PromiseIsSynced' /\ PendingIsBounded'
      BY ONLY <2>1, IInv DEF IInv, ChunksAreGapless, CutIsBounded, PromiseIsSynced,
        PendingIsBounded, EndOf
    <2>4. WriterInStep' /\ RepairedLater'
      BY ONLY <2>1, IInv DEF IInv, WriterInStep, RepairedLater, FileEnd, EndOf
    <2> QED
      BY <2>2, <2>3, <2>4
  <1>10. CASE RepairEnd
    BY <1>10 DEF RepairEnd, writerVars, rowVars
  <1>15. CASE RepairCuts
    <2>0. /\ pos - 1 \in 0..Len(chunks) /\ chunks' = SubSeq(chunks, 1, pos - 1)
          /\ synced' = IF pos <= synced THEN pos - 1 ELSE synced
          /\ failedAt' = failedAt \cup {pos} /\ pos \in Nat \ {0}
          /\ wpc' = "gone" /\ tail' = "none" /\ status' = "recovered"
          /\ reader' = "none" /\ pos' = 1 /\ faults' = faults + 1
          /\ UNCHANGED <<writerVars, rowVars, crashes, heard, promised, misread>>
      BY <1>15 DEF RepairCuts, writerVars
    <2>1. /\ chunks' \in Seq(Chunk) /\ Len(chunks') = pos - 1
          /\ \A i \in 1..(pos - 1) : chunks'[i] = chunks[i]
          /\ ChunksAreGapless'
      BY ONLY <2>0, CutFile, IInv DEF IInv, TypeOK
    <2>2. TypeOK'
      BY <2>0, <2>1 DEF writerVars, rowVars
    <2>3. WriterInStep' /\ PendingIsBounded' /\ RepairedLater'
      BY ONLY <2>0 DEF WriterInStep, PendingIsBounded, RepairedLater
    <2>4. CutIsBounded'
      BY ONLY <2>0, <2>1, IInv DEF IInv, TypeOK, CutIsBounded
    <2>5. PromiseIsSynced'
      <3> SUFFICES ASSUME NEW i \in 1..Len(promised), \A k \in failedAt' : ~(k <= i)
                   PROVE  i <= synced' /\ chunks'[i] = promised[i]
        BY <2>0 DEF PromiseIsSynced
      <3>1. i < pos /\ \A k \in failedAt : ~(k <= i)
        BY ONLY <2>0, i \in 1..Len(promised), \A k \in failedAt' : ~(k <= i), IInv
           DEF IInv, TypeOK
      <3>2. i <= synced /\ chunks[i] = promised[i]
        BY <3>1
      <3> QED
        BY ONLY <2>0, <2>1, <3>1, <3>2, i \in 1..Len(promised), IInv DEF IInv, TypeOK
    <2> QED
      BY <2>1, <2>2, <2>3, <2>4, <2>5
  <1>11. CASE Kill
    BY <1>11 DEF Kill, Die, rowVars
  <1>12. CASE PowerLoss
    <2> USE <1>12 DEF PowerLoss, Die, rowVars
    <2>1. TypeOK'
      OBVIOUS
    <2>2. ChunksAreGapless'
      <3>1. PICK k \in synced..Len(chunks) : chunks' = SubSeq(chunks, 1, k)
        OBVIOUS
      <3>2. k \in 0..Len(chunks) /\ chunks \in Seq(Chunk)
        BY <3>1
      <3> QED
        BY ONLY <3>1, <3>2, CutFile, IInv DEF IInv
    <2>3. WriterInStep'
      OBVIOUS
    <2>4. PendingIsBounded'
      OBVIOUS
    <2>5. CutIsBounded'
      OBVIOUS
    <2>6. PromiseIsSynced' /\ RepairedLater'
      OBVIOUS
    <2> QED
      BY <2>1, <2>2, <2>3, <2>4, <2>5, <2>6
  <1>13. CASE Restart
    BY <1>13 DEF Restart, writerVars, fileVars, rowVars
  <1>14. CASE UNCHANGED vars
    BY <1>14 DEF vars, writerVars, fileVars, rowVars, readerVars
  <1> QED
    BY <1>1, <1>2, <1>3, <1>4, <1>5, <1>6, <1>7, <1>8, <1>9, <1>10, <1>11,
       <1>12, <1>13, <1>14, <1>15 DEF Next, Writer, Reader

\* However the process dies and the file is repaired, the vault file is a
\* gapless copy of the recording: write_frames, finalize and _read_chunks.
THEOREM AlwaysGapless == Spec => []ChunksAreGapless
  <1>1. IInv => ChunksAreGapless
    BY DEF IInv
  <1> QED
    BY <1>1, InitIInv, NextIInv, PTL DEF Spec

\* A chunk that _commit_pending_chunk fsynced is in the file for good, unless a
\* repair raised on it or on one before it.
THEOREM FsyncedIsKept == Spec => []FsyncedChunksSurvive
  <1>1. IInv => FsyncedChunksSurvive
    BY DEF IInv, TypeOK, PromiseIsSynced, CutIsBounded, FsyncedChunksSurvive
  <1> QED
    BY <1>1, InitIInv, NextIInv, PTL DEF Spec

\* Unless a repair raised, the file lacks less than one durability interval and
\* one device block of what write_frames was given, whatever crashes there were.
THEOREM LossAlwaysBounded == Spec => []LossIsBounded
  <1>1. IInv => LossIsBounded
    BY DEF IInv, TypeOK, CutIsBounded, LossIsBounded, FileEnd
  <1> QED
    BY <1>1, InitIInv, NextIInv, PTL DEF Spec

-----------------------------------------------------------------------------
(* The rows *)

Recorded(k) == \A i \in 1..k : chunks[i] \in rows

\* Rows are of chunks that were written, and never of others while the writer
\* may still append; whoever has finished with the file has recorded all of it.
RowsHold ==
  /\ pos <= Len(chunks) + 1 /\ (reader \in {"none", "down"} => pos = 1)
  /\ \A r \in rows : r.index < Len(chunks) => r = chunks[r.index + 1]
  /\ wpc # "gone" => /\ status = "active" /\ nextChunk <= Len(chunks)
                     /\ Recorded(nextChunk)
                     /\ \A r \in rows : r.index < Len(chunks)
  /\ reader \in {"repair", "down"} => wpc = "gone"
  /\ reader = "repair" => Recorded(pos - 1)
  /\ wpc = "gone" /\ reader \in {"none", "load"} => status # "active"
  /\ status # "active" => Recorded(Len(chunks))

\* A load sets the counters back to the chunk it reads; it passes the last one
\* before it ends, and the writer's last row is after that.
CountersHold ==
  crashes = 0 =>
    /\ reader \in {"none", "load"}
    /\ misread => Len(chunks) > 0
    /\ wpc = "gone" => nextChunk = Len(chunks)
    /\ nextChunk <= lastDurable /\ lastDurable <= Len(chunks)
    /\ reader = "none" => misread \/ frameCount \in {EndOf(chunks, nextChunk), FileEnd}
    /\ reader = "load" /\ pos > Len(chunks) => frameCount = FileEnd

RInv == RowsHold /\ CountersHold

\* The row of one chunk replaces no row of another.
LEMMA AddRowKeeps ==
  ASSUME IInv, RowsHold, NEW k \in 1..Len(chunks), AddRow(chunks[k])
  PROVE  /\ chunks[k] \in rows'
         /\ \A i \in 1..Len(chunks) : chunks[i] \in rows => chunks[i] \in rows'
         /\ \A r \in rows' : r \in rows \/ r = chunks[k]
  <1>1. chunks[k].index = k - 1 /\ \A i \in 1..Len(chunks) : chunks[i].index = i - 1
    BY DEF IInv, ChunksAreGapless
  <1>2. rows' = {r \in rows : r.index # k - 1} \cup {chunks[k]}
    BY <1>1 DEF AddRow
  <1>3. ASSUME NEW i \in 1..Len(chunks), chunks[i] \in rows, i # k PROVE chunks[i].index # k - 1
    <2>1. Len(chunks) \in Nat /\ chunks[i].index = i - 1
      BY <1>1 DEF IInv, TypeOK
    <2> QED
      BY <2>1, <1>3
  <1> QED
    BY <1>2, <1>3

LEMMA InitRInv == Init => RInv
  BY DEF Init, RInv, RowsHold, CountersHold, Recorded, EndOf, FileEnd

Describes == \A r \in rows : r.index < Len(chunks) => r = chunks[r.index + 1]

\* The rows say nothing false of a file that is cut.
LEMMA CutRows ==
  ASSUME IInv, RowsHold, NEW k \in 0..Len(chunks), chunks' = SubSeq(chunks, 1, k),
         UNCHANGED rows
  PROVE  /\ Len(chunks') = k /\ Describes'
         /\ \A j \in 0..k : Recorded(j) => Recorded(j)'
         /\ Recorded(Len(chunks)) => Recorded(Len(chunks))'
  <1>1. /\ k \in Nat /\ Len(chunks) \in Nat /\ k <= Len(chunks)
        /\ \A r \in rows : r.index \in Nat
    BY DEF IInv, TypeOK, Chunk
  <1>2. Len(chunks') = k /\ \A i \in 1..k : chunks'[i] = chunks[i]
    BY CutFile DEF IInv, TypeOK
  <1>3. Describes'
    <2> SUFFICES ASSUME NEW r \in rows, r.index < k PROVE r = chunks'[r.index + 1]
      BY <1>2 DEF Describes
    <2>1. r = chunks[r.index + 1] /\ r.index + 1 \in 1..k
      BY <1>1 DEF RowsHold
    <2> QED
      BY <1>2, <2>1
  <1>4. \A j \in 0..k : Recorded(j) => Recorded(j)'
    BY ONLY <1>1, <1>2, UNCHANGED rows DEF Recorded
  <1>5. Recorded(Len(chunks)) => Recorded(k)
    BY ONLY <1>1 DEF Recorded
  <1> QED
    BY <1>1, <1>2, <1>3, <1>4, <1>5

\* What a step that leaves the file alone and records chunk k keeps.
LEMMA NextRowsHold == IInv /\ RowsHold /\ [Next]_vars => RowsHold'
  <1> SUFFICES ASSUME IInv, RowsHold, [Next]_vars PROVE RowsHold'
    OBVIOUS
  <1>0. /\ Len(chunks) \in Nat /\ pos \in Nat \ {0} /\ nextChunk \in Nat
        /\ chunks \in Seq(Chunk) /\ rows \subseteq Chunk
    BY DEF IInv, TypeOK
  <1>1. CASE UNCHANGED <<chunks, rows>> /\ (WriteFrames \/ FinalizeStart \/ CommitSync \/ LoadStart)
    BY <1>0, <1>1 DEF RowsHold, Recorded, WriteFrames, FinalizeStart, CommitSync, LoadStart,
         writerVars, fileVars, rowVars, readerVars
  <1>2. CASE CommitWrite
    <2>1. PICK c \in Chunk : chunks' = Append(chunks, c) /\ c.index = nextChunk
      <3> DEFINE n == IF closing THEN pending ELSE ChunkFrames
                 d == [index |-> nextChunk, start |-> frameCursor, n |-> n]
      <3>1. n \in Nat \ {0}
        BY <1>2, VaultAssumption DEF CommitWrite, IInv, TypeOK, PendingIsBounded
      <3>2. d \in Chunk /\ d.index = nextChunk
        BY <3>1, <1>0 DEF IInv, TypeOK, Chunk
      <3>3. chunks' = Append(chunks, d)
        BY <1>2 DEF CommitWrite
      <3> QED
        BY <3>2, <3>3
    <2>2. /\ Len(chunks') = Len(chunks) + 1 /\ \A i \in 1..Len(chunks) : chunks'[i] = chunks[i]
      BY <1>0, <2>1
    <2>3. nextChunk = Len(chunks) /\ wpc = "commit" /\ wpc' = "flushed"
      BY <1>2 DEF CommitWrite, IInv, WriterInStep
    <2>4. UNCHANGED <<rows, nextChunk, reader, pos, status>>
      BY <1>2 DEF CommitWrite, rowVars, readerVars
    <2>5. \A r \in rows : r.index \in Nat /\ r.index < Len(chunks) /\ r = chunks[r.index + 1]
      BY <1>0, <2>3 DEF RowsHold, Chunk
    <2>6. \A r \in rows' : r.index < Len(chunks') /\ r = chunks'[r.index + 1]
      BY <1>0, <2>2, <2>4, <2>5
    <2>7. Recorded(nextChunk)'
      BY <2>2, <2>3, <2>4 DEF RowsHold, Recorded
    <2> QED
      BY <1>0, <2>2, <2>3, <2>4, <2>6, <2>7 DEF RowsHold
  <1>3. CASE CommitRow
    <2> DEFINE L == Len(chunks)
    <2>1. L = nextChunk + 1 /\ L \in 1..L /\ AddRow(chunks[L]) /\ wpc = "synced"
      BY <1>0, <1>3 DEF CommitRow, IInv, WriterInStep
    <2>2. /\ UNCHANGED <<chunks, reader, pos, status>> /\ nextChunk' = nextChunk + 1
          /\ wpc' \in {"close", "commit", "idle"}
      BY <1>3 DEF CommitRow, fileVars, readerVars
    <2>3. /\ chunks[L] \in rows' /\ \A i \in 1..L : chunks[i] \in rows => chunks[i] \in rows'
          /\ \A r \in rows' : r \in rows \/ r = chunks[L]
      BY <2>1, AddRowKeeps
    <2>4. chunks[L].index = L - 1
      BY <2>1 DEF IInv, ChunksAreGapless
    <2>5. \A r \in rows' : r.index < L /\ r = chunks[r.index + 1]
      BY <1>0, <2>1, <2>3, <2>4 DEF RowsHold
    <2>6. Recorded(nextChunk)'
      BY <1>0, <2>1, <2>2, <2>3 DEF RowsHold, Recorded
    <2> QED
      BY <1>0, <2>1, <2>2, <2>5, <2>6 DEF RowsHold
  <1>4. CASE FinalizeClose
    BY <1>0, <1>4 DEF FinalizeClose, RowsHold, Recorded, IInv, WriterInStep, rowVars,
       readerVars
  <1>5. CASE ReadChunk
    <2>1. pos \in 1..Len(chunks) /\ AddRow(chunks[pos])
      BY <1>0, <1>5 DEF ReadChunk
    <2>2. UNCHANGED <<chunks, nextChunk, wpc, status, reader>> /\ pos' = pos + 1
      BY <1>5 DEF ReadChunk, writerVars, fileVars
    <2>3. /\ chunks[pos] \in rows' /\ \A i \in 1..Len(chunks) : chunks[i] \in rows => chunks[i] \in rows'
          /\ \A r \in rows' : r \in rows \/ r = chunks[pos]
      BY <2>1, AddRowKeeps
    <2>4. chunks[pos].index = pos - 1
      BY <2>1 DEF IInv, ChunksAreGapless
    <2>5. \A r \in rows' : r \in rows \/ (r.index < Len(chunks) /\ r = chunks[r.index + 1])
      BY <1>0, <2>1, <2>3, <2>4
    <2>6. \A k \in 0..Len(chunks) : Recorded(k) => Recorded(k)'
      BY <1>0, <2>2, <2>3 DEF Recorded
    <2>7. reader = "repair" => Recorded(pos - 1)'
      <3> SUFFICES ASSUME reader = "repair", NEW i \in 1..pos PROVE chunks[i] \in rows'
        BY <1>0, <2>2 DEF Recorded
      <3>1. CASE i = pos
        BY <3>1, <2>3
      <3>2. CASE i # pos
        BY <1>0, <3>2, <2>1, <2>3 DEF RowsHold, Recorded
      <3> QED
        BY <3>1, <3>2
    <2>8. reader \in {"load", "repair"}
      BY <1>5 DEF ReadChunk
    <2>9. /\ wpc # "gone" => Recorded(nextChunk)'
          /\ status # "active" => Recorded(Len(chunks))'
      BY <1>0, <2>2, <2>6 DEF RowsHold
    <2> QED
      BY <1>0, <2>1, <2>2, <2>5, <2>7, <2>8, <2>9 DEF RowsHold
  <1>6. CASE LoadEnd \/ RepairEnd
    BY <1>0, <1>6 DEF LoadEnd, RepairEnd, RowsHold, Recorded, writerVars, fileVars, rowVars
  <1>7. CASE Kill
    BY <1>0, <1>7 DEF Kill, Die, RowsHold, Recorded, rowVars
  <1>8. CASE PowerLoss
    <2>1. PICK k \in 0..Len(chunks) : chunks' = SubSeq(chunks, 1, k)
      BY <1>0, <1>8 DEF PowerLoss, IInv, TypeOK
    <2>3. UNCHANGED <<rows, status, nextChunk>> /\ wpc' = "gone" /\ pos' = 1 /\ reader' = "down"
      BY <1>8 DEF PowerLoss, Die, rowVars
    <2>4. Len(chunks') = k /\ Describes' /\ (status # "active" => Recorded(Len(chunks))')
      BY <1>0, <2>1, <2>3, CutRows DEF RowsHold
    <2> QED
      BY <1>0, <2>3, <2>4 DEF RowsHold, Describes
  <1>11. CASE LoadRaises \/ RepairRaises
    BY <1>0, <1>11 DEF LoadRaises, RepairRaises, RowsHold, Recorded, writerVars, fileVars,
      rowVars
  <1>12. CASE RepairCuts
    <2>1. /\ pos - 1 \in 0..Len(chunks) /\ chunks' = SubSeq(chunks, 1, pos - 1)
          /\ UNCHANGED <<rows, nextChunk, wpc>> /\ reader = "repair"
          /\ pos' = 1 /\ reader' = "none" /\ status' = "recovered"
      BY <1>0, <1>12 DEF RepairCuts, writerVars, rowVars
    <2>2. /\ Len(chunks') = pos - 1 /\ Describes'
          /\ \A j \in 0..(pos - 1) : Recorded(j) => Recorded(j)'
      BY <1>0, <2>1, CutRows DEF RowsHold
    <2>3. wpc = "gone" /\ Recorded(pos - 1)
      BY <2>1 DEF RowsHold
    <2>4. Recorded(Len(chunks))'
      BY ONLY <1>0, <2>1, <2>2, <2>3 DEF Recorded
    <2>5. pos' <= Len(chunks') + 1 /\ wpc' = "gone"
      BY ONLY <1>0, <2>1, <2>2, <2>3
    <2> QED
      BY ONLY <2>1, <2>2, <2>4, <2>5 DEF RowsHold, Describes
  <1>9. CASE Restart
    BY <1>0, <1>9 DEF Restart, RowsHold, Recorded, IInv, writerVars, fileVars, rowVars
  <1>10. CASE UNCHANGED vars
    BY <1>10 DEF vars, RowsHold, Recorded, writerVars, fileVars, rowVars, readerVars
  <1> QED
    BY <1>1, <1>2, <1>3, <1>4, <1>5, <1>6, <1>7, <1>8, <1>9, <1>10, <1>11, <1>12
       DEF Next, Writer, Reader, WriteFrames, FinalizeStart, CommitSync, LoadStart,
           fileVars, rowVars

LEMMA NextCountersHold ==
  IInv /\ RowsHold /\ CountersHold /\ [Next]_vars => CountersHold'
  <1> SUFFICES ASSUME IInv, RowsHold, CountersHold, [Next]_vars, crashes' = 0
               PROVE  CountersHold'
    BY DEF CountersHold
  <1>0. /\ Len(chunks) \in Nat /\ pos \in Nat \ {0} /\ nextChunk \in Nat /\ crashes \in Nat
        /\ chunks \in Seq(Chunk) /\ lastDurable \in Nat /\ frameCount \in Nat
    BY DEF IInv, TypeOK
  <1>1. CASE WriteFrames \/ FinalizeStart \/ CommitSync
    <2>1. /\ UNCHANGED <<nextChunk, chunks, frameCount, lastDurable, reader, pos, crashes, misread>>
          /\ wpc' # "gone"
      BY <1>1 DEF WriteFrames, FinalizeStart, CommitSync, fileVars, rowVars, readerVars,
         faultVars
    <2> QED
      BY <1>0, <2>1 DEF CountersHold, FileEnd, EndOf
  <1>11. CASE LoadStart
    <2>1. /\ UNCHANGED <<nextChunk, chunks, frameCount, lastDurable, crashes, misread, wpc>>
          /\ reader = "none" /\ reader' = "load" /\ pos' = 1
      BY <1>11 DEF LoadStart, writerVars, fileVars, rowVars, faultVars
    <2>2. pos' > Len(chunks) => Len(chunks) = 0
      BY <1>0, <2>1
    <2> QED
      BY <1>0, <2>1, <2>2 DEF CountersHold, FileEnd, EndOf
  <1>2. CASE CommitWrite
    <2>1. /\ Len(chunks') = Len(chunks) + 1 /\ \A i \in 1..Len(chunks) : chunks'[i] = chunks[i]
      BY <1>0, <1>2 DEF CommitWrite
    <2>2. nextChunk = Len(chunks) /\ wpc' = "flushed"
      BY <1>2 DEF CommitWrite, IInv, WriterInStep
    <2>3. UNCHANGED <<nextChunk, lastDurable, frameCount, reader, pos, crashes, misread>>
      BY <1>2 DEF CommitWrite, rowVars, readerVars, faultVars
    <2>4. EndOf(chunks', nextChunk) = EndOf(chunks, nextChunk)
      BY <1>0, <2>1, <2>2 DEF EndOf
    <2> QED
      BY <1>0, <2>1, <2>2, <2>3, <2>4 DEF CountersHold, RowsHold, FileEnd
  <1>3. CASE CommitRow
    <2> DEFINE L == Len(chunks)
    <2>1. L = nextChunk + 1 /\ AddRow(chunks[L]) /\ wpc = "synced" /\ chunks[L].index = L - 1
      BY <1>0, <1>3 DEF CommitRow, IInv, WriterInStep, ChunksAreGapless
    <2>2. /\ UNCHANGED <<chunks, reader, pos, crashes>> /\ nextChunk' = nextChunk + 1
          /\ wpc' # "gone"
      BY <1>3 DEF CommitRow, fileVars, readerVars
    <2>3. frameCount' = FileEnd /\ lastDurable' = L
      BY <1>0, <2>1, <2>2 DEF AddRow, FileEnd, EndOf, CountersHold
    <2> QED
      BY <1>0, <2>1, <2>2, <2>3 DEF CountersHold, FileEnd
  <1>4. CASE FinalizeClose
    BY <1>0, <1>4 DEF FinalizeClose, CountersHold, FileEnd, EndOf, IInv, WriterInStep,
       rowVars, readerVars,
      faultVars
  <1>5. CASE ReadChunk
    <2>1. pos \in 1..Len(chunks) /\ AddRow(chunks[pos])
      BY <1>0, <1>5 DEF ReadChunk
    <2>2. UNCHANGED <<chunks, nextChunk, wpc, reader, crashes>> /\ pos' = pos + 1
      BY <1>5 DEF ReadChunk, writerVars, fileVars
    <2>3. chunks[pos].index = pos - 1
      BY <2>1 DEF IInv, ChunksAreGapless
    <2>4. lastDurable' \in {lastDurable, pos} /\ lastDurable' >= lastDurable
      BY <1>0, <2>1, <2>3 DEF AddRow
    <2>5. pos = Len(chunks) => frameCount' = FileEnd
      BY <1>0, <2>1 DEF AddRow, FileEnd, EndOf
    <2> QED
      BY <1>0, <1>5, <2>1, <2>2, <2>4, <2>5 DEF CountersHold, FileEnd, ReadChunk
  <1>6. CASE LoadEnd
    BY <1>0, <1>6 DEF LoadEnd, CountersHold, FileEnd, EndOf, writerVars, fileVars, rowVars
  <1>7. CASE RepairEnd \/ RepairCuts \/ RepairRaises \/ Restart
    BY <1>0, <1>7 DEF RepairEnd, RepairCuts, RepairRaises, Restart, CountersHold
  <1>10. CASE LoadRaises
    BY <1>0, <1>10 DEF LoadRaises, CountersHold, FileEnd, EndOf, writerVars, fileVars,
       rowVars
  <1>8. CASE Kill \/ PowerLoss
    BY <1>0, <1>8 DEF Kill, PowerLoss, Die
  <1>9. CASE UNCHANGED vars
    BY <1>9 DEF vars, CountersHold, FileEnd, EndOf, writerVars, fileVars, rowVars,
       readerVars,
      faultVars
  <1> QED
    BY <1>1, <1>2, <1>3, <1>4, <1>5, <1>6, <1>7, <1>8, <1>9, <1>10, <1>11
       DEF Next, Writer, Reader

\* Whoever writes the rows and whenever the process dies or a reader raises: they
\* say nothing false of the file, cover it when everybody is done, and then the
\* counters agree, but for a load that raised.
THEOREM RowsAlwaysDescribe == Spec => []RowsDescribeVault
  <1>1. IInv /\ RInv => RowsDescribeVault
    <2> SUFFICES ASSUME IInv, RInv PROVE RowsDescribeVault
      OBVIOUS
    <2>1. RowsDescribeFile
      BY DEF RInv, RowsHold, RowsDescribeFile, Recorded
    <2>2. CountersAgreeAtRest
      BY DEF IInv, TypeOK, RInv, CountersHold, CountersAgreeAtRest, FileEnd, EndOf
    <2> QED
      BY <2>1, <2>2 DEF RowsDescribeVault, IInv
  <1>2. RInv /\ IInv /\ [Next]_vars => RInv'
    BY NextRowsHold, NextCountersHold DEF RInv
  <1> QED
    BY <1>1, <1>2, InitIInv, NextIInv, InitRInv, PTL DEF Spec
===============================================================================
