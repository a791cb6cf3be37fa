------------------------------ MODULE AudioVault ------------------------------
(***************************************************************************)
(* The vault file of one recording, src/services/audio_vault.py: the        *)
(* writer that appends a chunk, fsyncs it and then records it in the        *)
(* database, the readers that load the file or repair it after a crash, and *)
(* the rows of recording_chunks and recording_sessions they maintain. A     *)
(* read may raise: the key may be out of reach or the wrong one, or the row *)
(* may not be written.                                                      *)
(*                                                                          *)
(* Audio is a count of frames: a chunk is its index, its first frame and    *)
(* its length. A killed process leaves what it had handed to the operating  *)
(* system; a power loss leaves the fsynced chunks and any part of the rest. *)
(* The database commits durably (WAL under SQLite's default synchronous).   *)
(***************************************************************************)
EXTENDS Naturals, Sequences

CONSTANTS
  Block,        \* frames in one device block
  ChunkFrames,  \* _chunk_frames, the durability interval
  MaxHeard,     \* bound on the frames recorded
  CrashKinds,   \* the ways the process ends: "kill", "power"
  MaxCrashes,   \* bound on their number
  MaxFaults,    \* bound on the reads that raise
  LiveLoad      \* whether the file may be loaded while it is being written

ASSUME VaultAssumption ==
  /\ Block \in Nat \ {0} /\ ChunkFrames \in Nat \ {0}
  /\ MaxHeard \in Nat /\ MaxCrashes \in Nat /\ MaxFaults \in Nat
  /\ CrashKinds \subseteq {"kill", "power"}
  /\ LiveLoad \in BOOLEAN

VARIABLES
  pending,      \* _pending_frames
  nextChunk, frameCursor,
  wpc,          \* the writer's step
  closing,      \* finalize was called
  chunks,       \* complete chunks in the file
  tail,         \* what follows them: nothing, a torn or a corrupt record
  synced,       \* how many chunks the last fsync covered
  rows,         \* recording_chunks: for each chunk index its row
  frameCount, lastDurable,
                \* the counters of the recording_sessions row; lastDurable is
                \* one more than last_durable_chunk
  status,       \* the status of that row
  reader, pos,  \* the reader in progress and the chunk it reads next
  crashes, faults,
  heard,        \* history: frames handed to write_frames
  promised,     \* history: the chunks fsynced so far
  failedAt,     \* history: the records a repair raised on
  misread       \* history: the last load to end raised

writerVars == <<pending, nextChunk, frameCursor, wpc, closing>>
fileVars   == <<chunks, tail, synced>>
rowVars    == <<rows, frameCount, lastDurable>>
readerVars == <<reader, pos>>
faultVars  == <<faults, failedAt, misread>>
vars == <<writerVars, fileVars, rowVars, status, readerVars, crashes, heard,
          promised, faultVars>>

Chunk == [index : Nat, start : Nat, n : Nat \ {0}]

TypeOK ==
  /\ pending \in Nat /\ nextChunk \in Nat /\ frameCursor \in Nat
  /\ wpc \in {"idle", "commit", "flushed", "synced", "close", "gone"}
  /\ closing \in BOOLEAN
  /\ chunks \in Seq(Chunk)
  /\ tail \in {"none", "torn", "corrupt"}
  /\ synced \in Nat
  /\ rows \subseteq Chunk
  /\ frameCount \in Nat /\ lastDurable \in Nat
  /\ status \in {"active", "recorded", "recovered"}
  /\ reader \in {"none", "load", "repair", "down"}
  /\ pos \in Nat \ {0}
  /\ crashes \in Nat /\ faults \in Nat /\ heard \in Nat
  /\ promised \in Seq(Chunk)
  /\ failedAt \subseteq Nat \ {0} /\ misread \in BOOLEAN

\* Frames up to the end of a file's k-th chunk, and of the file.
EndOf(f, k) == IF k = 0 THEN 0 ELSE f[k].start + f[k].n
FileEnd     == EndOf(chunks, Len(chunks))

\* The constructor: an empty file with a fsynced header, and an active row.
Init ==
  /\ pending = 0 /\ nextChunk = 0 /\ frameCursor = 0
  /\ wpc = "idle" /\ closing = FALSE
  /\ chunks = <<>> /\ tail = "none" /\ synced = 0
  /\ rows = {} /\ frameCount = 0 /\ lastDurable = 0
  /\ status = "active"
  /\ reader = "none" /\ pos = 1
  /\ crashes = 0 /\ heard = 0 /\ promised = <<>>
  /\ faults = 0 /\ failedAt = {} /\ misread = FALSE

-----------------------------------------------------------------------------
(* AudioVaultWriter *)

\* write_frames, up to the loop that commits full chunks.
WriteFrames ==
  /\ wpc = "idle" /\ ~closing
  /\ heard + Block <= MaxHeard
  /\ heard' = heard + Block
  /\ pending' = pending + Block
  /\ wpc' = IF pending + Block >= ChunkFrames THEN "commit" ELSE "idle"
  /\ UNCHANGED <<nextChunk, frameCursor, closing, fileVars, rowVars, status,
                 readerVars, crashes, promised, faultVars>>

\* finalize commits whatever is pending as a last, shorter chunk.
FinalizeStart ==
  /\ wpc = "idle" /\ ~closing
  /\ closing' = TRUE
  /\ wpc' = IF pending > 0 THEN "commit" ELSE "close"
  /\ UNCHANGED <<pending, nextChunk, frameCursor, fileVars, rowVars, status,
                 readerVars, crashes, heard, promised, faultVars>>

\* _commit_pending_chunk: take the frames, append the record and flush it ...
CommitWrite ==
  LET n == IF closing THEN pending ELSE ChunkFrames
      c == [index |-> nextChunk, start |-> frameCursor, n |-> n]
  IN  /\ wpc = "commit"
      /\ chunks' = Append(chunks, c)
      /\ pending' = pending - n
      /\ wpc' = "flushed"
      /\ UNCHANGED <<nextChunk, frameCursor, closing, tail, synced, rowVars,
                     status, readerVars, crashes, heard, promised, faultVars>>

\* Mutant: flushed to the operating system and taken for durable.
CommitSyncUnsynced ==
  /\ wpc = "flushed"
  /\ wpc' = "synced"
  /\ promised' = chunks
  /\ UNCHANGED <<pending, nextChunk, frameCursor, closing, fileVars, rowVars,
                 status, readerVars, crashes, heard, faultVars>>

\* ... fsync it ...
CommitSync ==
  /\ wpc = "flushed"
  /\ wpc' = "synced"
  /\ synced' = Len(chunks)
  /\ promised' = chunks
  /\ UNCHANGED <<pending, nextChunk, frameCursor, closing, chunks, tail,
                 rowVars, status, readerVars, crashes, heard, faultVars>>

\* Mutant: the row is written after the chunk index has moved on.
AddRowLate(c) ==
  /\ rows' = {r \in rows : r.index # c.index + 1}
               \cup {[c EXCEPT !.index = @ + 1]}
  /\ frameCount' = c.start + c.n
  /\ lastDurable' = c.index + 2

\* add_recording_chunk: INSERT OR REPLACE the row, set the counters.
AddRow(c) ==
  /\ rows' = {r \in rows : r.index # c.index} \cup {c}
  /\ frameCount' = c.start + c.n
  /\ lastDurable' = IF c.index + 1 > lastDurable THEN c.index + 1
                    ELSE lastDurable

\* Mutants: the cursor advances by a device block; one chunk is committed per
\* call of write_frames.
CommitRowByBlock ==
  LET c == chunks[Len(chunks)]
  IN  /\ wpc = "synced"
      /\ AddRow(c)
      /\ frameCursor' = frameCursor + Block
      /\ nextChunk' = nextChunk + 1
      /\ wpc' = IF closing THEN "close" ELSE "idle"
      /\ UNCHANGED <<pending, closing, fileVars, status, readerVars, crashes,
                     heard, promised, faultVars>>
CommitRowOnce ==
  LET c == chunks[Len(chunks)]
  IN  /\ wpc = "synced"
      /\ AddRow(c)
      /\ frameCursor' = frameCursor + c.n
      /\ nextChunk' = nextChunk + 1
      /\ wpc' = IF closing THEN "close" ELSE "idle"
      /\ UNCHANGED <<pending, closing, fileVars, status, readerVars, crashes,
                     heard, promised, faultVars>>

\* ... and record it.
CommitRow ==
  LET c == chunks[Len(chunks)]
  IN  /\ wpc = "synced"
      /\ AddRow(c)
      /\ frameCursor' = frameCursor + c.n
      /\ nextChunk' = nextChunk + 1
      /\ wpc' = IF closing THEN "close"
                ELSE IF pending >= ChunkFrames THEN "commit" ELSE "idle"
      /\ UNCHANGED <<pending, closing, fileVars, status, readerVars, crashes,
                     heard, promised, faultVars>>

FinalizeClose ==
  /\ wpc = "close"
  /\ wpc' = "gone"
  /\ synced' = Len(chunks)
  /\ status' = "recorded"
  /\ UNCHANGED <<pending, nextChunk, frameCursor, closing, chunks, tail,
                 rowVars, readerVars, crashes, heard, promised, faultVars>>

-----------------------------------------------------------------------------
(* AudioVaultManager: _read_chunks, for load_audio and for repair *)

LoadStart ==
  /\ reader = "none"
  /\ LiveLoad \/ wpc = "gone"
  /\ reader' = "load" /\ pos' = 1
  /\ UNCHANGED <<writerVars, fileVars, rowVars, status, crashes, heard,
                 promised, faultVars>>

\* Every complete chunk read is recorded again.
ReadChunk ==
  /\ reader \in {"load", "repair"} /\ pos <= Len(chunks)
  /\ AddRow(chunks[pos])
  /\ pos' = pos + 1
  /\ UNCHANGED <<writerVars, fileVars, status, reader, crashes, heard, promised,
                 faultVars>>

\* End of file, or a torn or corrupt record: a load ends (or raises).
LoadEnd ==
  /\ reader = "load" /\ pos > Len(chunks)
  /\ reader' = "none" /\ pos' = 1
  /\ misread' = FALSE
  /\ UNCHANGED <<writerVars, fileVars, rowVars, status, crashes, heard,
                 promised, faults, failedAt>>

\* A complete record that does not decrypt, or whose row is not written, ends a
\* load with an exception.
LoadRaises ==
  /\ reader = "load" /\ pos <= Len(chunks) /\ faults < MaxFaults
  /\ faults' = faults + 1 /\ misread' = TRUE
  /\ reader' = "none" /\ pos' = 1
  /\ UNCHANGED <<writerVars, fileVars, rowVars, status, crashes, heard,
                 promised,
                 failedAt>>

\* A repair takes it for corrupt: it cuts the record off, and all after it.
RepairCuts ==
  /\ reader = "repair" /\ pos <= Len(chunks) /\ faults < MaxFaults
  /\ faults' = faults + 1 /\ failedAt' = failedAt \cup {pos}
  /\ chunks' = SubSeq(chunks, 1, pos - 1)
  /\ synced' = IF pos <= synced THEN pos - 1 ELSE synced
  /\ tail' = "none"
  /\ status' = "recovered"
  /\ reader' = "none" /\ pos' = 1
  /\ UNCHANGED <<writerVars, rowVars, crashes, heard, promised, misread>>

\* The key is out of reach, or the row cannot be marked: the start of the
\* application fails, and the repair with it.
RepairRaises ==
  /\ reader = "repair" /\ pos = 1 /\ faults < MaxFaults
  /\ faults' = faults + 1
  /\ reader' = "down"
  /\ UNCHANGED <<writerVars, fileVars, rowVars, status, pos, crashes, heard,
                 promised,
                 failedAt, misread>>

\* A repair cuts off what follows the last valid chunk; the row is recovered.
RepairEnd ==
  /\ reader = "repair" /\ pos > Len(chunks)
  /\ reader' = "none" /\ pos' = 1
  /\ tail' = "none"
  /\ status' = "recovered"
  /\ UNCHANGED <<writerVars, chunks, synced, rowVars, crashes, heard, promised,
                 faultVars>>

-----------------------------------------------------------------------------
(* The end of the process and the next start *)

Die ==
  /\ crashes < MaxCrashes /\ reader # "down"
  /\ crashes' = crashes + 1
  /\ reader' = "down" /\ pos' = 1
  /\ wpc' = "gone" /\ pending' = 0
  /\ UNCHANGED <<nextChunk, frameCursor, closing, rowVars, status, heard,
                 promised, faultVars>>

\* The operating system keeps what it was given; a record being written tears.
Kill ==
  /\ "kill" \in CrashKinds
  /\ Die
  /\ tail' \in IF wpc = "commit" THEN {tail, "torn"} ELSE {tail}
  /\ UNCHANGED <<chunks, synced>>

\* Of what was not fsynced, any complete chunks survive, then perhaps debris.
PowerLoss ==
  /\ "power" \in CrashKinds
  /\ Die
  /\ \E k \in synced..Len(chunks) : chunks' = SubSeq(chunks, 1, k) /\ synced' = k
  /\ tail' \in IF wpc \in {"commit", "flushed"} \/ tail # "none" \/ synced < Len(chunks)
               THEN {"none", "torn", "corrupt"} ELSE {"none"}

\* Mutant: only a damaged file is repaired and its row marked.
RestartIfDamaged ==
  /\ reader = "down"
  /\ reader' = IF status = "active" /\ tail # "none" THEN "repair" ELSE "none"
  /\ UNCHANGED <<writerVars, fileVars, rowVars, status, pos, crashes, heard,
                 promised, faultVars>>

\* recover_interrupted_recordings repairs an active recording's file only.
Restart ==
  /\ reader = "down"
  /\ reader' = IF status = "active" THEN "repair" ELSE "none"
  /\ UNCHANGED <<writerVars, fileVars, rowVars, status, pos, crashes, heard,
                 promised, faultVars>>

-----------------------------------------------------------------------------
Writer == WriteFrames \/ FinalizeStart \/ CommitWrite \/ CommitSync
            \/ CommitRow \/ FinalizeClose
Reader == LoadStart \/ ReadChunk \/ LoadEnd \/ LoadRaises
            \/ RepairCuts \/ RepairRaises \/ RepairEnd

Next == Writer \/ Reader \/ Kill \/ PowerLoss \/ Restart

Spec == Init /\ [][Next]_vars

\* A repair that was started is carried through unless the process dies again.
FairSpec == Spec /\ WF_vars(ReadChunk) /\ WF_vars(RepairEnd) /\ WF_vars(Restart)

-----------------------------------------------------------------------------
(* Properties *)

\* The file is a gapless copy of the recording from its first frame: chunks are
\* numbered in order and each starts where the one before it ends, however the
\* writer cut the blocks of the device and however often the process died.
ChunksAreGapless ==
  \A i \in 1..Len(chunks) :
    /\ chunks[i].index = i - 1
    /\ chunks[i].start = EndOf(chunks, i - 1)

\* What fsync covered is never changed, and lost only from a record on that a
\* repair raised on: not by a crash, a torn record, a load, or a second repair.
FsyncedChunksSurvive ==
  \A i \in 1..Len(promised) :
    \/ i <= Len(chunks) /\ chunks[i] = promised[i]
    \/ \E k \in failedAt : k <= i

\* A crash at any point costs less than one durability interval and one device
\* block of audio, however often the file is repaired after it.
LossIsBounded == failedAt = {} => heard < FileEnd + ChunkFrames + Block

\* A chunk row never says anything false of a chunk of the file, whether the
\* writer, a load or a repair wrote it; and at rest every chunk has its row.
RowsDescribeFile ==
  /\ \A r \in rows : r.index < Len(chunks) => r = chunks[r.index + 1]
  /\ reader = "none" /\ wpc = "gone" =>
       \A i \in 1..Len(chunks) : chunks[i] \in rows

\* Without a crash, once writer and readers are done, the counters of the row
\* agree with the file, although every reader sets them back to each chunk it
\* passes; unless the last one raised on its way.
CountersAgreeAtRest ==
  crashes = 0 /\ reader = "none" /\ wpc = "gone" /\ ~misread =>
    /\ frameCount = FileEnd
    /\ lastDurable = Len(chunks)

\* The rows and counters of a recording describe its file.
RowsDescribeVault == TypeOK /\ RowsDescribeFile /\ CountersAgreeAtRest

\* An interrupted recording is repaired by a later start, although starts may
\* fail or die on the way.
InterruptedIsRecovered ==
  (reader = "down" /\ status = "active") ~> (status = "recovered")

\* audio_vault.py: what a repair cuts off it calls a "corrupt audio vault
\* record"; so no chunk that was written and fsynced is.
OnlyCorruptIsCut == Len(promised) <= Len(chunks)
===============================================================================
