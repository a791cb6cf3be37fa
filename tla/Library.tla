-------------------------------- MODULE Library --------------------------------
(***************************************************************************)
(* The transcript library of src/database/db.py under the handlers of      *)
(* src/core/handlers/transcript_handlers.py and tag_handlers.py and the    *)
(* routes of src/api: transcripts, compounds, tags, and what the one       *)
(* shared connection does with a statement that fails in the middle.       *)
(*                                                                         *)
(* Every method holds _write_lock, so a method is a step; a handler that   *)
(* calls two methods is two steps, the second waiting in pending. The      *)
(* connection sees db; what is committed is disk. A method that raises     *)
(* between its first statement and its commit leaves a transaction open,   *)
(* which the next commit of any method commits.                            *)
(*                                                                         *)
(* Text is the sequence of the transcripts whose words it holds: editing  *)
(* and refining reword it, a retranscription puts the words of the row's   *)
(* own audio in its place. Columns nobody decides on (durations,           *)
(* provenance, names) are left out; the default prompt is in DefaultPrompt.*)
(***************************************************************************)
EXTENDS Naturals, FiniteSets, Sequences, SequencesExt

CONSTANTS
  MaxId,        \* bound on the rows ever inserted
  Seeded,       \* the protected prompts the migrations insert first
  UserTags,     \* the tags the user makes
  MaxClock,     \* bound on what the clock may show
  MaxStamp,     \* bound on timestamps, which failed inserts also use up
  MaxCrashes,   \* bound on the number of process exits explored
  MaxPending,   \* bound on the appends between their two methods
  NoId          \* None where a transcript id may be

Ids == 1..MaxId

\* The tag the engine sets on a compound; the Refined tag belongs to Refinement,
\* and the Prompt tag is treated as one of the user's.
AutoManaged == {"Compound"}          \* _AUTO_MANAGED_SYSTEM_TAGS

ASSUME LibraryAssumption ==
  /\ MaxId \in Nat /\ MaxClock \in Nat /\ MaxCrashes \in Nat
  /\ MaxPending \in Nat /\ MaxStamp \in Nat
  /\ \E n \in 0..MaxId : Seeded = 1..n
  /\ UserTags \cap AutoManaged = {}
  /\ NoId \notin Nat

VARIABLES
  db,           \* what the connection sees: rows by id, tags, tag links
  disk,         \* what is committed
  nextId,       \* AUTOINCREMENT
  last,         \* _last_timestamp
  pending,      \* roots that a handler under way has still to tag
  crashes,
  acked,        \* history: rows whose add_transcript returned, until deleted
  retold        \* history: rows retranscribed that held the words of others

vars == <<db, disk, nextId, last, pending, crashes, acked, retold>>

NewRow(t, stamp) ==
  [stamp |-> stamp, raw |-> <<t>>, norm |-> <<t>>, root |-> NoId, ord |-> 0]

Row == [stamp : Nat, raw : Seq(Ids), norm : Seq(Ids),
        root : Ids \cup {NoId}, ord : Nat]

TypeOK ==
  /\ DOMAIN db.rows \subseteq Ids /\ DOMAIN disk.rows \subseteq Ids
  /\ \A t \in DOMAIN db.rows : db.rows[t] \in Row
  /\ \A d \in {db, disk} :
       /\ d.tags \subseteq UserTags
       /\ d.links \subseteq (DOMAIN d.rows) \X (d.tags \cup AutoManaged)
  /\ nextId \in 1..(MaxId + 1) /\ last \in Nat
  /\ crashes \in 0..MaxCrashes

-----------------------------------------------------------------------------
(* What is in a database *)

Has(t) == t \in DOMAIN db.rows
IsProtected(t) == t \in Seeded
IsRoot(d, t) == d.rows[t].root = NoId
Children(d, t) == {c \in DOMAIN d.rows : d.rows[c].root = t}
Roots(d) == {t \in DOMAIN d.rows : IsRoot(d, t)}

\* What a transcript is shown as: its edited text, or else the raw one.
Shown(d, t) == IF d.rows[t].norm # <<>> THEN d.rows[t].norm ELSE d.rows[t].raw

Without(d, gone) ==
  [d EXCEPT !.rows = [t \in (DOMAIN d.rows) \ gone |-> d.rows[t]],
            !.links = {l \in d.links : l[1] \notin gone}]

\* A method that reaches its commit: whatever was open is committed with it.
Commit(new) == db' = new /\ disk' = new

Init ==
  /\ db = [rows |-> [t \in Seeded |-> NewRow(t, t)], tags |-> UserTags,
           links |-> {}]
  /\ disk = db
  /\ nextId = Cardinality(Seeded) + 1
  /\ last = Cardinality(Seeded)
  /\ pending = {} /\ crashes = 0
  /\ acked = {} /\ retold = {}

-----------------------------------------------------------------------------
(* Transcripts *)

\* Mutant: only an earlier clock is corrected.
NextTimestampOrSame(now) == IF now < last THEN last + 1 ELSE now

\* A clock that stands still or runs back does not order a later transcript
\* before an earlier one.
NextTimestamp(now) == IF now <= last THEN last + 1 ELSE now

\* Mutant: returns before the commit.
AddTranscriptUncommitted(now) ==
  LET ts == NextTimestamp(now) IN
  /\ nextId \in Ids /\ ts <= MaxStamp
  /\ db' = [db EXCEPT !.rows = [t \in (DOMAIN @) \cup {nextId} |->
               IF t = nextId THEN NewRow(t, ts) ELSE @[t]]]
  /\ last' = ts /\ nextId' = nextId + 1
  /\ acked' = acked \cup {nextId}
  /\ UNCHANGED <<disk, pending, crashes, retold>>

AddTranscript(now) ==
  LET ts == NextTimestamp(now) IN
  /\ nextId \in Ids /\ ts <= MaxStamp
  /\ Commit([db EXCEPT !.rows = [t \in (DOMAIN @) \cup {nextId} |->
               IF t = nextId THEN NewRow(t, ts) ELSE @[t]]])
  /\ last' = ts /\ nextId' = nextId + 1
  /\ acked' = acked \cup {nextId}
  /\ UNCHANGED <<pending, crashes, retold>>

\* An error inside "with self._conn" rolls back, and with the insert whatever
\* an earlier failure left open.
AddTranscriptFails(now) ==
  /\ nextId \in Ids
  /\ db # disk /\ NextTimestamp(now) <= MaxStamp
  /\ db' = disk
  /\ last' = NextTimestamp(now)
  /\ UNCHANGED <<disk, nextId, pending, crashes, acked, retold>>

UpdateNormalizedText(d, t, text) == [d EXCEPT !.rows[t].norm = text]

\* CommitEditsIntent or a refinement. An edit of a transcript that is shown raw
\* starts from the raw text.
CommitEdits(t) ==
  /\ Has(t)
  /\ Commit(UpdateNormalizedText(db, t, Shown(db, t)))
  /\ UNCHANGED <<nextId, last, pending, crashes, acked, retold>>

\* The audio of a row is its own, also when it holds the words of others; a
\* shipped prompt has none.
Retranscribe(t) ==
  /\ Has(t) /\ ~IsProtected(t)
  /\ Commit(UpdateNormalizedText(db, t, <<t>>))
  /\ retold' = IF db.rows[t].raw = <<t>> THEN retold ELSE retold \cup {t}
  /\ UNCHANGED <<nextId, last, pending, crashes, acked>>

\* RevertToRawIntent.
RevertToRaw(t) ==
  /\ Has(t)
  /\ Commit(UpdateNormalizedText(db, t, <<>>))
  /\ UNCHANGED <<nextId, last, pending, crashes, acked, retold>>

\* Rows that deleting the rows of S deletes: children of a root go with it.
Cascade(d, S) == S \cup UNION {Children(d, t) : t \in S}

DeleteRows(S) ==
  /\ Commit(Without(db, Cascade(db, S)))
  /\ acked' = acked \ Cascade(db, S)
  /\ UNCHANGED <<nextId, last, pending, crashes, retold>>

\* Only unprotected roots are deleted by id.
Deletable(t) == Has(t) /\ ~IsProtected(t) /\ IsRoot(db, t)

DeleteTranscript(t) == Deletable(t) /\ DeleteRows({t})

BatchDeleteTranscripts(S) ==
  LET gone == {t \in S : Deletable(t)} IN
  gone # {} /\ DeleteRows(gone)

ClearAllTranscripts ==
  LET gone == {t \in DOMAIN db.rows : ~IsProtected(t)} IN
  gone # {} /\ DeleteRows(gone)

\* A DELETE or UPDATE that meets no row commits what is open.
MeetsNoRow ==
  /\ Commit(db)
  /\ UNCHANGED <<nextId, last, pending, crashes, acked, retold>>

\* Mutant: the target is taken for the root.
TargetAsRoot(t) == t

RootOf(t) == IF IsRoot(db, t) THEN t ELSE db.rows[t].root

NextOrder(d, r) ==
  1 + (IF Children(d, r) = {} THEN 0
       ELSE Max({d.rows[c].ord : c \in Children(d, r)}))

\* The words of the source go to the end of the root's. A root that is shown
\* raw stays so: its raw text holds them.
Lengthened(d, r, s) ==
  [d.rows[r] EXCEPT !.raw = @ \o d.rows[s].raw,
                    !.norm = IF @ = <<>> THEN <<>> ELSE @ \o Shown(d, s)]

\* The source and its members move behind the members of the root.
AppendedRows(d, r, s) ==
  [t \in DOMAIN d.rows |->
     CASE t = r -> Lengthened(d, r, s)
       [] t = s -> [d.rows[t] EXCEPT !.root = r, !.ord = NextOrder(d, r)]
       [] d.rows[t].root = s -> [d.rows[t] EXCEPT !.root = r, !.ord = @ + NextOrder(d, r)]
       [] OTHER -> d.rows[t]]

\* Mutant: the members of the source stay behind.
AppendedAlone(d, r, s) ==
  [d EXCEPT !.rows[r] = Lengthened(d, r, s), !.rows[s].root = r, !.rows[s].ord = NextOrder(d, r)]

\* Mutant: a root that was reverted is shown as what was appended only.
AppendedOverRaw(d, r, s) ==
  [d EXCEPT !.rows[r].raw = @ \o d.rows[s].raw,
            !.rows[r].norm = @ \o Shown(d, s),
            !.rows[s].root = r, !.rows[s].ord = NextOrder(d, r)]

Appended(d, r, s) == [d EXCEPT !.rows = AppendedRows(d, r, s)]

\* AppendToTranscriptIntent: the target stands for its compound; a source that
\* is a member of any compound is refused. Its own members follow it.
AppendToTranscript(t, s) ==
  /\ Has(t) /\ Has(s)
  /\ s # RootOf(t) /\ IsRoot(db, s)
  /\ Cardinality(pending) < MaxPending
  /\ Commit(Appended(db, RootOf(t), s))
  /\ pending' = pending \cup {RootOf(t)}
  /\ UNCHANGED <<nextId, last, crashes, acked, retold>>

-----------------------------------------------------------------------------
(* Tags *)

AddTag(g) ==
  /\ g \in UserTags \ db.tags
  /\ Commit([db EXCEPT !.tags = @ \cup {g}])
  /\ UNCHANGED <<nextId, last, pending, crashes, acked, retold>>

DeleteTag(g) ==
  /\ g \in db.tags
  /\ Commit([db EXCEPT !.tags = @ \ {g}, !.links = {l \in @ : l[2] # g}])
  /\ UNCHANGED <<nextId, last, pending, crashes, acked, retold>>

\* What assign_tags deletes before it inserts: all but the tags the engine sets.
Assignable(d, t) ==
  {l \in d.links : l[1] = t /\ l[2] \notin AutoManaged}

AssignTags(t, G) ==
  /\ Has(t) /\ G \subseteq db.tags
  /\ Commit([db EXCEPT !.links = (@ \ Assignable(db, t)) \cup ({t} \X G)])
  /\ UNCHANGED <<nextId, last, pending, crashes, acked, retold>>

\* A tag id that is gone raises out of the loop: the DELETE and the INSERTs
\* before it stay in the open transaction.
AssignTagsFails(t, G) ==
  /\ Has(t) /\ G \subseteq db.tags
  /\ db.tags # UserTags
  /\ db' = [db EXCEPT !.links = (@ \ Assignable(db, t)) \cup ({t} \X G)]
  /\ UNCHANGED <<disk, nextId, last, pending, crashes, acked, retold>>

BatchToggleTag(S, g, add) ==
  LET links == S \X {g} IN
  /\ g \in db.tags
  /\ S \subseteq DOMAIN db.rows
  /\ Commit([db EXCEPT !.links = IF add THEN @ \cup links ELSE @ \ links])
  /\ UNCHANGED <<nextId, last, pending, crashes, acked, retold>>

\* A transcript that is gone raises out of executemany: the links before it
\* stay in the open transaction.
BatchToggleTagFails(S, g) ==
  /\ g \in db.tags
  /\ S \subseteq DOMAIN db.rows
  /\ \E t \in Ids : ~Has(t) /\ t < nextId
  /\ db' = [db EXCEPT !.links = @ \cup (S \X {g})]
  /\ UNCHANGED <<disk, nextId, last, pending, crashes, acked, retold>>

-----------------------------------------------------------------------------
(* Second methods of handlers, the process *)

\* add_system_tag_to_transcript: a row that is gone raises before anything is
\* changed.
AddSystemTag(t, g) ==
  IF Has(t) THEN Commit([db EXCEPT !.links = @ \cup {<<t, g>>}])
  ELSE UNCHANGED <<db, disk>>

\* The handler of an append tags the root by a second method.
TagCompound(t) ==
  /\ t \in pending
  /\ AddSystemTag(t, "Compound")
  /\ pending' = pending \ {t}
  /\ UNCHANGED <<nextId, last, crashes, acked, retold>>

Stamps(d) == {d.rows[t].stamp : t \in DOMAIN d.rows}

\* The process ends and starts again: an open transaction is rolled back, and
\* the last timestamp is the newest that is stored.
Restart ==
  /\ crashes < MaxCrashes
  /\ crashes' = crashes + 1
  /\ db' = disk
  /\ last' = IF Stamps(disk) = {} THEN 0 ELSE Max(Stamps(disk))
  /\ pending' = {}
  /\ UNCHANGED <<disk, nextId, acked, retold>>

Next ==
  \/ \E now \in 0..MaxClock : AddTranscript(now) \/ AddTranscriptFails(now)
  \/ \E t \in Ids :
       \/ CommitEdits(t) \/ Retranscribe(t) \/ RevertToRaw(t)
       \/ DeleteTranscript(t) \/ TagCompound(t)
       \/ \E s \in Ids : AppendToTranscript(t, s)
       \/ \E G \in SUBSET (UserTags) :
            AssignTags(t, G) \/ AssignTagsFails(t, G)
  \/ \E S \in SUBSET Ids :
       \/ BatchDeleteTranscripts(S)
       \/ \E g \in UserTags :
            \/ \E add \in BOOLEAN : BatchToggleTag(S, g, add)
            \/ BatchToggleTagFails(S, g)
  \/ \E g \in UserTags : AddTag(g) \/ DeleteTag(g)
  \/ ClearAllTranscripts \/ MeetsNoRow
  \/ Restart

Spec == Init /\ [][Next]_vars

-----------------------------------------------------------------------------
(* Properties *)

\* The members of a root by their places.
InOrder(d, r) ==
  CHOOSE q \in SetToSeqs(Children(d, r)) :
    \A i, j \in DOMAIN q : i < j => d.rows[q[i]].ord < d.rows[q[j]].ord

\* A compound has one level and an order: a member's root is a root that
\* exists, and no two members of a root have the same place. (append_to_transcript
\* moves the members of the source with it.)
CompoundsAreFlat ==
  \A d \in {db, disk} : \A t \in DOMAIN d.rows : ~IsRoot(d, t) =>
    /\ d.rows[t].root \in Roots(d)
    /\ \A c \in DOMAIN d.rows : c # t /\ d.rows[c].root = d.rows[t].root =>
         d.rows[c].ord # d.rows[t].ord

\* What is shown of a transcript holds everything its raw text holds, in the
\* same order, however it was edited, refined, reverted and appended to, unless
\* one whose words it holds was retranscribed while that held those of others.
NothingIsHidden ==
  \A t \in DOMAIN db.rows :
    Shown(db, t) = db.rows[t].raw \/ ToSet(db.rows[t].raw) \cap retold # {}

\* Transcripts are stamped in the order they were stored, over restarts and a
\* clock that is set back.
StampsFollowIds ==
  \A t, u \in DOMAIN db.rows : t < u => db.rows[t].stamp < db.rows[u].stamp

\* A transcript whose add_transcript returned is on disk until it is deleted,
\* whatever fails, rolls back or ends afterwards.
AckedIsDurable == acked \subseteq DOMAIN disk.rows

\* A compound carries its tag once the append is through, unless the process
\* ended between the two.
CompoundIsTagged ==
  \A r \in Roots(db) : Children(db, r) # {} =>
    \/ <<r, "Compound">> \in db.links
    \/ r \in pending
    \/ crashes > 0

\* The rows, the stamps and the tags agree with each other.
LibraryAgrees == TypeOK /\ StampsFollowIds /\ CompoundIsTagged

\* The library is a shelf of compounds: each root with its members in order.
Compound(d, r) == <<r>> \o InOrder(d, r)
OnShelf(d) == {Compound(d, r) : r \in Roots(d)}
Deleted == 1..(nextId - 1) \ DOMAIN disk.rows

Shelf == INSTANCE Compounds
  WITH Transcripts <- Ids, Protected <- Seeded, shelf <- OnShelf(disk), gone <- Deleted

\* Whatever happens to the file, transcripts only come, join the end of another
\* compound, or go with their compound.
ImplementsCompounds == Shelf!Spec
===============================================================================
