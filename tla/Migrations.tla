------------------------------- MODULE Migrations -------------------------------
(***************************************************************************)
(* Opening the database: TranscriptDB's baseline schema, then the          *)
(* migrations of src/database/migrations.py, in a process that may die     *)
(* between any two of them.                                                *)
(*                                                                         *)
(* sqlite3 opens a transaction before an INSERT, UPDATE or DELETE only:    *)
(* outside of one, and in a script, each schema statement is durable by    *)
(* itself. A step here is what becomes durable at once. The file is one    *)
(* record, because a step reads and writes most of it; a table that does   *)
(* not exist is None.                                                      *)
(***************************************************************************)
EXTENDS Integers, FiniteSets

CONSTANTS
  Rows,        \* the user's transcripts
  Filed,       \* those of them with a project and a variant
  Recordings,  \* the user's recordings, each with a session and an asset
  None,        \* a table or an index that does not exist
  MaxCrashes   \* bound on the times the process dies

VARIABLES
  db,          \* the file
  phase,       \* what the process is doing: not running, creating the
               \* schema, migrating, done, or failed
  at,          \* the step it is at in the migration after db.version
  crashes,
  torn,        \* history: the steps of version 12 it died at
  user         \* the transcripts and recordings that were in the file to begin with

vars == <<db, phase, at, crashes, torn, user>>

Target == 18
Prompts == {"default", "legacy", "fast", "deep"}
Entries == Rows \cup Prompts
Shipped == {"fast", "deep"}
SystemTag == [v \in {5, 7, 9} |->
                CASE v = 5 -> "Refined" [] v = 7 -> "Compound" [] v = 9 -> "Prompt"]

\* The versions that add columns, as many as matter, to tags (5) or transcripts.
Columns == {<<5, 1>>, <<6, 1>>, <<8, 1>>, <<9, 1>>} \cup ({10, 11, 16, 17} \X {1, 2})

\* The audio tables, and what one is like: its rows, the table its foreign key
\* names, and the copy that version 15 fills.
Vault == {"recording_sessions", "audio_assets"}
VaultOf(rows, to) == [t \in Vault |-> [rows |-> rows, to |-> to, copy |-> None]]
NoVault == VaultOf(None, "transcripts")

\* What a program of version v has left behind.
FileOf(v, prompts, vault) ==
  [version |-> v,
   columns |-> {c \in Columns : c[1] <= v},
   transcripts |-> Rows \cup prompts, renamed |-> None, unique |-> v < 12,
   fts |-> IF v < 2 THEN None ELSE [e \in Entries |-> IF e \in Rows \cup prompts THEN 1 ELSE 0],
   triggers |-> v >= 2,
   tags |-> IF v < 3 THEN None
            ELSE [t \in {"project", "Refined", "Compound", "Prompt"} |->
                    IF t = "project" \/ \E w \in DOMAIN SystemTag : SystemTag[w] = t /\ w <= v
                    THEN 1 ELSE 0],
   links |-> IF v < 3 THEN None
             ELSE (Filed \X {"project"}) \cup (prompts \X {"Prompt"}),
   linksTo |-> "transcripts", linksRenamed |-> None,
   legacy |-> v < 4, chosen |-> IF v < 4 THEN {} ELSE Filed,
   vault |-> vault]

NewFile == [FileOf(0, {}, NoVault) EXCEPT !.transcripts = None, !.unique = FALSE,
                                       !.legacy = FALSE, !.chosen = {}]

PromptsOf(v) == IF v < 9 THEN {{}} ELSE IF v < 13 THEN {{"default"}}
                ELSE {{"legacy"}, Shipped}

\* The audio tables of a file that met version 12 after they were created. A
\* table whose foreign key names a missing table takes no row.
VaultsOf(v) ==
  LET stale == VaultOf({}, "renamed") IN
  IF v < 12 THEN {NoVault} ELSE IF v < 14 THEN {NoVault, stale}
  ELSE {VaultOf(Recordings, "transcripts")} \cup (IF v = 14 THEN {stale} ELSE {})

Init ==
  /\ db \in {NewFile} \cup
            UNION {{FileOf(v, p, w) : p \in PromptsOf(v), w \in VaultsOf(v)} : v \in 0..(Target - 1)}
  /\ phase = "off" /\ at = 0 /\ crashes = 0 /\ torn = {}
  /\ user = IF db.transcripts = None THEN {}
            ELSE Rows \cup (IF db.version < 14 THEN {} ELSE db.vault["audio_assets"].rows)

-----------------------------------------------------------------------------
(* Steps of a migration *)

\* The step of version v that leaves the file as new, and the next step.
Step(v, step, new, next) ==
  /\ phase = "migrate" /\ at = step /\ db.version = v - 1
  /\ db' = new /\ at' = next
  /\ UNCHANGED <<phase, crashes, torn, user>>

\* The transaction that ends with the version.
LastStep(v, step, new) == Step(v, step, [new EXCEPT !.version = v], 0)

Fails(v, step) ==
  /\ phase = "migrate" /\ at = step /\ db.version = v - 1
  /\ phase' = "failed"
  /\ UNCHANGED <<db, at, crashes, torn, user>>

Missing(v) == {c \in Columns : c[1] = v} \ db.columns

\* A migration that adds columns checks first which ones there are.
AddColumn ==
  \E c \in Missing(db.version + 1) :
    Step(c[1], 0, [db EXCEPT !.columns = @ \cup {c}], 0)

Complete(v) == Missing(v) = {}

-----------------------------------------------------------------------------
(* The migrations *)

\* TranscriptDB.__init__: CREATE TABLE IF NOT EXISTS, in today's form.
CreateSchema ==
  /\ phase = "create"
  /\ db' = [db EXCEPT
       !.columns = @ \cup (IF db.tags = None THEN {<<5, 1>>} ELSE {})
                     \cup (IF db.transcripts = None THEN Columns ELSE {}),
       !.unique = @ /\ db.transcripts # None,
       !.transcripts = IF @ = None THEN {} ELSE @,
       !.tags = IF @ = None THEN [t \in {"project", "Refined", "Compound", "Prompt"} |-> 0] ELSE @,
       !.links = IF @ = None THEN {} ELSE @,
       !.linksTo = IF db.links = None THEN "transcripts" ELSE @,
       !.vault = [t \in Vault |-> IF @[t].rows = None
                                 THEN [@[t] EXCEPT !.rows = {}, !.to = "transcripts"]
                                 ELSE @[t]]]
  /\ phase' = "migrate" /\ at' = 0
  /\ UNCHANGED <<crashes, torn, user>>

Indexed(fts, rows) == [e \in Entries |-> IF e \in rows THEN fts[e] + 1 ELSE fts[e]]
NoIndex == [e \in Entries |-> 0]

\* _v2_add_fts5: an index and triggers if there are none, and a copy of the rows.
AddSearch(f) ==
  LET there == IF f.fts = None THEN NoIndex ELSE f.fts IN
  [f EXCEPT !.fts = Indexed(there, f.transcripts), !.triggers = TRUE]

Baseline == LastStep(1, 0, db)

SearchTable == Step(2, 0, [db EXCEPT !.fts = IF @ = None THEN NoIndex ELSE @,
                                     !.triggers = TRUE], 1)
SearchRows == LastStep(2, 1, AddSearch(db))

ProjectsToTags ==
  LastStep(3, 0, IF db.legacy
                 THEN [db EXCEPT !.tags["project"] = @ + 1,
                                 !.links = @ \cup (Filed \X {"project"})]
                 ELSE db)

\* Mutant: the variants are dropped with the projects, and never copied.
KeepNothing == Step(4, 0, db, 1)

KeepVariants == Step(4, 0, IF db.legacy THEN [db EXCEPT !.chosen = Filed] ELSE db, 1)
DropLegacy == Step(4, 1, [db EXCEPT !.legacy = FALSE], 2)
DroppedLegacy == LastStep(4, 2, db)

\* Versions 5, 7 and 9 make sure of their tag; 9 of the default prompt too.
SeedTag(f, v) == [f EXCEPT !.tags[SystemTag[v]] = IF @ = 0 THEN 1 ELSE @]

Insert(f, p) ==
  [f EXCEPT !.transcripts = @ \cup {p},
            !.fts = IF f.triggers THEN Indexed(@, {p}) ELSE @]

SystemTags == \E v \in {5, 7} : Complete(v) /\ LastStep(v, 0, SeedTag(db, v))

PromptSystem ==
  /\ Complete(9)
  /\ LastStep(9, 0,
       IF "default" \in db.transcripts THEN SeedTag(db, 9)
       ELSE [Insert(SeedTag(db, 9), "default") EXCEPT
               !.links = @ \cup {<<"default", "Prompt">>}])

\* Versions that only add columns, or tables that are there.
OnlyColumns == \E v \in {6, 8, 10, 11, 14, 16, 17} : Complete(v) /\ LastStep(v, 0, db)

-----------------------------------------------------------------------------
(* Version 12, a script: the tables are built again *)

AlreadyNotUnique == ~db.unique /\ LastStep(12, 0, db)

DropTriggers == db.unique /\ Step(12, 0, [db EXCEPT !.triggers = FALSE], 1)

\* SQLite points the foreign keys of every other table to the new name.
RenameTable ==
  Step(12, 1, [db EXCEPT !.renamed = db.transcripts, !.transcripts = None,
                         !.linksTo = "renamed",
                         !.vault = [t \in Vault |-> [@[t] EXCEPT !.to = "renamed"]]], 2)
CreateTable == Step(12, 2, [db EXCEPT !.transcripts = {}, !.unique = FALSE,
                                      !.columns = {c \in @ : c[1] <= 11}], 3)
CopyRows == Step(12, 3, [db EXCEPT !.transcripts = db.renamed], 4)
DropRenamed == Step(12, 4, [db EXCEPT !.renamed = None], 5)
RenameLinks == Step(12, 5, [db EXCEPT !.linksRenamed = db.links, !.links = None], 6)

\* Mutant: the links are left to the foreign keys of the renamed table.
CreateLinksAsTheyWere == Step(12, 6, [db EXCEPT !.links = {}], 7)

CreateLinks == Step(12, 6, [db EXCEPT !.links = {}, !.linksTo = "transcripts"], 7)

CopyLinks == Step(12, 7, [db EXCEPT !.links = {l \in db.linksRenamed : l[1] \in db.transcripts}], 8)
DropLinks == Step(12, 8, [db EXCEPT !.linksRenamed = None], 9)
Rebuilt == LastStep(12, 9, [db EXCEPT !.triggers = TRUE])

Rebuild ==
  \/ AlreadyNotUnique \/ DropTriggers \/ RenameTable \/ CreateTable \/ CopyRows
  \/ DropRenamed \/ RenameLinks \/ CreateLinks \/ CopyLinks \/ DropLinks \/ Rebuilt

-----------------------------------------------------------------------------
(* Versions 13 and 18: the prompts, outside the search index *)

\* The script of 13 commits what 18 has deleted before it, and drops the index.
LegacyDeleted ==
  Step(18, 0, [db EXCEPT !.transcripts = @ \ {"legacy"},
                         !.links = {l \in @ : l[1] # "legacy"},
                         !.fts = IF db.triggers /\ "legacy" \in db.transcripts
                                 THEN [@ EXCEPT !["legacy"] = 0] ELSE @], 1)
SearchTriggersDropped ==
  \/ Step(13, 0, [db EXCEPT !.triggers = FALSE], 2)
  \/ Step(18, 1, [db EXCEPT !.triggers = FALSE], 2)
SearchDropped == \E v \in {13, 18} : Step(v, 2, [db EXCEPT !.fts = None], 3)

\* The default prompt becomes the first of the shipped ones if that is missing.
Seeded(rows) ==
  (IF "fast" \in rows THEN rows ELSE rows \ {"default"}) \cup Shipped

SeedPrompts(f) ==
  AddSearch(SeedTag([f EXCEPT !.transcripts = Seeded(@),
    !.links = {l \in @ : l[1] # "default" \/ "fast" \in f.transcripts}
              \cup (Shipped \X {"Prompt"})], 9))

\* A new link needs its prompt in the table that the foreign key names. If that
\* is the renamed one, a prompt has an id of it only in a table begun anew.
LinksWork == db.linksTo = "transcripts" \/ Shipped \X {"Prompt"} \subseteq db.links
IdsMayMeet == db.renamed \notin {None, {}} /\ db.renamed \cap db.transcripts = {}

PromptsSeeded ==
  \E v \in {13, 18} : LastStep(v, 3, SeedPrompts(db)) /\ (LinksWork \/ IdsMayMeet)
PromptsFail == \E v \in {13, 18} : Fails(v, 3) /\ ~LinksWork

-----------------------------------------------------------------------------
(* Version 15, a script: audio tables that v12 left pointing to the        *)
(* renamed table are built again                                           *)

Stale == \E t \in Vault : db.vault[t].to = "renamed"

VaultIsValid == ~Stale /\ LastStep(15, 0, db)

CopiesDropped ==
  \/ Stale /\ Step(15, 0, [db EXCEPT !.vault["recording_sessions"].copy = None], 1)
  \/ Step(15, 1, [db EXCEPT !.vault["audio_assets"].copy = None], 2)

\* One table, in four statements from the step first on.
RebuildTable(t, first) ==
  \/ Step(15, first, [db EXCEPT !.vault[t].copy = {}], first + 1)
  \/ Step(15, first + 1, [db EXCEPT !.vault[t].copy = db.vault[t].rows], first + 2)
  \/ Step(15, first + 2, [db EXCEPT !.vault[t].rows = None], first + 3)
  \/ Step(15, first + 3, [db EXCEPT !.vault[t] =
            [rows |-> db.vault[t].copy, to |-> "transcripts", copy |-> None]], first + 4)

RepairForeignKeys ==
  \/ VaultIsValid \/ CopiesDropped
  \/ RebuildTable("recording_sessions", 2) \/ RebuildTable("audio_assets", 6)
  \/ LastStep(15, 10, db)

-----------------------------------------------------------------------------
(* The process *)

Start ==
  /\ phase \in {"off", "failed"}
  /\ phase' = "create"
  /\ UNCHANGED <<db, at, crashes, torn, user>>

\* run_migrations at the last version: there is nothing to do.
Opened ==
  /\ phase = "migrate" /\ db.version = Target
  /\ phase' = "open"
  /\ UNCHANGED <<db, at, crashes, torn, user>>

Crash ==
  /\ phase \notin {"off", "open"} /\ crashes < MaxCrashes
  /\ crashes' = crashes + 1
  /\ phase' = "off"
  /\ torn' = torn \cup (IF phase = "migrate" /\ db.version = 11 THEN {at} ELSE {})
  /\ UNCHANGED <<db, at, user>>

Migrate ==
  \/ AddColumn \/ Baseline \/ SearchTable \/ SearchRows \/ ProjectsToTags
  \/ KeepVariants \/ DropLegacy \/ DroppedLegacy \/ SystemTags \/ PromptSystem
  \/ OnlyColumns \/ Rebuild \/ LegacyDeleted \/ SearchTriggersDropped \/ SearchDropped
  \/ PromptsSeeded \/ PromptsFail \/ RepairForeignKeys

Next == Start \/ CreateSchema \/ Migrate \/ Opened \/ Crash

Spec == Init /\ [][Next]_vars

\* The application is started again, and a start goes on until it is open or dies.
Fairness == WF_vars(Start \/ CreateSchema \/ Migrate \/ Opened)

FairSpec == Spec /\ Fairness

-----------------------------------------------------------------------------
(* Properties *)

TypeOK ==
  /\ db.version \in 0..Target /\ db.columns \subseteq Columns
  /\ phase \in {"off", "create", "migrate", "open", "failed"} /\ torn \subseteq 0..9
  /\ phase = "migrate" /\ at > 0 => db.version + 1 \in {2, 4, 12, 13, 15, 18}
  /\ db.renamed # None => db.version = 11 \/ torn # {}

\* Died while the new transcripts table was missing or empty, before its rows were
\* dropped under the old name; or while the links had not been copied.
RowsTorn == torn \cap {2, 3} # {}
LinksTorn == torn \cap {6, 7} # {}

\* The schema of an open database, after whatever it began as and wherever the
\* process died on the way: nothing refers to a table that was renamed away, no
\* column is missing.
SchemaIsCurrent ==
  phase = "open" =>
    /\ db.columns = Columns
    /\ \A t \in Vault : db.vault[t].to = "transcripts"
    /\ ~RowsTorn => db.linksTo = "transcripts" /\ db.renamed = None
    /\ torn \subseteq {0, 1, 9} => db.linksRenamed = None

\* What the user had is there: each transcript, with its tag for the project it
\* was filed under and the text of its variant.
UserDataMigrates ==
  phase = "open" =>
    /\ user \cap Filed \subseteq db.chosen
    /\ \A t \in Vault : user \cap Recordings \subseteq db.vault[t].rows
    /\ ~RowsTorn => user \cap Rows \subseteq db.transcripts
    /\ ~LinksTorn => (user \cap Filed) \X {"project"} \subseteq db.links

\* Full-text search finds every transcript, once.
SearchFindsAllOnce ==
  phase = "open" =>
    db.triggers /\ db.fts = [e \in Entries |-> IF e \in db.transcripts THEN 1 ELSE 0]

\* A repeated migration seeds nothing twice: each system tag is there once, and
\* the shipped prompts, with their tag, in place of those of earlier versions.
SeededOnce ==
  phase = "open" =>
    /\ \A v \in DOMAIN SystemTag : db.tags[SystemTag[v]] = 1
    /\ Shipped \subseteq db.transcripts /\ Shipped \X {"Prompt"} \subseteq db.links
    /\ db.transcripts \cap {"default", "legacy"} = {}

\* However often it dies, the next start goes on where it was.
OpensInTheEnd == <>(phase = "open" \/ torn \cap 2..5 # {})

\* migrations.py: a migration that fails leaves the database "in a consistent
\* pre-migration state", so that a later start can migrate it.
OpensAgain == <>(phase = "open")

\* migrations.py: each migration runs "inside its own transaction", and one that
\* fails leaves "the database in a consistent pre-migration state": no crash
\* during a migration takes a transcript out of the library.
CrashLosesNothing == phase = "open" => user \cap Rows \subseteq db.transcripts
=============================================================================
