------------------------------ MODULE MCLive_proofs ------------------------------
(***************************************************************************)
(* Proofs of safety properties of the components of MCLive, each by an     *)
(* inductive invariant of its own: one lemma for its beginning and one for *)
(* its steps.                                                              *)
(***************************************************************************)
EXTENDS MCLive, FiniteSetTheorems, TLAPS

-----------------------------------------------------------------------------
(* Refinement.  Who is about to tag a transcript has refined it, who is    *)
(* about to untag it has reverted it, unless the two met (raced) or it was *)
(* deleted meanwhile.                                                      *)

RefineTypes ==
  /\ Refine!TypeOK
  /\ api \in [op : {"idle", "tag", "untag"}, id : Transcripts \cup {Nobody}]
  /\ api.op = "idle" <=> api.id = Nobody
  /\ jpc \in [Jobs -> {"idle", "wait", "infer", "offered"}]
  /\ \A j \in Jobs : jpc[j] # "idle" => jt[j] \in Transcripts
  /\ jt \in [Jobs -> Transcripts \cup {Nobody}]
  /\ bpc \in {"idle", "next", "wait", "infer", "text", "tag", "final"}
  /\ bt \in Transcripts \cup {Nobody} /\ raced \subseteq Transcripts
  /\ total \in Nat /\ completed \in Nat /\ failed \in Nat

\* What is to be transcribed has no text yet, and what is refined had one.
NoTextYet ==
  /\ \A t \in Transcripts : text[t] = "none" <=> stage[t] \in {"new", "transcribing"}
  /\ api.op # "idle" => text[api.id] # "none"
  /\ \A j \in Jobs : jpc[j] # "idle" => text[jt[j]] # "none"
  /\ bpc \in {"wait", "infer", "text", "tag"} => bt # Nobody /\ text[bt] # "none"

WritersAgree ==
  /\ api.op = "tag" /\ api.id \notin raced => text[api.id] # "raw"
  /\ api.op = "untag" /\ api.id \notin raced => text[api.id] # "refined"
  /\ bpc = "tag" /\ bt \notin raced => text[bt] # "raw"

TagsAgree == RefineTypes /\ NoTextYet /\ WritersAgree /\ Refine!RefinedTagAgrees

RefineInv == TagsAgree /\ Refine!BulkAddsUp

LEMMA InitRefine == Refine!Init => RefineInv
<1> SUFFICES ASSUME Refine!Init PROVE RefineInv
  OBVIOUS
<1> USE TranscriptsAssumption DEF Refine!Init, Refine!Idle
<1>1. RefineTypes
  BY DEF RefineTypes, Refine!TypeOK, Refine!Texts
<1>2. NoTextYet /\ WritersAgree
  BY DEF NoTextYet, WritersAgree
<1>3. Refine!RefinedTagAgrees /\ Refine!BulkAddsUp
  BY DEF Refine!RefinedTagAgrees, Refine!BulkAddsUp
<1> QED  BY <1>1, <1>2, <1>3 DEF RefineInv, TagsAgree

LEMMA SameSize == \A S : Refine!Cardinality(S) = Cardinality(S)
BY DEF Cardinality, Refine!Cardinality

LEMMA NextBulkAddsUp ==
  RefineInv /\ [Refine!Next]_refineVars => Refine!BulkAddsUp'
<1> SUFFICES ASSUME RefineInv, [Refine!Next]_refineVars PROVE Refine!BulkAddsUp'
  OBVIOUS
<1> USE SameSize, TranscriptsAssumption DEF Refine!BulkAddsUp, RefineInv, TagsAgree,
     RefineTypes,
     Refine!TypeOK, Refine!bulk, Refine!flags, Refine!jobs
<1>0. IsFiniteSet(bleft) /\ Cardinality(bleft) \in Nat
  BY FS_Subset, FS_CardinalityType
<1>28. bpc \in {"wait", "infer", "text", "tag"} => bt # Nobody
  BY DEF NoTextYet
<1>1. ASSUME NEW t \in Fresh, Refine!Transcribe(t) PROVE Refine!BulkAddsUp'
  BY <1>1 DEF Refine!Transcribe
<1>2. ASSUME NEW t \in Fresh, Refine!Refine(t) PROVE Refine!BulkAddsUp'
  BY <1>2 DEF Refine!Refine, Refine!HandleRefine, Refine!Refuse, Refine!FallBack
<1>3. ASSUME NEW t \in Fresh, Refine!RevertToRaw(t) PROVE Refine!BulkAddsUp'
  BY <1>3 DEF Refine!RevertToRaw, Refine!ApiWrite
<1>4. ASSUME NEW t \in Transcripts, Refine!Delete(t) PROVE Refine!BulkAddsUp'
  BY <1>4 DEF Refine!Delete
<1>5. ASSUME NEW j \in Jobs, Refine!CommitRefinement(j) PROVE Refine!BulkAddsUp'
  BY <1>5 DEF Refine!CommitRefinement, Refine!ApiWrite
<1>6. ASSUME NEW S \in SUBSET Transcripts, NEW skip \in BOOLEAN, Refine!BulkRefine(S, skip)
      PROVE  Refine!BulkAddsUp'
  <2>1. /\ bleft' = IF skip THEN {t \in S : ~tag[t]} ELSE S
        /\ total' = Cardinality(IF skip THEN {t \in S : ~tag[t]} ELSE S)
        /\ completed' = 0 /\ failed' = 0 /\ bpc' = "next"
    BY ONLY SameSize, <1>6 DEF Refine!BulkRefine
  <2>2. bleft' \in SUBSET Transcripts /\ total' = Cardinality(bleft')
    BY <2>1
  <2>3. Cardinality(bleft') \in Nat
    BY ONLY SameSize, <2>2, TranscriptsAssumption, FS_Subset, FS_CardinalityType
  <2> QED
    BY ONLY SameSize, <2>1, <2>2, <2>3 DEF Refine!BulkAddsUp
<1>29. ASSUME NEW t \in Fresh, Refine!Retranscribe(t) PROVE Refine!BulkAddsUp'
  BY <1>29 DEF Refine!Retranscribe
<1>7. CASE Refine!CancelBulk
  BY <1>7 DEF Refine!CancelBulk
<1>9. CASE Refine!EngineGoes
  BY <1>9 DEF Refine!EngineGoes
<1>10. CASE Refine!EngineComes
  BY <1>10 DEF Refine!EngineComes
<1>11. CASE Refine!ApiTag
  BY <1>11 DEF Refine!ApiTag
<1>12. CASE Refine!BulkNext
  <2>1. PICK t \in bleft :
          /\ bleft' = bleft \ {t} /\ bt' = t
          /\ \/ bpc' = "wait" /\ failed' = failed
             \/ bpc' = "next" /\ failed' = failed + 1
          /\ bpc = "next" /\ total' = total /\ completed' = completed /\ bulkActive
    BY <1>12 DEF Refine!BulkNext, Refine!BulkGoes
  <2>2. t # Nobody
    BY <2>1
  <2>3. Cardinality(bleft') = Cardinality(bleft) - 1
    BY ONLY SameSize, <1>0, <2>1, FS_RemoveElement
  <2>4. total = completed + failed + Cardinality(bleft)
    BY ONLY SameSize, <1>0, <2>1, RefineInv DEF RefineInv, TagsAgree, RefineTypes,
       Refine!BulkAddsUp
  <2> QED
    BY ONLY SameSize, <1>0, <2>1, <2>2, <2>3, <2>4, RefineInv DEF RefineInv, TagsAgree,
          RefineTypes, Refine!BulkAddsUp
<1>13. CASE Refine!BulkAcquire
  BY <1>13 DEF Refine!BulkAcquire, Refine!BulkGoes
<1>14. CASE Refine!BulkInfers
  BY <1>14 DEF Refine!BulkInfers, Refine!BulkGoes
<1>15. CASE Refine!BulkGivesUp
  <2>1. /\ bpc \in {"wait", "infer"} /\ bpc' = "next" /\ failed' = failed + 1
        /\ UNCHANGED <<bt, bleft, completed, total, bulkActive>>
    BY <1>15 DEF Refine!BulkGivesUp, Refine!BulkGoes
  <2> QED
    BY ONLY SameSize, <1>0, <1>28, <2>1, RefineInv DEF RefineInv, TagsAgree, RefineTypes,
          Refine!BulkAddsUp
<1>16. CASE Refine!BulkText
  BY <1>16 DEF Refine!BulkText, Refine!BulkGoes
<1>17. CASE Refine!BulkTag
  <2>1. /\ bpc = "tag" /\ bpc' = "next" /\ completed' = completed + 1
        /\ UNCHANGED <<bt, bleft, failed, total, bulkActive>>
    BY <1>17 DEF Refine!BulkTag, Refine!BulkGoes
  <2> QED
    BY ONLY SameSize, <1>0, <1>28, <2>1, RefineInv DEF RefineInv, TagsAgree, RefineTypes,
          Refine!BulkAddsUp
<1>18. CASE Refine!BulkCrashes
  BY <1>18 DEF Refine!BulkCrashes, Refine!BulkGoes
<1>19. CASE Refine!BulkComplete
  BY <1>19 DEF Refine!BulkComplete, Refine!BulkGoes
<1>20. CASE Refine!BulkFinally
  BY <1>20 DEF Refine!BulkFinally
<1>21. ASSUME NEW t \in Transcripts, Refine!Store(t) PROVE Refine!BulkAddsUp'
  BY <1>21 DEF Refine!Store
<1>22. ASSUME NEW t \in Transcripts, Refine!AutoRefine(t) PROVE Refine!BulkAddsUp'
  BY <1>22 DEF Refine!AutoRefine, Refine!HandleRefine, Refine!Refuse, Refine!FallBack
<1>23. ASSUME NEW j \in Jobs, Refine!JobAcquire(j) PROVE Refine!BulkAddsUp'
  BY <1>23 DEF Refine!JobAcquire
<1>24. ASSUME NEW j \in Jobs, Refine!JobTimesOut(j) PROVE Refine!BulkAddsUp'
  BY <1>24 DEF Refine!JobTimesOut, Refine!JobEnds, Refine!FallBack
<1>25. ASSUME NEW j \in Jobs, Refine!JobFails(j) PROVE Refine!BulkAddsUp'
  BY <1>25 DEF Refine!JobFails, Refine!JobEnds, Refine!FallBack
<1>26. ASSUME NEW j \in Jobs, Refine!JobSucceeds(j) PROVE Refine!BulkAddsUp'
  BY <1>26 DEF Refine!JobSucceeds, Refine!JobEnds
<1>27. CASE UNCHANGED refineVars
  BY <1>27 DEF refineVars
<1> QED
  BY <1>1, <1>2, <1>3, <1>4, <1>5, <1>6, <1>7, <1>9, <1>10, <1>11, <1>12, <1>13,
     <1>14,
     <1>15, <1>16, <1>17, <1>18, <1>19, <1>20, <1>21, <1>22, <1>23, <1>24, <1>25, <1>26, <1>27, <1>29
     DEF Refine!Next, Refine!UserStep, Refine!BulkStep, Refine!JobStep

LEMMA NextTags == RefineInv /\ [Refine!Next]_refineVars => TagsAgree'
<1> SUFFICES ASSUME RefineInv, [Refine!Next]_refineVars PROVE TagsAgree'
  OBVIOUS
<1> USE TranscriptsAssumption DEF RefineInv, TagsAgree, RefineTypes, NoTextYet,
     WritersAgree,
     Refine!TypeOK, Refine!Texts, Refine!Idle, Refine!Exists, Refine!Ready, Refine!Free,
     Refine!Writing, Refine!RefinedTagAgrees,
     Refine!rows, Refine!delivery, Refine!settings, Refine!engine, Refine!jobs, Refine!bulk,
     Refine!flags
<1>1. ASSUME NEW t \in Fresh, Refine!Transcribe(t) PROVE TagsAgree'
  BY <1>1 DEF Refine!Transcribe
<1>2. ASSUME NEW t \in Fresh, Refine!Refine(t) PROVE TagsAgree'
  BY <1>2 DEF Refine!Refine, Refine!HandleRefine, Refine!Refuse, Refine!FallBack
<1>3. ASSUME NEW t \in Fresh, Refine!RevertToRaw(t) PROVE TagsAgree'
  BY <1>3 DEF Refine!RevertToRaw, Refine!ApiWrite
<1>4. ASSUME NEW t \in Transcripts, Refine!Delete(t) PROVE TagsAgree'
  BY <1>4 DEF Refine!Delete
<1>5. ASSUME NEW j \in Jobs, Refine!CommitRefinement(j) PROVE TagsAgree'
  BY <1>5 DEF Refine!CommitRefinement, Refine!ApiWrite
<1>6. ASSUME NEW S \in SUBSET Transcripts, NEW skip \in BOOLEAN, Refine!BulkRefine(S, skip)
      PROVE  TagsAgree'
  <2>1. \A ids \in SUBSET Transcripts : Cardinality(ids) \in Nat
    BY FS_Subset, FS_CardinalityType
  <2>2. /\ \E ids \in SUBSET Transcripts : bleft' = ids /\ total' = Cardinality(ids)
        /\ completed' = 0 /\ failed' = 0 /\ ~bulkActive /\ bpc' = "next" /\ bt' = Nobody
        /\ bulkActive' /\ UNCHANGED <<text, tag, stage, holder, api, jpc, jt, raced>>
    <3>1. (IF skip THEN {t \in S : ~tag[t]} ELSE S) \in SUBSET Transcripts
      OBVIOUS
    <3> QED
      BY ONLY SameSize, <1>6, <3>1 DEF Refine!BulkRefine, Refine!rows, Refine!delivery,
         Refine!jobs
  <2>3. bpc = "idle" /\ bleft' \subseteq Transcripts /\ total' \in Nat
    BY <2>1, <2>2
  <2> QED
    BY <2>2, <2>3
<1>29. ASSUME NEW t \in Fresh, Refine!Retranscribe(t) PROVE TagsAgree'
  BY <1>29 DEF Refine!Retranscribe
<1>7. CASE Refine!CancelBulk
  BY <1>7 DEF Refine!CancelBulk
<1>9. CASE Refine!EngineGoes
  BY <1>9 DEF Refine!EngineGoes
<1>10. CASE Refine!EngineComes
  BY <1>10 DEF Refine!EngineComes
<1>11. CASE Refine!ApiTag
  BY <1>11 DEF Refine!ApiTag
<1>12. CASE Refine!BulkNext
  <2>1. PICK t \in bleft :
          /\ bleft' = bleft \ {t} /\ bt' = t
          /\ \/ bpc' = "wait" /\ failed' = failed /\ Refine!Exists(t)
             \/ bpc' = "next" /\ failed' = failed + 1
          /\ bpc = "next" /\ total' = total /\ completed' = completed /\ UNCHANGED bulkActive
          /\ UNCHANGED <<text, tag, stage, holder, api, jpc, jt, raced>>
    BY <1>12 DEF Refine!BulkNext, Refine!BulkGoes
  <2> QED
    BY <2>1
<1>13. CASE Refine!BulkAcquire
  BY <1>13 DEF Refine!BulkAcquire, Refine!BulkGoes
<1>14. CASE Refine!BulkInfers
  BY <1>14 DEF Refine!BulkInfers, Refine!BulkGoes
<1>15. CASE Refine!BulkGivesUp
  BY <1>15 DEF Refine!BulkGivesUp, Refine!BulkGoes
<1>16. CASE Refine!BulkText
  BY <1>16 DEF Refine!BulkText, Refine!BulkGoes
<1>17. CASE Refine!BulkTag
  BY <1>17 DEF Refine!BulkTag, Refine!BulkGoes
<1>18. CASE Refine!BulkCrashes
  BY <1>18 DEF Refine!BulkCrashes, Refine!BulkGoes
<1>19. CASE Refine!BulkComplete
  BY <1>19 DEF Refine!BulkComplete, Refine!BulkGoes
<1>20. CASE Refine!BulkFinally
  BY <1>20 DEF Refine!BulkFinally
<1>21. ASSUME NEW t \in Transcripts, Refine!Store(t) PROVE TagsAgree'
  BY <1>21 DEF Refine!Store
<1>22. ASSUME NEW t \in Transcripts, Refine!AutoRefine(t) PROVE TagsAgree'
  BY <1>22 DEF Refine!AutoRefine, Refine!HandleRefine, Refine!Refuse, Refine!FallBack
<1>23. ASSUME NEW j \in Jobs, Refine!JobAcquire(j) PROVE TagsAgree'
  BY <1>23 DEF Refine!JobAcquire
<1>24. ASSUME NEW j \in Jobs, Refine!JobTimesOut(j) PROVE TagsAgree'
  BY <1>24 DEF Refine!JobTimesOut, Refine!JobEnds, Refine!FallBack
<1>25. ASSUME NEW j \in Jobs, Refine!JobFails(j) PROVE TagsAgree'
  BY <1>25 DEF Refine!JobFails, Refine!JobEnds, Refine!FallBack
<1>26. ASSUME NEW j \in Jobs, Refine!JobSucceeds(j) PROVE TagsAgree'
  BY <1>26 DEF Refine!JobSucceeds, Refine!JobEnds
<1>27. CASE UNCHANGED refineVars
  BY <1>27 DEF refineVars
<1> QED
  BY ONLY [Refine!Next]_refineVars, <1>1, <1>2, <1>3, <1>4, <1>5, <1>6, <1>7, <1>9,
     <1>10,
        <1>11, <1>12,
      <1>13, <1>14, <1>15, <1>16, <1>17, <1>18, <1>19, <1>20, <1>21, <1>22, <1>23, <1>24, <1>25, <1>26, <1>27, <1>29
     DEF Refine!Next, Refine!UserStep, Refine!BulkStep, Refine!JobStep

LEMMA NextRefine == RefineInv /\ [Refine!Next]_refineVars => RefineInv'
BY NextBulkAddsUp, NextTags DEF RefineInv

-----------------------------------------------------------------------------
(* Migrations.  What the file is like follows from its version and, within *)
(* a migration of several steps, from the step. Kept and KeptLinks are the *)
(* tables of transcripts and links wherever the rebuild has them; a part   *)
(* of the invariant is for a file that no death tore in the middle of it.  *)

\* The rebuild of version 12 after the old table has been renamed.
Rebuilding == phase = "migrate" /\ db.version = 11 /\ step >= 2
\* A death in it; after one, no start goes through the rebuild again.
Torn == \E s \in torn : s >= 2
RowsTorn == Database!RowsTorn
LinksTorn == Database!LinksTorn
CopyTorn == torn \cap {4, 5} # {}
LeftTorn == torn \cap {6, 7, 8} # {}

Kept == IF Rebuilding /\ step <= 3 THEN db.renamed ELSE db.transcripts
KeptLinks == IF Rebuilding /\ step \in {6, 7} THEN db.linksRenamed ELSE db.links

FileShape ==
  db = [version |-> db.version, columns |-> db.columns, transcripts |-> db.transcripts,
        renamed |-> db.renamed, unique |-> db.unique, fts |-> db.fts,
        triggers |-> db.triggers, tags |-> db.tags, links |-> db.links,
        linksTo |-> db.linksTo, linksRenamed |-> db.linksRenamed, legacy |-> db.legacy,
        chosen |-> db.chosen, vault |-> db.vault]

\* Where the process is.
StepsInPlace ==
  /\ db.version \in 0..18 /\ step \in Nat
  /\ phase \in {"off", "create", "migrate", "open", "failed"}
  /\ phase = "migrate" /\ step # 0 =>
       \/ db.version = 1 /\ step = 1
       \/ db.version = 12 /\ step \in {2, 3}
       \/ db.version = 17 /\ step \in {1, 2, 3}
       \/ db.version = 3 /\ step \in {1, 2}
       \/ db.version = 11 /\ step \in 1..9
       \/ db.version = 14 /\ step \in 1..10
  /\ phase = "open" => db.version = 18
  /\ user \in {{}, Rows, Rows \cup Recordings}

\* What a death in the rebuild leaves: a table that the next start takes for
\* one that has been rebuilt.
Deaths ==
  /\ torn \subseteq 0..9
  /\ Rebuilding =>
       /\ ~db.unique \/ db.transcripts = None
       /\ step <= 6 => db.linksTo = "renamed"
  /\ Torn =>
       /\ db.version >= 11 /\ ~Rebuilding
       /\ ~db.unique \/ db.transcripts = None
       /\ db.version = 11 /\ phase = "migrate" => step = 0 /\ ~db.unique
  /\ CopyTorn /\ ~RowsTorn =>
       /\ db.version \in {11, 12} /\ phase # "open"
       /\ db.linksTo = "renamed" /\ db.links # None
       /\ db.renamed = None \/ db.renamed = db.transcripts

ColumnsSoFar ==
  /\ db.columns \subseteq Database!Columns
  /\ \A c \in Database!Columns : c[1] <= db.version => c \in db.columns

TablesAreThere ==
  /\ db.transcripts = None \/ db.transcripts \subseteq Database!Entries
  /\ db.links = None \/ db.links \subseteq Links
  /\ db.tags = None \/ db.tags \in [TagNames -> Nat]
  /\ db.fts = None \/ db.fts \in [Database!Entries -> Nat]
  /\ phase \in {"migrate", "open"} =>
       /\ db.tags # None
       /\ (Rebuilding /\ step = 2) \/ db.transcripts # None
       /\ (Rebuilding /\ step = 6) \/ db.links # None
  /\ Rebuilding =>
       /\ step <= 4 => db.renamed # None /\ db.renamed \subseteq Database!Entries
       /\ step \in {6, 7, 8} => db.linksRenamed # None /\ db.linksRenamed \subseteq Links
  /\ db.version >= 12 => db.transcripts # None /\ db.links # None
  /\ db.renamed # None =>
       RowsTorn \/ (CopyTorn /\ db.version \in {11, 12}) \/ (Rebuilding /\ step <= 4)

\* No link to a shipped prompt is older than the prompt.
PromptsSoFar ==
  /\ db.version < 13 =>
       /\ db.transcripts # None => db.transcripts \cap Database!Shipped = {}
       /\ Rebuilding /\ step <= 4 => db.renamed \cap Database!Shipped = {}
       /\ db.links # None => \A l \in db.links : l[1] \notin Database!Shipped
       /\ Rebuilding /\ step \in {6, 7, 8} =>
            \A l \in db.linksRenamed : l[1] \notin Database!Shipped
  /\ db.version >= 13 => "default" \notin db.transcripts
  /\ db.version = 17 /\ phase = "migrate" /\ step > 0 => "legacy" \notin db.transcripts
  /\ db.version = 18 =>
       /\ "legacy" \notin db.transcripts /\ Database!Shipped \subseteq db.transcripts
       /\ Database!Shipped \X {"Prompt"} \subseteq db.links

NotYetCreated ==
  /\ db.transcripts = None /\ ~Rebuilding =>
       /\ phase \in {"off", "create"}
       /\ RowsTorn \/ (/\ db.version = 0 /\ user = {} /\ db.tags = None /\ db.fts = None
                       /\ ~db.legacy)
  /\ db.tags = None => db.version < 3
  /\ db.links = None => db.version < 3 \/ Rebuilding \/ LinksTorn

ForeignKeys ==
  /\ \/ db.linksTo = "transcripts" \/ (Rebuilding /\ step \in 2..6)
     \/ RowsTorn \/ CopyTorn \/ db.links = None
  /\ db.linksRenamed = None \/ (Rebuilding /\ step \in {6, 7, 8}) \/ LeftTorn

TagsSoFar ==
  db.tags # None => \A v \in {5, 7, 9} :
    LET n == db.tags[Database!SystemTag[v]] IN n \in {0, 1} /\ (v <= db.version => n = 1)

\* A table that is copied holds what the one it replaces does; the links are
\* renamed before.
CopiesAgree ==
  /\ Rebuilding /\ step = 4 => db.transcripts = db.renamed
  /\ Rebuilding /\ step = 6 => db.links = None
  /\ Rebuilding /\ step = 8 => db.links = {l \in db.linksRenamed : l[1] \in db.transcripts}

UserKept ==
  /\ RowsTorn \/ user = {} \/ user \cap Rows \subseteq Kept
  /\ user = {} \/ db.legacy \/ user \cap Filed \subseteq db.chosen
  /\ db.version < 3 => user = {} \/ db.legacy
  /\ db.version >= 4 \/ (db.version = 3 /\ phase = "migrate" /\ step > 0) =>
       user \cap Filed \subseteq db.chosen
  /\ db.version >= 3 => LinksTorn \/ (user \cap Filed) \X {"project"} \subseteq KeptLinks

\* The audio tables. One whose foreign key names the renamed table is empty.
VaultSoFar ==
  LET vault == db.vault IN
  /\ vault \in [Database!Vault -> [rows : {None} \cup SUBSET Recordings,
                                  to : {"transcripts", "renamed"},
                                  copy : {None} \cup SUBSET Recordings]]
  /\ user \cap Recordings # {} =>
       /\ db.version >= 14 /\ (phase = "migrate" /\ db.version = 14 => step = 0)
       /\ \A t \in Database!Vault : /\ vault[t].to = "transcripts" /\ vault[t].rows # None
                                    /\ user \cap Recordings \subseteq vault[t].rows
  /\ db.version >= 15 => \A t \in Database!Vault : vault[t].to = "transcripts"
  /\ phase = "migrate" /\ db.version = 14 =>
       /\ step >= 6 => vault["recording_sessions"].to = "transcripts"
       /\ step = 10 => vault["audio_assets"].to = "transcripts"

IndexOf(R) == [e \in Database!Entries |-> IF e \in R THEN 1 ELSE 0]

\* The rebuild leaves the index as it was; version 13 makes a new one.
SearchSoFar ==
  /\ db.version < 2 => db.fts \in {None, Database!NoIndex}
  /\ db.version >= 2 /\ db.version \notin {11, 12} =>
       \/ db.fts = IndexOf(db.transcripts) /\ (db.triggers \/ db.version = 17)
       \/ db.version = 17 /\ db.fts = None
  /\ db.version = 17 /\ "legacy" \in db.transcripts => db.fts # None /\ db.triggers
  /\ db.version \in {12, 17} /\ phase = "migrate" /\ step = 3 => db.fts = None

FileInv ==
  /\ FileShape /\ StepsInPlace /\ Deaths /\ ColumnsSoFar /\ TablesAreThere /\ PromptsSoFar
  /\ NotYetCreated /\ ForeignKeys /\ TagsSoFar /\ CopiesAgree /\ UserKept /\ VaultSoFar
  /\ SearchSoFar

\* What the constants of migrations.py say.
LEMMA ColumnVersions == \A c \in Database!Columns : c[1] \in {5, 6, 8, 9, 10, 11, 16, 17}
BY DEF Database!Columns

LEMMA SystemTagNames ==
  /\ DOMAIN Database!SystemTag = {5, 7, 9}
  /\ Database!SystemTag[5] = "Refined" /\ Database!SystemTag[7] = "Compound"
  /\ Database!SystemTag[9] = "Prompt"
BY DEF Database!SystemTag

\* Inserting rows into an index gives an index.
LEMMA IndexedIsIndex ==
  ASSUME NEW f \in [Database!Entries -> Nat], NEW S
  PROVE  Database!Indexed(f, S) \in [Database!Entries -> Nat]
BY DEF Database!Indexed

\* A step outside of version 15 leaves the audio tables as they are.
LEMMA VaultStays ==
  ASSUME VaultSoFar, StepsInPlace, db'.vault = db.vault, user' = user,
         db'.version \in Nat, db'.version >= db.version, db'.version >= 15 => db.version >= 15,
         phase' = "migrate" /\ db'.version = 14 => step' = 0
  PROVE  VaultSoFar'
BY DEF VaultSoFar, StepsInPlace

\* One lemma for each migration and each durable step of one: what it does to
\* the file, then the parts of the invariant.
LEMMA AddColumnKeeps ==
  ASSUME FileInv, Database!AddColumn
  PROVE  FileInv'
<1>1. FileShape
  BY DEF FileInv
<1>2. PICK c \in Database!Columns : 
         /\ phase = "migrate" /\ step = 0 /\ step' = 0 /\ db.version = c[1] - 1 /\ c[1] = db.version + 1
         /\ UNCHANGED <<phase, torn, user>>
         /\ db' = [db EXCEPT !.columns = db.columns \cup {c}]
  BY ONLY Database!AddColumn DEF Database!AddColumn, Database!Step, Database!Missing
<1>3. FileShape'
  BY ONLY <1>1, <1>2 DEF FileShape
<1>4. db'.columns = db.columns \cup {c}
  BY ONLY <1>1, <1>2 DEF FileShape
<1>5. UNCHANGED <<db.version, db.transcripts, db.renamed, db.unique, db.fts, db.triggers,
        db.tags, db.links, db.linksTo, db.linksRenamed, db.legacy, db.chosen, db.vault>>
  BY ONLY <1>1, <1>2 DEF FileShape
<1>6. StepsInPlace' /\ Deaths' /\ ColumnsSoFar' /\ TablesAreThere' /\ PromptsSoFar'
  BY <1>2, <1>4, <1>5 DEF FileInv, Deaths, Torn, CopyTorn, RowsTorn,
    Database!RowsTorn, Rebuilding, StepsInPlace, ColumnsSoFar, TablesAreThere, PromptsSoFar
<1>7. /\ NotYetCreated' /\ ForeignKeys' /\ TagsSoFar' /\ CopiesAgree'
      /\ UserKept' /\ SearchSoFar'
  BY <1>2, <1>4, <1>5 DEF FileInv, Deaths, Torn, CopyTorn, LeftTorn,
    Database!RowsTorn, Database!LinksTorn, RowsTorn, LinksTorn, NotYetCreated, ForeignKeys,
    TagsSoFar, CopiesAgree,
    UserKept, SearchSoFar, Rebuilding, Kept, KeptLinks
<1>8. VaultSoFar'
  BY <1>2, <1>4, <1>5, VaultStays DEF FileInv, StepsInPlace
<1> QED
  BY <1>3, <1>6, <1>7, <1>8 DEF FileInv

LEMMA BaselineKeeps ==
  ASSUME FileInv, Database!Baseline
  PROVE  FileInv'
<1>1. FileShape
  BY DEF FileInv
<1>2. /\ phase = "migrate" /\ step = 0 /\ step' = 0 /\ db.version = 0
      /\ UNCHANGED <<phase, torn, user>>
      /\ db' = [db EXCEPT !.version = 1]
  BY ONLY Database!Baseline DEF Database!Baseline, Database!Step, Database!LastStep
<1>3. FileShape'
  BY ONLY <1>1, <1>2 DEF FileShape
<1>4. db'.version = 1
  BY ONLY <1>1, <1>2 DEF FileShape
<1>5. UNCHANGED <<db.columns, db.transcripts, db.renamed, db.unique, db.fts, db.triggers,
        db.tags, db.links, db.linksTo, db.linksRenamed, db.legacy, db.chosen, db.vault>>
  BY ONLY <1>1, <1>2 DEF FileShape
<1>6. StepsInPlace' /\ Deaths' /\ ColumnsSoFar' /\ TablesAreThere' /\ PromptsSoFar'
  BY <1>2, <1>4, <1>5, ColumnVersions DEF FileInv, Deaths, Torn, CopyTorn, RowsTorn,
    Database!RowsTorn, Rebuilding, StepsInPlace, ColumnsSoFar, TablesAreThere,
    PromptsSoFar
<1>7. /\ NotYetCreated' /\ ForeignKeys' /\ TagsSoFar' /\ CopiesAgree'
      /\ UserKept' /\ SearchSoFar'
  BY <1>2, <1>4, <1>5 DEF FileInv, Deaths, Torn, CopyTorn, LeftTorn,
    Database!RowsTorn, Database!LinksTorn, RowsTorn, LinksTorn, NotYetCreated, ForeignKeys,
    TagsSoFar, CopiesAgree,
    UserKept, SearchSoFar, Rebuilding, Kept
<1>8. VaultSoFar'
  BY <1>2, <1>4, <1>5, VaultStays DEF FileInv, StepsInPlace
<1> QED
  BY <1>3, <1>6, <1>7, <1>8 DEF FileInv

LEMMA SearchTableKeeps ==
  ASSUME FileInv, Database!SearchTable
  PROVE  FileInv'
<1>1. FileShape
  BY DEF FileInv
<1>2. /\ phase = "migrate" /\ step = 0 /\ step' = 1 /\ db.version = 1
      /\ UNCHANGED <<phase, torn, user>>
      /\ db' = [db EXCEPT !.fts = IF db.fts = None THEN Database!NoIndex ELSE db.fts, !.triggers =
                          TRUE]
  BY ONLY Database!SearchTable DEF Database!SearchTable, Database!Step
<1>3. FileShape'
  BY ONLY <1>1, <1>2 DEF FileShape
<1>4. /\ db'.fts = IF db.fts = None THEN Database!NoIndex ELSE db.fts
      /\ db'.triggers = TRUE
  BY ONLY <1>1, <1>2 DEF FileShape
<1>5. UNCHANGED <<db.version, db.columns, db.transcripts, db.renamed, db.unique, db.tags,
        db.links, db.linksTo, db.linksRenamed, db.legacy, db.chosen, db.vault>>
  BY ONLY <1>1, <1>2 DEF FileShape
<1>6. StepsInPlace' /\ Deaths' /\ ColumnsSoFar' /\ TablesAreThere' /\ PromptsSoFar'
  BY <1>2, <1>4, <1>5 DEF FileInv, Deaths, Torn, CopyTorn, RowsTorn,
    Database!RowsTorn, Rebuilding, StepsInPlace, ColumnsSoFar, TablesAreThere,
    PromptsSoFar, Database!NoIndex
<1>7. /\ NotYetCreated' /\ ForeignKeys' /\ TagsSoFar' /\ CopiesAgree'
      /\ UserKept' /\ SearchSoFar'
  BY <1>2, <1>4, <1>5 DEF FileInv, Deaths, Torn, CopyTorn, LeftTorn,
    Database!RowsTorn, Database!LinksTorn, RowsTorn, LinksTorn, NotYetCreated, ForeignKeys,
    TagsSoFar, CopiesAgree,
    UserKept, SearchSoFar, Rebuilding, Kept
<1>8. VaultSoFar'
  BY <1>2, <1>4, <1>5, VaultStays DEF FileInv, StepsInPlace
<1> QED
  BY <1>3, <1>6, <1>7, <1>8 DEF FileInv

LEMMA SearchRowsKeeps ==
  ASSUME FileInv, Database!SearchRows
  PROVE  FileInv'
<1>1. FileShape
  BY DEF FileInv
<1>2. /\ phase = "migrate" /\ step = 1 /\ step' = 0 /\ db.version = 1
      /\ UNCHANGED <<phase, torn, user>>
      /\ db' = [[db EXCEPT !.fts = Database!Indexed(IF db.fts = None THEN Database!NoIndex ELSE
                           db.fts, db.transcripts), !.triggers = TRUE] EXCEPT !.version = 2]
  BY ONLY Database!SearchRows DEF Database!SearchRows, Database!Step, Database!LastStep,
    Database!AddSearch
<1>3. FileShape'
  BY ONLY <1>1, <1>2 DEF FileShape
<1>4. /\ db'.fts = Database!Indexed(IF db.fts = None THEN Database!NoIndex ELSE db.fts, db.transcripts)
      /\ db'.triggers = TRUE
      /\ db'.version = 2
  BY ONLY <1>1, <1>2 DEF FileShape
<1>5. UNCHANGED <<db.columns, db.transcripts, db.renamed, db.unique, db.tags, db.links,
        db.linksTo, db.linksRenamed, db.legacy, db.chosen, db.vault>>
  BY ONLY <1>1, <1>2 DEF FileShape
<1>6. StepsInPlace' /\ Deaths' /\ ColumnsSoFar' /\ TablesAreThere' /\ PromptsSoFar'
  BY <1>2, <1>4, <1>5, ColumnVersions DEF FileInv, Deaths, Torn, CopyTorn, RowsTorn,
    Database!RowsTorn, Rebuilding, StepsInPlace, ColumnsSoFar, TablesAreThere,
    PromptsSoFar, Database!Indexed, Database!NoIndex
<1>7. /\ NotYetCreated' /\ ForeignKeys' /\ TagsSoFar' /\ CopiesAgree'
      /\ UserKept' /\ SearchSoFar'
  BY <1>2, <1>4, <1>5 DEF FileInv, Deaths, Torn, CopyTorn, LeftTorn,
    Database!RowsTorn, Database!LinksTorn, RowsTorn, LinksTorn, NotYetCreated, ForeignKeys,
    TagsSoFar, CopiesAgree,
    UserKept, SearchSoFar, Rebuilding, Kept, IndexOf, Database!Indexed,
    Database!NoIndex
<1>8. VaultSoFar'
  BY <1>2, <1>4, <1>5, VaultStays DEF FileInv, StepsInPlace
<1> QED
  BY <1>3, <1>6, <1>7, <1>8 DEF FileInv

LEMMA ProjectsToTagsKeeps ==
  ASSUME FileInv, Database!ProjectsToTags
  PROVE  FileInv'
<1>1. FileShape
  BY DEF FileInv
<1>2. /\ phase = "migrate" /\ step = 0 /\ step' = 0 /\ db.version = 2
      /\ UNCHANGED <<phase, torn, user>>
      /\ db' = [(IF db.legacy
                 THEN [db EXCEPT !.tags["project"] = @ + 1,
                                 !.links = @ \cup (Filed \X {"project"})]
                 ELSE db) EXCEPT !.version = 3]
  BY ONLY Database!ProjectsToTags DEF Database!ProjectsToTags, Database!Step,
     Database!LastStep
<1>3. FileShape'
  BY ONLY <1>1, <1>2 DEF FileShape
<1>4. /\ db'.version = 3
      /\ db'.tags = IF db.legacy THEN [db.tags EXCEPT !["project"] = @ + 1] ELSE db.tags
      /\ db'.links = IF db.legacy THEN db.links \cup (Filed \X {"project"}) ELSE db.links
  BY ONLY <1>1, <1>2 DEF FileShape
<1>5. UNCHANGED <<db.columns, db.transcripts, db.renamed, db.unique, db.fts, db.triggers,
        db.linksTo, db.linksRenamed, db.legacy, db.chosen, db.vault>>
  BY ONLY <1>1, <1>2 DEF FileShape
<1>6. /\ StepsInPlace' /\ Deaths' /\ ColumnsSoFar' /\ TablesAreThere' /\ PromptsSoFar'
  <2>1. StepsInPlace' /\ Deaths' /\ ColumnsSoFar'
    BY <1>2, <1>4, <1>5, ColumnVersions DEF FileInv, Deaths, Torn, CopyTorn, RowsTorn,
      Database!RowsTorn, Rebuilding, StepsInPlace, ColumnsSoFar
  <2>2. /\ db'.links # None /\ db'.links \subseteq Links
        /\ db'.tags # None /\ db'.tags \in [TagNames -> Nat]
    BY <1>2, <1>4, TablesAssumption DEF FileInv, Rebuilding, TablesAreThere, Links, TagNames
  <2>3. TablesAreThere'
    BY <1>2, <1>4, <1>5, <2>2 DEF FileInv, CopyTorn, RowsTorn, Database!RowsTorn,
       Rebuilding,
      TablesAreThere
  <2>4. PromptsSoFar'
    BY <1>2, <1>4, <1>5, TablesAssumption DEF FileInv, Rebuilding, TablesAreThere,
       PromptsSoFar,
      Database!Shipped, Database!Prompts
  <2> QED
    BY <2>1, <2>3, <2>4
<1>7. /\ NotYetCreated' /\ ForeignKeys' /\ TagsSoFar' /\ CopiesAgree'
      /\ UserKept' /\ SearchSoFar'
  BY <1>2, <1>4, <1>5, SystemTagNames, TablesAssumption DEF FileInv, Deaths, Torn,
     CopyTorn, LeftTorn,
    Database!RowsTorn, Database!LinksTorn, RowsTorn, LinksTorn, TablesAreThere,
    NotYetCreated, ForeignKeys, TagsSoFar, CopiesAgree, UserKept, SearchSoFar, Rebuilding,
    Rebuilding, Kept, KeptLinks, Links
<1>8. VaultSoFar'
  BY <1>2, <1>4, <1>5, VaultStays DEF FileInv, StepsInPlace
<1> QED
  BY <1>3, <1>6, <1>7, <1>8 DEF FileInv

LEMMA KeepVariantsKeeps ==
  ASSUME FileInv, Database!KeepVariants
  PROVE  FileInv'
<1>1. FileShape
  BY DEF FileInv
<1>2. /\ phase = "migrate" /\ step = 0 /\ step' = 1 /\ db.version = 3
      /\ UNCHANGED <<phase, torn, user>>
      /\ db' = IF db.legacy THEN [db EXCEPT !.chosen = Filed] ELSE db
  BY ONLY Database!KeepVariants DEF Database!KeepVariants, Database!Step
<1>3. FileShape'
  BY ONLY <1>1, <1>2 DEF FileShape
<1>4. db'.chosen = IF db.legacy THEN Filed ELSE db.chosen
  BY ONLY <1>1, <1>2 DEF FileShape
<1>5. UNCHANGED <<db.version, db.columns, db.transcripts, db.renamed, db.unique, db.fts,
        db.triggers, db.tags, db.links, db.linksTo, db.linksRenamed, db.legacy, db.vault>>
  BY ONLY <1>1, <1>2 DEF FileShape
<1>6. StepsInPlace' /\ Deaths' /\ ColumnsSoFar' /\ TablesAreThere' /\ PromptsSoFar'
  BY <1>2, <1>4, <1>5 DEF FileInv, Deaths, Torn, CopyTorn, RowsTorn,
    Database!RowsTorn, Rebuilding, StepsInPlace, ColumnsSoFar, TablesAreThere, PromptsSoFar
<1>7. /\ NotYetCreated' /\ ForeignKeys' /\ TagsSoFar' /\ CopiesAgree'
      /\ UserKept' /\ SearchSoFar'
  BY <1>2, <1>4, <1>5 DEF FileInv, Deaths, Torn, CopyTorn, LeftTorn,
    Database!RowsTorn, Database!LinksTorn, RowsTorn, LinksTorn, NotYetCreated, ForeignKeys,
    TagsSoFar, CopiesAgree,
    UserKept, SearchSoFar, Rebuilding, Kept, KeptLinks
<1>8. VaultSoFar'
  BY <1>2, <1>4, <1>5, VaultStays DEF FileInv, StepsInPlace
<1> QED
  BY <1>3, <1>6, <1>7, <1>8 DEF FileInv

LEMMA DropLegacyKeeps ==
  ASSUME FileInv, Database!DropLegacy
  PROVE  FileInv'
<1>1. FileShape
  BY DEF FileInv
<1>2. /\ phase = "migrate" /\ step = 1 /\ step' = 2 /\ db.version = 3
      /\ UNCHANGED <<phase, torn, user>>
      /\ db' = [db EXCEPT !.legacy = FALSE]
  BY ONLY Database!DropLegacy DEF Database!DropLegacy, Database!Step
<1>3. FileShape'
  BY ONLY <1>1, <1>2 DEF FileShape
<1>4. db'.legacy = FALSE
  BY ONLY <1>1, <1>2 DEF FileShape
<1>5. UNCHANGED <<db.version, db.columns, db.transcripts, db.renamed, db.unique, db.fts,
        db.triggers, db.tags, db.links, db.linksTo, db.linksRenamed, db.chosen,
        db.vault>>
  BY ONLY <1>1, <1>2 DEF FileShape
<1>6. StepsInPlace' /\ Deaths' /\ ColumnsSoFar' /\ TablesAreThere' /\ PromptsSoFar'
  BY <1>2, <1>4, <1>5 DEF FileInv, Deaths, Torn, CopyTorn, RowsTorn,
    Database!RowsTorn, Rebuilding, StepsInPlace, ColumnsSoFar, TablesAreThere, PromptsSoFar
<1>7. /\ NotYetCreated' /\ ForeignKeys' /\ TagsSoFar' /\ CopiesAgree'
      /\ UserKept' /\ SearchSoFar'
  BY <1>2, <1>4, <1>5 DEF FileInv, Deaths, Torn, CopyTorn, LeftTorn,
    Database!RowsTorn, Database!LinksTorn, RowsTorn, LinksTorn, NotYetCreated, ForeignKeys,
    TagsSoFar, CopiesAgree,
    UserKept, SearchSoFar, Rebuilding, Kept, KeptLinks
<1>8. VaultSoFar'
  BY <1>2, <1>4, <1>5, VaultStays DEF FileInv, StepsInPlace
<1> QED
  BY <1>3, <1>6, <1>7, <1>8 DEF FileInv

LEMMA DroppedLegacyKeeps ==
  ASSUME FileInv, Database!DroppedLegacy
  PROVE  FileInv'
<1>1. FileShape
  BY DEF FileInv
<1>2. /\ phase = "migrate" /\ step = 2 /\ step' = 0 /\ db.version = 3
      /\ UNCHANGED <<phase, torn, user>>
      /\ db' = [db EXCEPT !.version = 4]
  BY ONLY Database!DroppedLegacy DEF Database!DroppedLegacy, Database!Step,
     Database!LastStep
<1>3. FileShape'
  BY ONLY <1>1, <1>2 DEF FileShape
<1>4. db'.version = 4
  BY ONLY <1>1, <1>2 DEF FileShape
<1>5. UNCHANGED <<db.columns, db.transcripts, db.renamed, db.unique, db.fts, db.triggers,
        db.tags, db.links, db.linksTo, db.linksRenamed, db.legacy, db.chosen, db.vault>>
  BY ONLY <1>1, <1>2 DEF FileShape
<1>6. StepsInPlace' /\ Deaths' /\ ColumnsSoFar' /\ TablesAreThere' /\ PromptsSoFar'
  BY <1>2, <1>4, <1>5, ColumnVersions DEF FileInv, Deaths, Torn, CopyTorn, RowsTorn,
    Database!RowsTorn, Rebuilding, StepsInPlace, ColumnsSoFar, TablesAreThere,
    PromptsSoFar
<1>7. /\ NotYetCreated' /\ ForeignKeys' /\ TagsSoFar' /\ CopiesAgree'
      /\ UserKept' /\ SearchSoFar'
  BY <1>2, <1>4, <1>5 DEF FileInv, Deaths, Torn, CopyTorn, LeftTorn,
    Database!RowsTorn, Database!LinksTorn, RowsTorn, LinksTorn, NotYetCreated, ForeignKeys,
    TagsSoFar, CopiesAgree,
    UserKept, SearchSoFar, Rebuilding, Kept, KeptLinks
<1>8. VaultSoFar'
  BY <1>2, <1>4, <1>5, VaultStays DEF FileInv, StepsInPlace
<1> QED
  BY <1>3, <1>6, <1>7, <1>8 DEF FileInv

LEMMA SystemTagsKeeps ==
  ASSUME FileInv, Database!SystemTags
  PROVE  FileInv'
<1>1. FileShape
  BY DEF FileInv
<1>2. PICK v \in {5, 7} : 
         /\ phase = "migrate" /\ step = 0 /\ step' = 0 /\ db.version = v - 1 /\ Database!Missing(v) = {}
         /\ UNCHANGED <<phase, torn, user>>
         /\ db' = [[db EXCEPT !.tags = [db.tags EXCEPT ![Database!SystemTag[v]] = IF @ = 0 THEN 1
                              ELSE @]] EXCEPT !.version = v]
  BY ONLY Database!SystemTags DEF Database!SystemTags, Database!Step, Database!LastStep,
    Database!SeedTag, Database!Complete
<1>3. FileShape'
  BY ONLY <1>1, <1>2 DEF FileShape
<1>4. /\ db'.tags = [db.tags EXCEPT ![Database!SystemTag[v]] = IF @ = 0 THEN 1 ELSE @]
      /\ db'.version = v
  BY ONLY <1>1, <1>2 DEF FileShape
<1>5. UNCHANGED <<db.columns, db.transcripts, db.renamed, db.unique, db.fts, db.triggers,
        db.links, db.linksTo, db.linksRenamed, db.legacy, db.chosen, db.vault>>
  BY ONLY <1>1, <1>2 DEF FileShape
<1>6. StepsInPlace' /\ Deaths' /\ ColumnsSoFar' /\ TablesAreThere' /\ PromptsSoFar'
  BY <1>2, <1>4, <1>5, ColumnVersions, SystemTagNames, TablesAssumption DEF FileInv,
     Deaths, Torn, CopyTorn, RowsTorn,
    Database!RowsTorn, Rebuilding, StepsInPlace,
    ColumnsSoFar, TablesAreThere, PromptsSoFar, TagNames,
    Database!Missing
<1>7. /\ NotYetCreated' /\ ForeignKeys' /\ TagsSoFar' /\ CopiesAgree'
      /\ UserKept' /\ SearchSoFar'
  BY <1>2, <1>4, <1>5, SystemTagNames, TablesAssumption DEF FileInv, Deaths, Torn,
     CopyTorn, LeftTorn,
    Database!RowsTorn, Database!LinksTorn, RowsTorn, LinksTorn, TablesAreThere,
    NotYetCreated, ForeignKeys, TagsSoFar, CopiesAgree, UserKept, SearchSoFar, Rebuilding,
    Rebuilding, Kept, KeptLinks, TagNames
<1>8. VaultSoFar'
  BY <1>2, <1>4, <1>5, VaultStays DEF FileInv, StepsInPlace
<1> QED
  BY <1>3, <1>6, <1>7, <1>8 DEF FileInv

LEMMA PromptSystemKeeps ==
  ASSUME FileInv, Database!PromptSystem
  PROVE  FileInv'
<1>1. FileShape
  BY DEF FileInv
<1>2. /\ phase = "migrate" /\ step = 0 /\ step' = 0 /\ db.version = 8
      /\ Database!Missing(9) = {} /\ UNCHANGED <<phase, torn, user>>
      /\ db' = [(IF "default" \in db.transcripts THEN Database!SeedTag(db, 9)
                 ELSE [Database!Insert(Database!SeedTag(db, 9), "default") EXCEPT
                         !.links = @ \cup {<<"default", "Prompt">>}]) EXCEPT !.version = 9]
  BY ONLY Database!PromptSystem DEF Database!PromptSystem, Database!Step, Database!LastStep,
    Database!Complete
<1> DEFINE tags == [db.tags EXCEPT ![Database!SystemTag[9]] = IF @ = 0 THEN 1 ELSE @]
           fts == IF db.triggers THEN Database!Indexed(db.fts, {"default"}) ELSE db.fts
<1>3. Database!SeedTag(db, 9) = [db EXCEPT !.tags = tags]
  BY ONLY <1>1 DEF FileShape, Database!SeedTag
<1> HIDE DEF tags
<1>4. Database!Insert([db EXCEPT !.tags = tags], "default") =
        [db EXCEPT !.tags = tags, !.transcripts = @ \cup {"default"}, !.fts = fts]
  BY ONLY <1>1 DEF FileShape, Database!Insert
<1> HIDE DEF fts
<1>5. db' = IF "default" \in db.transcripts THEN [db EXCEPT !.tags = tags, !.version = 9]
            ELSE [db EXCEPT !.tags = tags, !.transcripts = @ \cup {"default"}, !.fts = fts,
                            !.links = @ \cup {<<"default", "Prompt">>}, !.version = 9]
  <2>1. CASE "default" \in db.transcripts
    BY ONLY <1>1, <1>2, <1>3, <2>1 DEF FileShape
  <2>2. CASE "default" \notin db.transcripts
    <3>1. db' = [[Database!Insert([db EXCEPT !.tags = tags], "default") EXCEPT
                    !.links = @ \cup {<<"default", "Prompt">>}] EXCEPT !.version = 9]
      BY ONLY <1>2, <1>3, <2>2
    <3>2. db' = [[[db EXCEPT !.tags = tags, !.transcripts = @ \cup {"default"}, !.fts = fts] EXCEPT
                    !.links = @ \cup {<<"default", "Prompt">>}] EXCEPT !.version = 9]
      BY ONLY <1>4, <3>1
    <3> QED
      BY ONLY <1>1, <2>2, <3>2 DEF FileShape
  <2> QED
    BY ONLY <2>1, <2>2
<1>6. FileShape'
  BY ONLY <1>1, <1>5 DEF FileShape
<1>7. /\ db'.version = 9 /\ db'.tags = tags
      /\ db'.transcripts = db.transcripts \cup {"default"}
      /\ db'.fts = IF "default" \in db.transcripts THEN db.fts ELSE fts
      /\ db'.links = IF "default" \in db.transcripts THEN db.links
                     ELSE db.links \cup {<<"default", "Prompt">>}
  BY ONLY <1>1, <1>5 DEF FileShape
<1>8. UNCHANGED <<db.columns, db.renamed, db.unique, db.triggers, db.linksTo,
        db.linksRenamed, db.legacy, db.chosen, db.vault>>
  BY ONLY <1>1, <1>5 DEF FileShape
<1> USE DEF tags, fts
<1>9. StepsInPlace' /\ Deaths' /\ ColumnsSoFar' /\ PromptsSoFar'
  <2>1. StepsInPlace' /\ Deaths'
    BY <1>2, <1>7, <1>8 DEF FileInv, StepsInPlace, Deaths, Torn, CopyTorn, RowsTorn,
      Database!RowsTorn, Rebuilding
  <2>2. ColumnsSoFar'
    BY <1>2, <1>7, <1>8, ColumnVersions DEF FileInv, ColumnsSoFar, Database!Missing
  <2>3. PromptsSoFar'
    BY <1>2, <1>7, <1>8 DEF FileInv, TablesAreThere, PromptsSoFar, Rebuilding,
       Database!Shipped
  <2> QED
    BY <2>1, <2>2, <2>3
<1>10. TablesAreThere'
  <2>1. phase = "migrate" /\ db.version = 8 /\ step = 0 => ~Rebuilding /\ ~Rebuilding'
    BY ONLY <1>2, <1>7 DEF Rebuilding
  <2>2. /\ db.transcripts \subseteq Database!Entries /\ db.links \subseteq Links
        /\ db.tags \in [TagNames -> Nat]
        /\ (db.fts = None \/ db.fts \in [Database!Entries -> Nat])
        /\ db.renamed = None
    BY <1>2, <2>1 DEF FileInv, TablesAreThere, Deaths, Torn, RowsTorn, CopyTorn,
      Database!RowsTorn, Rebuilding
  <2>3. db'.transcripts \subseteq Database!Entries /\ db'.links \subseteq Links
    BY <1>7, <2>2 DEF Database!Entries, Database!Prompts, Links
  <2>4. db'.tags \in [TagNames -> Nat]
    <3>1. Database!SystemTag[9] \in TagNames
      BY SystemTagNames DEF TagNames
    <3>2. db.tags \in [TagNames -> Nat]
      BY ONLY <2>2
    <3>3. tags \in [TagNames -> Nat]
      BY ONLY <3>1, <3>2 DEF tags
    <3> QED
      BY ONLY <1>7, <3>3
  <2>5. db'.fts \in [Database!Entries -> Nat]
    <3>1. db.fts \in [Database!Entries -> Nat]
      BY <1>2 DEF FileInv, SearchSoFar, IndexOf
    <3> QED
      BY ONLY <1>7, <3>1, IndexedIsIndex DEF fts
  <2> QED
    BY <1>2, <1>8, <2>1, <2>2, <2>3, <2>4, <2>5, TablesAssumption DEF TablesAreThere
<1>11. NotYetCreated'
  BY <1>2, <1>7, <1>8, TablesAssumption DEF FileInv, TablesAreThere, NotYetCreated,
    Database!Shipped, Database!Prompts, Database!Entries, Links
<1>12. ForeignKeys' /\ TagsSoFar' /\ CopiesAgree' /\ UserKept'
  <2>1. ~Rebuilding /\ ~Rebuilding'
    BY ONLY <1>2, <1>7 DEF Rebuilding
  <2>2. ForeignKeys' /\ CopiesAgree'
    BY <1>2, <1>7, <1>8, <2>1 DEF FileInv, TablesAreThere, ForeignKeys, CopiesAgree,
       CopyTorn,
      LeftTorn, RowsTorn, Database!RowsTorn
  <2>3. TagsSoFar'
    BY <1>2, <1>7, SystemTagNames DEF FileInv, TablesAreThere, TagsSoFar, TagNames
  <2>4. UserKept'
    BY <1>2, <1>7, <1>8, <2>1 DEF FileInv, UserKept, Kept, KeptLinks, RowsTorn, LinksTorn,
      Database!RowsTorn, Database!LinksTorn
  <2> QED
    BY <2>2, <2>3, <2>4
<1>14. VaultSoFar'
  BY <1>2, <1>7, <1>8, VaultStays DEF FileInv, StepsInPlace
<1>13. SearchSoFar'
  BY <1>2, <1>7, <1>8, TablesAssumption DEF FileInv, SearchSoFar, Rebuilding,
    Rebuilding, Kept, IndexOf, Database!Indexed
<1> QED
  BY <1>6, <1>9, <1>10, <1>11, <1>12, <1>13, <1>14 DEF FileInv

LEMMA OnlyColumnsKeeps ==
  ASSUME FileInv, Database!OnlyColumns
  PROVE  FileInv'
<1>1. FileShape
  BY DEF FileInv
<1>2. PICK v \in {6, 8, 10, 11, 14, 16, 17} : 
         /\ phase = "migrate" /\ step = 0 /\ step' = 0 /\ db.version = v - 1 /\ Database!Missing(v) = {}
         /\ UNCHANGED <<phase, torn, user>>
         /\ db' = [db EXCEPT !.version = v]
  BY ONLY Database!OnlyColumns DEF Database!OnlyColumns, Database!Step, Database!LastStep,
    Database!Complete
<1>3. FileShape'
  BY ONLY <1>1, <1>2 DEF FileShape
<1>4. db'.version = v
  BY ONLY <1>1, <1>2 DEF FileShape
<1>5. UNCHANGED <<db.columns, db.transcripts, db.renamed, db.unique, db.fts, db.triggers,
        db.tags, db.links, db.linksTo, db.linksRenamed, db.legacy, db.chosen, db.vault>>
  BY ONLY <1>1, <1>2 DEF FileShape
<1>6. StepsInPlace' /\ Deaths' /\ ColumnsSoFar' /\ TablesAreThere' /\ PromptsSoFar'
  BY <1>2, <1>4, <1>5, ColumnVersions DEF FileInv, Deaths, Torn, CopyTorn, RowsTorn,
    Database!RowsTorn, Rebuilding, StepsInPlace, ColumnsSoFar, TablesAreThere,
    PromptsSoFar, Database!Missing
<1>7. /\ NotYetCreated' /\ ForeignKeys' /\ TagsSoFar' /\ CopiesAgree'
      /\ UserKept' /\ SearchSoFar'
  BY <1>2, <1>4, <1>5, TablesAssumption DEF FileInv, Deaths, Torn, CopyTorn, LeftTorn,
    Database!RowsTorn, Database!LinksTorn, RowsTorn, LinksTorn, NotYetCreated, ForeignKeys,
    TagsSoFar, CopiesAgree, UserKept, SearchSoFar, Rebuilding, Kept, KeptLinks,
    IndexOf, Database!NoIndex
<1>8. VaultSoFar'
  BY <1>2, <1>4, <1>5, VaultStays DEF FileInv, StepsInPlace
<1> QED
  BY <1>3, <1>6, <1>7, <1>8 DEF FileInv

LEMMA AlreadyNotUniqueKeeps ==
  ASSUME FileInv, Database!AlreadyNotUnique
  PROVE  FileInv'
<1>1. FileShape
  BY DEF FileInv
<1>2. /\ phase = "migrate" /\ step = 0 /\ step' = 0 /\ db.version = 11 /\ ~db.unique
      /\ UNCHANGED <<phase, torn, user>>
      /\ db' = [db EXCEPT !.version = 12]
  BY ONLY Database!AlreadyNotUnique DEF Database!AlreadyNotUnique, Database!Step,
     Database!LastStep
<1>3. FileShape'
  BY ONLY <1>1, <1>2 DEF FileShape
<1>4. db'.version = 12
  BY ONLY <1>1, <1>2 DEF FileShape
<1>5. UNCHANGED <<db.columns, db.transcripts, db.renamed, db.unique, db.fts, db.triggers,
        db.tags, db.links, db.linksTo, db.linksRenamed, db.legacy, db.chosen, db.vault>>
  BY ONLY <1>1, <1>2 DEF FileShape
<1>6. StepsInPlace' /\ Deaths' /\ ColumnsSoFar' /\ TablesAreThere' /\ PromptsSoFar'
  BY <1>2, <1>4, <1>5, ColumnVersions DEF FileInv, Deaths, Torn, CopyTorn, RowsTorn,
    Database!RowsTorn, Rebuilding, StepsInPlace, ColumnsSoFar, TablesAreThere,
    PromptsSoFar
<1>7. /\ NotYetCreated' /\ ForeignKeys' /\ TagsSoFar' /\ CopiesAgree'
      /\ UserKept' /\ SearchSoFar'
  BY <1>2, <1>4, <1>5 DEF FileInv, Deaths, Torn, CopyTorn, LeftTorn,
    Database!RowsTorn, Database!LinksTorn, RowsTorn, LinksTorn, NotYetCreated, ForeignKeys,
    TagsSoFar, CopiesAgree,
    UserKept, SearchSoFar, Rebuilding, Kept, KeptLinks
<1>8. VaultSoFar'
  BY <1>2, <1>4, <1>5, VaultStays DEF FileInv, StepsInPlace
<1> QED
  BY <1>3, <1>6, <1>7, <1>8 DEF FileInv

LEMMA DropTriggersKeeps ==
  ASSUME FileInv, Database!DropTriggers
  PROVE  FileInv'
<1>1. FileShape
  BY DEF FileInv
<1>2. /\ phase = "migrate" /\ step = 0 /\ step' = 1 /\ db.version = 11 /\ db.unique
      /\ UNCHANGED <<phase, torn, user>>
      /\ db' = [db EXCEPT !.triggers = FALSE]
  BY ONLY Database!DropTriggers DEF Database!DropTriggers, Database!Step
<1>3. FileShape'
  BY ONLY <1>1, <1>2 DEF FileShape
<1>4. db'.triggers = FALSE
  BY ONLY <1>1, <1>2 DEF FileShape
<1>5. UNCHANGED <<db.version, db.columns, db.transcripts, db.renamed, db.unique, db.fts,
        db.tags, db.links, db.linksTo, db.linksRenamed, db.legacy, db.chosen, db.vault>>
  BY ONLY <1>1, <1>2 DEF FileShape
<1>6. StepsInPlace' /\ Deaths' /\ ColumnsSoFar' /\ TablesAreThere' /\ PromptsSoFar'
  BY <1>2, <1>4, <1>5 DEF FileInv, Deaths, Torn, CopyTorn, RowsTorn,
    Database!RowsTorn, Rebuilding, StepsInPlace, ColumnsSoFar, TablesAreThere, PromptsSoFar
<1>7. /\ NotYetCreated' /\ ForeignKeys' /\ TagsSoFar' /\ CopiesAgree'
      /\ UserKept' /\ SearchSoFar'
  BY <1>2, <1>4, <1>5 DEF FileInv, Deaths, Torn, CopyTorn, LeftTorn,
    Database!RowsTorn, Database!LinksTorn, RowsTorn, LinksTorn, NotYetCreated, ForeignKeys,
    TagsSoFar, CopiesAgree,
    UserKept, SearchSoFar, Rebuilding, Kept, KeptLinks
<1>8. VaultSoFar'
  BY <1>2, <1>4, <1>5, VaultStays DEF FileInv, StepsInPlace
<1> QED
  BY <1>3, <1>6, <1>7, <1>8 DEF FileInv

LEMMA RenameTableKeeps ==
  ASSUME FileInv, Database!RenameTable
  PROVE  FileInv'
<1>1. FileShape
  BY DEF FileInv
<1>2. /\ phase = "migrate" /\ step = 1 /\ step' = 2 /\ db.version = 11
      /\ UNCHANGED <<phase, torn, user>>
      /\ db' = [db EXCEPT !.renamed = db.transcripts, !.transcripts = None, !.linksTo = "renamed",
                          !.vault = [t \in Database!Vault |->
                                       [db.vault[t] EXCEPT !.to = "renamed"]]]
  BY ONLY <1>1, Database!RenameTable DEF FileShape, Database!RenameTable, Database!Step
<1>3. FileShape'
  BY ONLY <1>1, <1>2 DEF FileShape
<1>4. /\ db'.renamed = db.transcripts
      /\ db'.transcripts = None
      /\ db'.linksTo = "renamed"
      /\ db'.vault = [t \in Database!Vault |-> [db.vault[t] EXCEPT !.to = "renamed"]]
  BY ONLY <1>1, <1>2 DEF FileShape
<1>5. UNCHANGED <<db.version, db.columns, db.unique, db.fts, db.triggers, db.tags, db.links,
        db.linksRenamed, db.legacy, db.chosen>>
  BY ONLY <1>1, <1>2 DEF FileShape
<1>6. StepsInPlace' /\ Deaths' /\ ColumnsSoFar' /\ TablesAreThere' /\ PromptsSoFar'
  BY <1>2, <1>4, <1>5 DEF FileInv, Deaths, Torn, CopyTorn, RowsTorn,
    Database!RowsTorn, Rebuilding, StepsInPlace, ColumnsSoFar, TablesAreThere, PromptsSoFar
<1>7. /\ NotYetCreated' /\ ForeignKeys' /\ TagsSoFar' /\ CopiesAgree'
      /\ UserKept' /\ SearchSoFar'
  BY <1>2, <1>4, <1>5 DEF FileInv, Deaths, Torn, CopyTorn, LeftTorn,
    Database!RowsTorn, Database!LinksTorn, RowsTorn, LinksTorn, NotYetCreated, ForeignKeys,
    TagsSoFar, CopiesAgree,
    UserKept, SearchSoFar, Rebuilding, Kept, KeptLinks
<1>8. VaultSoFar'
  <2>1. user \cap Recordings = {}
    BY <1>2 DEF FileInv, VaultSoFar
  <2> QED
    BY <1>2, <1>4, <1>5, <2>1 DEF FileInv, VaultSoFar
<1> QED
  BY <1>3, <1>6, <1>7, <1>8 DEF FileInv

LEMMA CreateTableKeeps ==
  ASSUME FileInv, Database!CreateTable
  PROVE  FileInv'
<1>1. FileShape
  BY DEF FileInv
<1>2. /\ phase = "migrate" /\ step = 2 /\ step' = 3 /\ db.version = 11
      /\ UNCHANGED <<phase, torn, user>>
      /\ db' = [db EXCEPT !.transcripts = {}, !.unique = FALSE, !.columns = {c \in db.columns :
                          c[1] <= 11}]
  BY ONLY Database!CreateTable DEF Database!CreateTable, Database!Step
<1>3. FileShape'
  BY ONLY <1>1, <1>2 DEF FileShape
<1>4. /\ db'.transcripts = {}
      /\ db'.unique = FALSE
      /\ db'.columns = {c \in db.columns : c[1] <= 11}
  BY ONLY <1>1, <1>2 DEF FileShape
<1>5. UNCHANGED <<db.version, db.renamed, db.fts, db.triggers, db.tags, db.links, db.linksTo,
        db.linksRenamed, db.legacy, db.chosen, db.vault>>
  BY ONLY <1>1, <1>2 DEF FileShape
<1>6. StepsInPlace' /\ Deaths' /\ ColumnsSoFar' /\ TablesAreThere' /\ PromptsSoFar'
  BY <1>2, <1>4, <1>5, TablesAssumption DEF FileInv, Deaths, Torn, CopyTorn, RowsTorn,
    Database!RowsTorn, Rebuilding, StepsInPlace, ColumnsSoFar, TablesAreThere,
    PromptsSoFar
<1>7. /\ NotYetCreated' /\ ForeignKeys' /\ TagsSoFar' /\ CopiesAgree'
      /\ UserKept' /\ SearchSoFar'
  BY <1>2, <1>4, <1>5 DEF FileInv, Deaths, Torn, CopyTorn, LeftTorn,
    Database!RowsTorn, Database!LinksTorn, RowsTorn, LinksTorn, NotYetCreated, ForeignKeys,
    TagsSoFar, CopiesAgree,
    UserKept, SearchSoFar, Rebuilding, Kept, KeptLinks
<1>8. VaultSoFar'
  BY <1>2, <1>4, <1>5, VaultStays DEF FileInv, StepsInPlace
<1> QED
  BY <1>3, <1>6, <1>7, <1>8 DEF FileInv

LEMMA CopyRowsKeeps ==
  ASSUME FileInv, Database!CopyRows
  PROVE  FileInv'
<1>1. FileShape
  BY DEF FileInv
<1>2. /\ phase = "migrate" /\ step = 3 /\ step' = 4 /\ db.version = 11
      /\ UNCHANGED <<phase, torn, user>>
      /\ db' = [db EXCEPT !.transcripts = db.renamed]
  BY ONLY Database!CopyRows DEF Database!CopyRows, Database!Step
<1>3. FileShape'
  BY ONLY <1>1, <1>2 DEF FileShape
<1>4. db'.transcripts = db.renamed
  BY ONLY <1>1, <1>2 DEF FileShape
<1>5. UNCHANGED <<db.version, db.columns, db.renamed, db.unique, db.fts, db.triggers, db.tags,
        db.links, db.linksTo, db.linksRenamed, db.legacy, db.chosen, db.vault>>
  BY ONLY <1>1, <1>2 DEF FileShape
<1>6. StepsInPlace' /\ Deaths' /\ ColumnsSoFar' /\ TablesAreThere' /\ PromptsSoFar'
  BY <1>2, <1>4, <1>5 DEF FileInv, Deaths, Torn, CopyTorn, RowsTorn,
    Database!RowsTorn, Rebuilding, StepsInPlace, ColumnsSoFar, TablesAreThere, PromptsSoFar
<1>7. /\ NotYetCreated' /\ ForeignKeys' /\ TagsSoFar' /\ CopiesAgree'
      /\ UserKept' /\ SearchSoFar'
  BY <1>2, <1>4, <1>5 DEF FileInv, Deaths, Torn, CopyTorn, LeftTorn,
    Database!RowsTorn, Database!LinksTorn, RowsTorn, LinksTorn, NotYetCreated, ForeignKeys,
    TagsSoFar, CopiesAgree,
    UserKept, SearchSoFar, Rebuilding, Kept, KeptLinks
<1>8. VaultSoFar'
  BY <1>2, <1>4, <1>5, VaultStays DEF FileInv, StepsInPlace
<1> QED
  BY <1>3, <1>6, <1>7, <1>8 DEF FileInv

LEMMA DropRenamedKeeps ==
  ASSUME FileInv, Database!DropRenamed
  PROVE  FileInv'
<1>1. FileShape
  BY DEF FileInv
<1>2. /\ phase = "migrate" /\ step = 4 /\ step' = 5 /\ db.version = 11
      /\ UNCHANGED <<phase, torn, user>>
      /\ db' = [db EXCEPT !.renamed = None]
  BY ONLY Database!DropRenamed DEF Database!DropRenamed, Database!Step
<1>3. FileShape'
  BY ONLY <1>1, <1>2 DEF FileShape
<1>4. db'.renamed = None
  BY ONLY <1>1, <1>2 DEF FileShape
<1>5. UNCHANGED <<db.version, db.columns, db.transcripts, db.unique, db.fts, db.triggers,
        db.tags, db.links, db.linksTo, db.linksRenamed, db.legacy, db.chosen, db.vault>>
  BY ONLY <1>1, <1>2 DEF FileShape
<1>6. StepsInPlace' /\ Deaths' /\ ColumnsSoFar' /\ TablesAreThere' /\ PromptsSoFar'
  BY <1>2, <1>4, <1>5 DEF FileInv, Deaths, Torn, CopyTorn, RowsTorn,
    Database!RowsTorn, Rebuilding, StepsInPlace, ColumnsSoFar, TablesAreThere, PromptsSoFar
<1>7. /\ NotYetCreated' /\ ForeignKeys' /\ TagsSoFar' /\ CopiesAgree'
      /\ UserKept' /\ SearchSoFar'
  BY <1>2, <1>4, <1>5 DEF FileInv, Deaths, Torn, CopyTorn, LeftTorn,
    Database!RowsTorn, Database!LinksTorn, RowsTorn, LinksTorn, NotYetCreated, ForeignKeys,
    TagsSoFar, CopiesAgree,
    UserKept, SearchSoFar, Rebuilding, Kept, KeptLinks
<1>8. VaultSoFar'
  BY <1>2, <1>4, <1>5, VaultStays DEF FileInv, StepsInPlace
<1> QED
  BY <1>3, <1>6, <1>7, <1>8 DEF FileInv

LEMMA RenameLinksKeeps ==
  ASSUME FileInv, Database!RenameLinks
  PROVE  FileInv'
<1>1. FileShape
  BY DEF FileInv
<1>2. /\ phase = "migrate" /\ step = 5 /\ step' = 6 /\ db.version = 11
      /\ UNCHANGED <<phase, torn, user>>
      /\ db' = [db EXCEPT !.linksRenamed = db.links, !.links = None]
  BY ONLY Database!RenameLinks DEF Database!RenameLinks, Database!Step
<1>3. FileShape'
  BY ONLY <1>1, <1>2 DEF FileShape
<1>4. /\ db'.linksRenamed = db.links
      /\ db'.links = None
  BY ONLY <1>1, <1>2 DEF FileShape
<1>5. UNCHANGED <<db.version, db.columns, db.transcripts, db.renamed, db.unique, db.fts,
        db.triggers, db.tags, db.linksTo, db.legacy, db.chosen, db.vault>>
  BY ONLY <1>1, <1>2 DEF FileShape
<1>6. StepsInPlace' /\ Deaths' /\ ColumnsSoFar' /\ TablesAreThere' /\ PromptsSoFar'
  BY <1>2, <1>4, <1>5 DEF FileInv, Deaths, Torn, CopyTorn, RowsTorn,
    Database!RowsTorn, Rebuilding, StepsInPlace, ColumnsSoFar, TablesAreThere, PromptsSoFar
<1>7. /\ NotYetCreated' /\ ForeignKeys' /\ TagsSoFar' /\ CopiesAgree'
      /\ UserKept' /\ SearchSoFar'
  BY <1>2, <1>4, <1>5 DEF FileInv, Deaths, Torn, CopyTorn, LeftTorn,
    Database!RowsTorn, Database!LinksTorn, RowsTorn, LinksTorn, NotYetCreated, ForeignKeys,
    TagsSoFar, CopiesAgree,
    UserKept, SearchSoFar, Rebuilding, Kept, KeptLinks
<1>8. VaultSoFar'
  BY <1>2, <1>4, <1>5, VaultStays DEF FileInv, StepsInPlace
<1> QED
  BY <1>3, <1>6, <1>7, <1>8 DEF FileInv

LEMMA CreateLinksKeeps ==
  ASSUME FileInv, Database!CreateLinks
  PROVE  FileInv'
<1>1. FileShape
  BY DEF FileInv
<1>2. /\ phase = "migrate" /\ step = 6 /\ step' = 7 /\ db.version = 11
      /\ UNCHANGED <<phase, torn, user>>
      /\ db' = [db EXCEPT !.links = {}, !.linksTo = "transcripts"]
  BY ONLY Database!CreateLinks DEF Database!CreateLinks, Database!Step
<1>3. FileShape'
  BY ONLY <1>1, <1>2 DEF FileShape
<1>4. /\ db'.links = {}
      /\ db'.linksTo = "transcripts"
  BY ONLY <1>1, <1>2 DEF FileShape
<1>5. UNCHANGED <<db.version, db.columns, db.transcripts, db.renamed, db.unique, db.fts,
        db.triggers, db.tags, db.linksRenamed, db.legacy, db.chosen, db.vault>>
  BY ONLY <1>1, <1>2 DEF FileShape
<1>6. StepsInPlace' /\ Deaths' /\ ColumnsSoFar' /\ TablesAreThere' /\ PromptsSoFar'
  BY <1>2, <1>4, <1>5, TablesAssumption DEF FileInv, Deaths, Torn, CopyTorn, RowsTorn,
    Database!RowsTorn, Rebuilding, StepsInPlace, ColumnsSoFar, TablesAreThere,
    PromptsSoFar
<1>7. /\ NotYetCreated' /\ ForeignKeys' /\ TagsSoFar' /\ CopiesAgree'
      /\ UserKept' /\ SearchSoFar'
  BY <1>2, <1>4, <1>5 DEF FileInv, Deaths, Torn, CopyTorn, LeftTorn,
    Database!RowsTorn, Database!LinksTorn, RowsTorn, LinksTorn, NotYetCreated, ForeignKeys,
    TagsSoFar, CopiesAgree,
    UserKept, SearchSoFar, Rebuilding, Kept, KeptLinks
<1>8. VaultSoFar'
  BY <1>2, <1>4, <1>5, VaultStays DEF FileInv, StepsInPlace
<1> QED
  BY <1>3, <1>6, <1>7, <1>8 DEF FileInv

LEMMA CopyLinksKeeps ==
  ASSUME FileInv, Database!CopyLinks
  PROVE  FileInv'
<1>1. FileShape
  BY DEF FileInv
<1>2. /\ phase = "migrate" /\ step = 7 /\ step' = 8 /\ db.version = 11
      /\ UNCHANGED <<phase, torn, user>>
      /\ db' = [db EXCEPT !.links = {l \in db.linksRenamed : l[1] \in db.transcripts}]
  BY ONLY Database!CopyLinks DEF Database!CopyLinks, Database!Step
<1>3. FileShape'
  BY ONLY <1>1, <1>2 DEF FileShape
<1>4. db'.links = {l \in db.linksRenamed : l[1] \in db.transcripts}
  BY ONLY <1>1, <1>2 DEF FileShape
<1>5. UNCHANGED <<db.version, db.columns, db.transcripts, db.renamed, db.unique, db.fts,
        db.triggers, db.tags, db.linksTo, db.linksRenamed, db.legacy, db.chosen,
        db.vault>>
  BY ONLY <1>1, <1>2 DEF FileShape
<1>6. StepsInPlace' /\ Deaths' /\ ColumnsSoFar' /\ TablesAreThere' /\ PromptsSoFar'
  BY <1>2, <1>4, <1>5, TablesAssumption DEF FileInv, Deaths, Torn, CopyTorn, RowsTorn,
    Database!RowsTorn, Rebuilding, StepsInPlace, ColumnsSoFar, TablesAreThere,
    PromptsSoFar
<1>7. /\ NotYetCreated' /\ ForeignKeys' /\ TagsSoFar' /\ CopiesAgree'
      /\ UserKept' /\ SearchSoFar'
  <2>1. NotYetCreated' /\ ForeignKeys' /\ TagsSoFar' /\ CopiesAgree' /\ SearchSoFar'
    BY <1>2, <1>4, <1>5 DEF FileInv, TablesAreThere, Deaths, Torn, CopyTorn, LeftTorn,
      Database!RowsTorn, Database!LinksTorn, RowsTorn, LinksTorn, NotYetCreated,
      ForeignKeys,
      TagsSoFar, CopiesAgree, SearchSoFar, Rebuilding
  <2>2. db'.version = 11 /\ Rebuilding /\ Rebuilding' /\ LinksTorn' = LinksTorn
    BY <1>2, <1>5 DEF Rebuilding, LinksTorn, Database!LinksTorn
  <2>3. Kept = db.transcripts /\ Kept' = Kept /\ KeptLinks = db.linksRenamed
        /\ KeptLinks' = {l \in db.linksRenamed : l[1] \in db.transcripts}
    BY <1>2, <1>4, <1>5, <2>2 DEF Kept, KeptLinks
  <2>4. UserKept'
    BY <1>2, <1>5, <2>2, <2>3, TablesAssumption DEF FileInv, UserKept, Deaths, Torn,
       RowsTorn,
      Database!RowsTorn
  <2> QED
    BY <2>1, <2>4
<1>8. VaultSoFar'
  BY <1>2, <1>4, <1>5, VaultStays DEF FileInv, StepsInPlace
<1> QED
  BY <1>3, <1>6, <1>7, <1>8 DEF FileInv

LEMMA DropLinksKeeps ==
  ASSUME FileInv, Database!DropLinks
  PROVE  FileInv'
<1>1. FileShape
  BY DEF FileInv
<1>2. /\ phase = "migrate" /\ step = 8 /\ step' = 9 /\ db.version = 11
      /\ UNCHANGED <<phase, torn, user>>
      /\ db' = [db EXCEPT !.linksRenamed = None]
  BY ONLY Database!DropLinks DEF Database!DropLinks, Database!Step
<1>3. FileShape'
  BY ONLY <1>1, <1>2 DEF FileShape
<1>4. db'.linksRenamed = None
  BY ONLY <1>1, <1>2 DEF FileShape
<1>5. UNCHANGED <<db.version, db.columns, db.transcripts, db.renamed, db.unique, db.fts,
        db.triggers, db.tags, db.links, db.linksTo, db.legacy, db.chosen, db.vault>>
  BY ONLY <1>1, <1>2 DEF FileShape
<1>6. StepsInPlace' /\ Deaths' /\ ColumnsSoFar' /\ TablesAreThere' /\ PromptsSoFar'
  BY <1>2, <1>4, <1>5 DEF FileInv, Deaths, Torn, CopyTorn, RowsTorn,
    Database!RowsTorn, Rebuilding, StepsInPlace, ColumnsSoFar, TablesAreThere, PromptsSoFar
<1>7. /\ NotYetCreated' /\ ForeignKeys' /\ TagsSoFar' /\ CopiesAgree'
      /\ UserKept' /\ SearchSoFar'
  BY <1>2, <1>4, <1>5 DEF FileInv, Deaths, Torn, CopyTorn, LeftTorn,
    Database!RowsTorn, Database!LinksTorn, RowsTorn, LinksTorn, NotYetCreated, ForeignKeys,
    TagsSoFar, CopiesAgree,
    UserKept, SearchSoFar, Rebuilding, Kept, KeptLinks
<1>8. VaultSoFar'
  BY <1>2, <1>4, <1>5, VaultStays DEF FileInv, StepsInPlace
<1> QED
  BY <1>3, <1>6, <1>7, <1>8 DEF FileInv

LEMMA RebuiltKeeps ==
  ASSUME FileInv, Database!Rebuilt
  PROVE  FileInv'
<1>1. FileShape
  BY DEF FileInv
<1>2. /\ phase = "migrate" /\ step = 9 /\ step' = 0 /\ db.version = 11
      /\ UNCHANGED <<phase, torn, user>>
      /\ db' = [[db EXCEPT !.triggers = TRUE] EXCEPT !.version = 12]
  BY ONLY Database!Rebuilt DEF Database!Rebuilt, Database!Step, Database!LastStep
<1>3. FileShape'
  BY ONLY <1>1, <1>2 DEF FileShape
<1>4. /\ db'.triggers = TRUE
      /\ db'.version = 12
  BY ONLY <1>1, <1>2 DEF FileShape
<1>5. UNCHANGED <<db.columns, db.transcripts, db.renamed, db.unique, db.fts, db.tags, db.links,
        db.linksTo, db.linksRenamed, db.legacy, db.chosen, db.vault>>
  BY ONLY <1>1, <1>2 DEF FileShape
<1>6. StepsInPlace' /\ Deaths' /\ ColumnsSoFar' /\ TablesAreThere' /\ PromptsSoFar'
  BY <1>2, <1>4, <1>5, ColumnVersions DEF FileInv, Deaths, Torn, CopyTorn, RowsTorn,
    Database!RowsTorn, Rebuilding, StepsInPlace, ColumnsSoFar, TablesAreThere,
    PromptsSoFar
<1>7. /\ NotYetCreated' /\ ForeignKeys' /\ TagsSoFar' /\ CopiesAgree'
      /\ UserKept' /\ SearchSoFar'
  BY <1>2, <1>4, <1>5 DEF FileInv, Deaths, Torn, CopyTorn, LeftTorn,
    Database!RowsTorn, Database!LinksTorn, RowsTorn, LinksTorn, TablesAreThere,
    NotYetCreated, ForeignKeys, TagsSoFar,
    CopiesAgree, UserKept, SearchSoFar, Rebuilding, Kept, KeptLinks
<1>8. VaultSoFar'
  BY <1>2, <1>4, <1>5, VaultStays DEF FileInv, StepsInPlace
<1> QED
  BY <1>3, <1>6, <1>7, <1>8 DEF FileInv

LEMMA LegacyDeletedKeeps ==
  ASSUME FileInv, Database!LegacyDeleted
  PROVE  FileInv'
<1>1. FileShape
  BY DEF FileInv
<1> DEFINE fts == IF db.triggers /\ "legacy" \in db.transcripts
                  THEN [db.fts EXCEPT !["legacy"] = 0] ELSE db.fts
<1>2. /\ phase = "migrate" /\ step = 0 /\ step' = 1 /\ db.version = 17
      /\ UNCHANGED <<phase, torn, user>>
      /\ db' = [db EXCEPT !.transcripts = db.transcripts \ {"legacy"},
                          !.links = {l \in db.links : l[1] # "legacy"}, !.fts = fts]
  BY ONLY <1>1, Database!LegacyDeleted DEF FileShape, Database!LegacyDeleted, Database!Step
<1> HIDE DEF fts
<1>3. FileShape'
  BY ONLY <1>1, <1>2 DEF FileShape
<1>4. /\ db'.transcripts = db.transcripts \ {"legacy"}
      /\ db'.fts = fts
      /\ db'.links = {l \in db.links : l[1] # "legacy"}
  BY ONLY <1>1, <1>2 DEF FileShape
<1>5. UNCHANGED <<db.version, db.columns, db.renamed, db.unique, db.triggers, db.tags,
        db.linksTo, db.linksRenamed, db.legacy, db.chosen, db.vault>>
  BY ONLY <1>1, <1>2 DEF FileShape
<1>9. /\ db.transcripts # None /\ db.links # None
      /\ db.fts = IndexOf(db.transcripts) \/ (db.fts = None /\ "legacy" \notin db.transcripts)
  BY <1>2 DEF FileInv, TablesAreThere, SearchSoFar
<1>10. fts = IndexOf(db.transcripts \ {"legacy"}) \/ fts = None
  <2>1. CASE "legacy" \in db.transcripts
    BY <1>2, <1>9, <2>1, TablesAssumption DEF fts, IndexOf, FileInv, SearchSoFar,
      Database!Entries, Database!Prompts
  <2>2. CASE "legacy" \notin db.transcripts
    BY ONLY <1>9, <2>2 DEF fts, IndexOf
  <2> QED
    BY ONLY <2>1, <2>2
<1>6. StepsInPlace' /\ Deaths' /\ ColumnsSoFar' /\ TablesAreThere' /\ PromptsSoFar'
  BY <1>2, <1>4, <1>5, <1>10, TablesAssumption DEF FileInv, Deaths, Torn, CopyTorn,
     RowsTorn,
    Database!RowsTorn, Rebuilding, StepsInPlace, ColumnsSoFar, TablesAreThere,
    PromptsSoFar, IndexOf
<1>7. /\ NotYetCreated' /\ ForeignKeys' /\ TagsSoFar' /\ CopiesAgree'
      /\ UserKept'
  BY <1>2, <1>4, <1>5, TablesAssumption DEF FileInv, StepsInPlace, TablesAreThere,
    NotYetCreated, ForeignKeys, TagsSoFar, CopiesAgree, UserKept, Deaths, Torn, CopyTorn,
    LeftTorn,
    Database!RowsTorn, Database!LinksTorn, RowsTorn, LinksTorn, Rebuilding, Kept, KeptLinks,
    Database!Prompts
<1>8. VaultSoFar'
  BY <1>2, <1>4, <1>5, VaultStays DEF FileInv, StepsInPlace
<1>11. SearchSoFar'
  BY <1>2, <1>4, <1>5, <1>10 DEF SearchSoFar
<1> QED
  BY <1>3, <1>6, <1>7, <1>8, <1>11 DEF FileInv

LEMMA SearchTriggersDroppedKeeps ==
  ASSUME FileInv, Database!SearchTriggersDropped
  PROVE  FileInv'
<1>1. FileShape
  BY DEF FileInv
<1>2. /\ phase = "migrate" /\ step' = 2
      /\ (step = 0 /\ db.version = 12) \/ (step = 1 /\ db.version = 17)
      /\ UNCHANGED <<phase, torn, user>>
      /\ db' = [db EXCEPT !.triggers = FALSE]
  BY ONLY Database!SearchTriggersDropped DEF Database!SearchTriggersDropped, Database!Step
<1>3. FileShape'
  BY ONLY <1>1, <1>2 DEF FileShape
<1>4. db'.triggers = FALSE
  BY ONLY <1>1, <1>2 DEF FileShape
<1>5. UNCHANGED <<db.version, db.columns, db.transcripts, db.renamed, db.unique, db.fts,
        db.tags, db.links, db.linksTo, db.linksRenamed, db.legacy, db.chosen, db.vault>>
  BY ONLY <1>1, <1>2 DEF FileShape
<1>6. StepsInPlace' /\ Deaths' /\ ColumnsSoFar' /\ TablesAreThere' /\ PromptsSoFar'
  BY <1>2, <1>4, <1>5 DEF FileInv, Deaths, Torn, CopyTorn, RowsTorn,
    Database!RowsTorn, Rebuilding, StepsInPlace, ColumnsSoFar, TablesAreThere,
    PromptsSoFar
<1>7. /\ NotYetCreated' /\ ForeignKeys' /\ TagsSoFar' /\ CopiesAgree'
      /\ UserKept' /\ SearchSoFar'
  BY <1>2, <1>4, <1>5 DEF FileInv, PromptsSoFar, NotYetCreated, ForeignKeys, TagsSoFar,
    CopiesAgree, UserKept, SearchSoFar, Deaths, Torn, CopyTorn, LeftTorn,
    Database!RowsTorn, Database!LinksTorn, RowsTorn, LinksTorn, Rebuilding, Kept, KeptLinks
<1>8. VaultSoFar'
  BY <1>2, <1>4, <1>5, VaultStays DEF FileInv, StepsInPlace
<1> QED
  BY <1>3, <1>6, <1>7, <1>8 DEF FileInv

LEMMA SearchDroppedKeeps ==
  ASSUME FileInv, Database!SearchDropped
  PROVE  FileInv'
<1>1. FileShape
  BY DEF FileInv
<1>2. /\ phase = "migrate" /\ step = 2 /\ step' = 3 /\ db.version \in {12, 17}
      /\ UNCHANGED <<phase, torn, user>>
      /\ db' = [db EXCEPT !.fts = None]
  BY ONLY Database!SearchDropped DEF Database!SearchDropped, Database!Step
<1>3. FileShape'
  BY ONLY <1>1, <1>2 DEF FileShape
<1>4. db'.fts = None
  BY ONLY <1>1, <1>2 DEF FileShape
<1>5. UNCHANGED <<db.version, db.columns, db.transcripts, db.renamed, db.unique, db.triggers,
        db.tags, db.links, db.linksTo, db.linksRenamed, db.legacy, db.chosen, db.vault>>
  BY ONLY <1>1, <1>2 DEF FileShape
<1>6. StepsInPlace' /\ Deaths' /\ ColumnsSoFar' /\ TablesAreThere' /\ PromptsSoFar'
  BY <1>2, <1>4, <1>5 DEF FileInv, Deaths, Torn, CopyTorn, RowsTorn,
    Database!RowsTorn, Rebuilding, StepsInPlace, ColumnsSoFar, TablesAreThere,
    PromptsSoFar
<1>7. /\ NotYetCreated' /\ ForeignKeys' /\ TagsSoFar' /\ CopiesAgree'
      /\ UserKept' /\ SearchSoFar'
  BY <1>2, <1>4, <1>5 DEF FileInv, TablesAreThere, PromptsSoFar, NotYetCreated, ForeignKeys,
    TagsSoFar, CopiesAgree, UserKept, SearchSoFar, Deaths, Torn, CopyTorn, LeftTorn,
    Database!RowsTorn, Database!LinksTorn, RowsTorn, LinksTorn, Rebuilding, Kept, KeptLinks
<1>8. VaultSoFar'
  BY <1>2, <1>4, <1>5, VaultStays DEF FileInv, StepsInPlace
<1> QED
  BY <1>3, <1>6, <1>7, <1>8 DEF FileInv

LEMMA PromptsSeededKeeps ==
  ASSUME FileInv, Database!PromptsSeeded
  PROVE  FileInv'
<1>1. FileShape
  BY DEF FileInv
<1>2. PICK v \in {13, 18} :
         /\ phase = "migrate" /\ step = 3 /\ step' = 0 /\ db.version = v - 1
         /\ Database!LinksWork \/ Database!IdsMayMeet
         /\ UNCHANGED <<phase, torn, user>>
         /\ db' = [Database!SeedPrompts(db) EXCEPT !.version = v]
  BY ONLY Database!PromptsSeeded DEF Database!PromptsSeeded, Database!Step,
     Database!LastStep
<1> DEFINE tags == [db.tags EXCEPT ![Database!SystemTag[9]] = IF @ = 0 THEN 1 ELSE @]
           links == {l \in db.links : l[1] # "default" \/ "fast" \in db.transcripts}
                      \cup (Database!Shipped \X {"Prompt"})
           fts == Database!Indexed(IF db.fts = None THEN Database!NoIndex ELSE db.fts,
                                   Database!Seeded(db.transcripts))
<1>3. Database!SeedPrompts(db) =
        Database!AddSearch(Database!SeedTag([db EXCEPT !.transcripts = Database!Seeded(@),
                                                       !.links = links], 9))
  BY ONLY <1>1 DEF FileShape, Database!SeedPrompts
<1> HIDE DEF links
<1>4. Database!SeedTag([db EXCEPT !.transcripts = Database!Seeded(@), !.links = links], 9) =
        [db EXCEPT !.transcripts = Database!Seeded(@), !.links = links, !.tags = tags]
  BY ONLY <1>1 DEF FileShape, Database!SeedTag
<1> HIDE DEF tags
<1>5. Database!AddSearch([db EXCEPT !.transcripts = Database!Seeded(@), !.links = links,
                                    !.tags = tags]) =
        [db EXCEPT !.transcripts = Database!Seeded(@), !.links = links, !.tags = tags,
                   !.fts = fts, !.triggers = TRUE]
  BY ONLY <1>1 DEF FileShape, Database!AddSearch
<1> HIDE DEF fts
<1>6. db' = [db EXCEPT !.transcripts = Database!Seeded(@), !.links = links, !.tags = tags,
                       !.fts = fts, !.triggers = TRUE, !.version = v]
  BY ONLY <1>1, <1>2, <1>3, <1>4, <1>5 DEF FileShape
<1>7. FileShape'
  BY ONLY <1>1, <1>6 DEF FileShape
<1>8. /\ db'.version = v /\ db'.tags = tags /\ db'.links = links /\ db'.fts = fts
      /\ db'.triggers = TRUE /\ db'.transcripts = Database!Seeded(db.transcripts)
  BY ONLY <1>1, <1>6 DEF FileShape
<1>9. UNCHANGED <<db.columns, db.renamed, db.unique, db.linksTo, db.linksRenamed,
        db.legacy, db.chosen, db.vault>>
  BY ONLY <1>1, <1>6 DEF FileShape
<1> USE DEF tags, fts, links
<1>15. ~Rebuilding /\ ~Rebuilding' /\ (CopyTorn => RowsTorn)
  <2>1. ~Rebuilding /\ ~Rebuilding'
    BY ONLY <1>2, <1>8 DEF Rebuilding
  <2>2. CASE CopyTorn /\ ~RowsTorn
    <3>1. /\ db.version = 12 /\ db.linksTo = "renamed" /\ db.links # None
          /\ db.renamed = None \/ db.renamed = db.transcripts
      BY <1>2, <2>2 DEF FileInv, Deaths
    <3>2. db.renamed \notin {None, {}} => db.renamed \cap db.transcripts # {}
      BY ONLY <3>1
    <3>3. <<"fast", "Prompt">> \notin db.links
      BY <3>1 DEF FileInv, PromptsSoFar, Database!Shipped
    <3> QED
      BY ONLY <1>2, <3>1, <3>2, <3>3 DEF Database!LinksWork, Database!IdsMayMeet,
        Database!Shipped
  <2> QED
    BY <2>1, <2>2
<1>10. StepsInPlace' /\ Deaths' /\ ColumnsSoFar' /\ PromptsSoFar'
  <2>1. StepsInPlace' /\ Deaths'
    <3>1. StepsInPlace'
      BY <1>2, <1>8 DEF FileInv, StepsInPlace
    <3>2. Torn' = Torn /\ RowsTorn' = RowsTorn /\ CopyTorn' = CopyTorn
      BY <1>2 DEF Torn, RowsTorn, Database!RowsTorn, CopyTorn
    <3>3. Deaths'
      <4>1. db.transcripts # None
        BY <1>2, <1>15 DEF FileInv, TablesAreThere
      <4> HIDE DEF tags, fts, links
      <4> QED
        BY <1>2, <1>8, <1>9, <1>15, <3>2, <4>1 DEF FileInv, Deaths
    <3> QED
      BY <3>1, <3>3
  <2>2. ColumnsSoFar'
    BY <1>2, <1>8, <1>9, ColumnVersions DEF FileInv, ColumnsSoFar
  <2>3. PromptsSoFar'
    <3>1. "default" \notin db'.transcripts
      BY <1>2, <1>8 DEF FileInv, TablesAreThere, PromptsSoFar, Database!Shipped,
        Database!Seeded, Rebuilding
    <3>2. Database!Shipped \subseteq db'.transcripts
          /\ Database!Shipped \X {"Prompt"} \subseteq db'.links
      BY <1>8 DEF Database!Seeded
    <3>3. v = 18 => "legacy" \notin db'.transcripts
      BY <1>2, <1>8 DEF FileInv, PromptsSoFar, Database!Seeded, Database!Shipped
    <3> QED
      BY <1>2, <1>8, <3>1, <3>2, <3>3 DEF PromptsSoFar
  <2> QED
    BY <2>1, <2>2, <2>3
<1>11. TablesAreThere'
  <2>1. ~Rebuilding /\ ~Rebuilding'
    BY ONLY <1>2, <1>8 DEF Rebuilding
  <2>2. /\ db.transcripts \subseteq Database!Entries /\ db.links \subseteq Links
        /\ db.tags \in [TagNames -> Nat]
        /\ (db.fts = None \/ db.fts \in [Database!Entries -> Nat])
        /\ db.renamed # None => RowsTorn \/ (CopyTorn /\ db.version = 12)
    BY <1>2, <2>1 DEF FileInv, TablesAreThere
  <2>3. db'.transcripts \subseteq Database!Entries
    BY ONLY <1>8, <2>2 DEF Database!Entries, Database!Prompts, Database!Seeded,
       Database!Shipped
  <2>4. db'.links \subseteq Links
    BY ONLY <1>8, <2>2 DEF Links, Database!Prompts, Database!Shipped, links
  <2>5. db'.tags \in [TagNames -> Nat]
    <3>1. Database!SystemTag[9] \in TagNames
      BY SystemTagNames DEF TagNames
    <3>2. db.tags \in [TagNames -> Nat]
      BY ONLY <2>2
    <3>3. tags \in [TagNames -> Nat]
      BY ONLY <3>1, <3>2 DEF tags
    <3> QED
      BY ONLY <1>8, <3>3
  <2>6. db'.fts \in [Database!Entries -> Nat]
    <3>1. (IF db.fts = None THEN Database!NoIndex ELSE db.fts) \in [Database!Entries -> Nat]
      BY ONLY <2>2 DEF Database!NoIndex
    <3> QED
      BY ONLY <1>8, <3>1, IndexedIsIndex DEF fts
  <2>7. RowsTorn' = RowsTorn /\ CopyTorn' = CopyTorn
    BY <1>2 DEF RowsTorn, Database!RowsTorn, CopyTorn
  <2> HIDE DEF tags, fts, links
  <2> QED
    BY <1>2, <1>8, <1>9, <1>15, <2>1, <2>2, <2>3, <2>5, <2>6, <2>4, <2>7, TablesAssumption
      DEF TablesAreThere
<1>14. VaultSoFar'
  BY <1>2, <1>8, <1>9, VaultStays DEF FileInv, StepsInPlace
<1>12. /\ NotYetCreated' /\ ForeignKeys' /\ TagsSoFar' /\ CopiesAgree'
       /\ SearchSoFar'
  <2>1. NotYetCreated' /\ CopiesAgree'
    <3>1. db'.transcripts # None /\ db'.links # None /\ db'.tags # None
      BY <1>11, <1>15, <1>2 DEF TablesAreThere, Rebuilding
    <3> QED
      BY <3>1, <1>15 DEF NotYetCreated, CopiesAgree
  <2>2. ForeignKeys'
    BY <1>2, <1>9, <1>15 DEF FileInv, TablesAreThere, ForeignKeys, LeftTorn, RowsTorn,
      Database!RowsTorn
  <2>3. TagsSoFar'
    BY <1>2, <1>8, <1>15, SystemTagNames DEF FileInv, TablesAreThere, TagsSoFar, TagNames
  <2>4. db.fts = None
    BY <1>2 DEF FileInv, SearchSoFar
  <2>5. fts = IndexOf(Database!Seeded(db.transcripts))
    BY ONLY <2>4 DEF fts, IndexOf, Database!Indexed, Database!NoIndex
  <2>6. SearchSoFar'
    <3> HIDE DEF fts
    <3> QED
      BY <1>2, <1>8, <2>5 DEF SearchSoFar
  <2> QED
    BY <2>1, <2>2, <2>3, <2>6
<1>13. UserKept'
  <2>1. Kept = db.transcripts /\ Kept' = db'.transcripts /\ KeptLinks = db.links
        /\ KeptLinks' = db'.links
    BY ONLY <1>15 DEF Kept, KeptLinks
  <2>2. RowsTorn' = RowsTorn /\ LinksTorn' = LinksTorn
    BY <1>2 DEF RowsTorn, Database!RowsTorn, LinksTorn, Database!LinksTorn
  <2>3. \A x \in Rows : x \in db.transcripts => x \in db'.transcripts
    BY <1>8, TablesAssumption DEF Database!Prompts, Database!Seeded
  <2>4. \A l \in (user \cap Filed) \X {"project"} : l \in db.links => l \in db'.links
    BY <1>8, TablesAssumption DEF Database!Prompts
  <2> QED
    BY <1>2, <1>8, <1>9, <2>1, <2>2, <2>3, <2>4 DEF FileInv, UserKept
<1> QED
  BY <1>7, <1>10, <1>11, <1>12, <1>13, <1>14 DEF FileInv

\* A step of version 15 changes the audio tables only.
LEMMA VaultStepKeeps ==
  ASSUME FileInv, FileShape', phase = "migrate", db.version = 14,
         UNCHANGED <<phase, torn, user>>,
         \/ db'.version = 14 /\ step' \in 1..10
         \/ db'.version = 15 /\ step' = 0,
         UNCHANGED <<db.columns, db.transcripts, db.renamed, db.unique, db.fts, db.triggers,
           db.tags, db.links, db.linksTo, db.linksRenamed, db.legacy, db.chosen>>,
         VaultSoFar'
  PROVE  FileInv'
<1>1. StepsInPlace' /\ Deaths' /\ ColumnsSoFar' /\ TablesAreThere' /\ PromptsSoFar'
  BY ColumnVersions DEF FileInv, Deaths, Torn, CopyTorn, RowsTorn,
    Database!RowsTorn, Rebuilding, StepsInPlace, ColumnsSoFar, TablesAreThere,
    PromptsSoFar
<1>2. /\ NotYetCreated' /\ ForeignKeys' /\ TagsSoFar' /\ CopiesAgree'
      /\ UserKept' /\ SearchSoFar'
  BY DEF FileInv, TablesAreThere, NotYetCreated, ForeignKeys, TagsSoFar, CopiesAgree,
     UserKept,
    SearchSoFar, Deaths, Torn, CopyTorn, LeftTorn,
    Database!RowsTorn, Database!LinksTorn, RowsTorn, LinksTorn, Rebuilding, Kept, KeptLinks
<1> QED
  BY <1>1, <1>2 DEF FileInv

LEMMA VaultIsValidKeeps ==
  ASSUME FileInv, Database!VaultIsValid
  PROVE  FileInv'
<1>1. FileShape
  BY DEF FileInv
<1>2. /\ phase = "migrate" /\ step = 0 /\ step' = 0 /\ db.version = 14
      /\ UNCHANGED <<phase, torn, user>>
      /\ db' = [db EXCEPT !.version = 15]
      /\ \A t \in Database!Vault : db.vault[t].to # "renamed"
  BY ONLY Database!VaultIsValid DEF Database!VaultIsValid, Database!Step, Database!LastStep,
    Database!Stale
<1>3. FileShape'
  BY ONLY <1>1, <1>2 DEF FileShape
<1>4. db'.version = 15
  BY ONLY <1>1, <1>2 DEF FileShape
<1>5. UNCHANGED <<db.columns, db.transcripts, db.renamed, db.unique, db.fts, db.triggers,
        db.tags, db.links, db.linksTo, db.linksRenamed, db.legacy, db.chosen, db.vault>>
  BY ONLY <1>1, <1>2 DEF FileShape
<1>6. VaultSoFar'
  BY <1>2, <1>4, <1>5 DEF FileInv, VaultSoFar
<1> QED
  BY <1>2, <1>3, <1>4, <1>5, <1>6, VaultStepKeeps

\* Nothing of the user is in a table that is built again.
LEMMA StaleIsEmpty ==
  ASSUME FileInv, phase = "migrate", db.version = 14, step > 0 \/ Database!Stale
  PROVE  user \cap Recordings = {}
BY DEF FileInv, StepsInPlace, VaultSoFar, Database!Stale

LEMMA CopiesDroppedKeeps ==
  ASSUME FileInv, Database!CopiesDropped
  PROVE  FileInv'
<1>1. FileShape
  BY DEF FileInv
<1>2. PICK t \in Database!Vault :
         /\ phase = "migrate" /\ db.version = 14 /\ step \in {0, 1} /\ step' = step + 1
         /\ step > 0 \/ Database!Stale
         /\ UNCHANGED <<phase, torn, user>>
         /\ db' = [db EXCEPT !.vault[t].copy = None]
  BY ONLY Database!CopiesDropped DEF Database!CopiesDropped, Database!Step, Database!Vault
<1>3. FileShape'
  BY ONLY <1>1, <1>2 DEF FileShape
<1>4. db'.vault = [db.vault EXCEPT ![t].copy = None]
  BY ONLY <1>1, <1>2 DEF FileShape
<1>5. UNCHANGED <<db.version, db.columns, db.transcripts, db.renamed, db.unique, db.fts,
        db.triggers, db.tags, db.links, db.linksTo, db.linksRenamed, db.legacy, db.chosen>>
  BY ONLY <1>1, <1>2 DEF FileShape
<1>6. user \cap Recordings = {}
  BY <1>2, StaleIsEmpty
<1>7. VaultSoFar'
  BY <1>2, <1>4, <1>5, <1>6 DEF FileInv, VaultSoFar
<1> QED
  BY <1>2, <1>3, <1>5, <1>7, VaultStepKeeps

LEMMA RebuildTableKeeps ==
  ASSUME FileInv, NEW t \in Database!Vault, NEW n \in {2, 6},
         t = IF n = 2 THEN "recording_sessions" ELSE "audio_assets",
         Database!RebuildTable(t, n)
  PROVE  FileInv'
<1>1. FileShape
  BY DEF FileInv
<1>2. PICK table :
         /\ phase = "migrate" /\ db.version = 14 /\ step \in n..(n + 3) /\ step' = step + 1
         /\ UNCHANGED <<phase, torn, user>>
         /\ db' = [db EXCEPT !.vault = [db.vault EXCEPT ![t] = table]]
         /\ \/ table = [db.vault[t] EXCEPT !.copy = {}] /\ step = n
            \/ table = [db.vault[t] EXCEPT !.copy = db.vault[t].rows] /\ step = n + 1
            \/ table = [db.vault[t] EXCEPT !.rows = None] /\ step = n + 2
            \/ table = [rows |-> db.vault[t].copy, to |-> "transcripts", copy |-> None]
               /\ step = n + 3
  <2> DEFINE Copied == [rows |-> db.vault[t].copy, to |-> "transcripts", copy |-> None]
  <2>2. CASE Database!Step(15, n, [db EXCEPT !.vault[t].copy = {}], n + 1)
    <3>1. [db EXCEPT !.vault[t].copy = {}] =
            [db EXCEPT !.vault = [db.vault EXCEPT ![t] = [db.vault[t] EXCEPT !.copy = {}]]]
      BY ONLY <1>1 DEF FileShape
    <3>2. /\ phase = "migrate" /\ db.version = 14 /\ step = n /\ step' = n + 1
          /\ UNCHANGED <<phase, torn, user>>
          /\ db' = [db EXCEPT !.vault = [db.vault EXCEPT ![t] = [db.vault[t] EXCEPT !.copy = {}]]]
      BY ONLY <2>2, <3>1 DEF Database!Step
    <3> WITNESS [db.vault[t] EXCEPT !.copy = {}]
    <3> QED
      BY ONLY <3>2, n \in {2, 6}
  <2>3. CASE Database!Step(15, n + 1, [db EXCEPT !.vault[t].copy = db.vault[t].rows], n + 2)
    <3>1. [db EXCEPT !.vault[t].copy = db.vault[t].rows] =
            [db EXCEPT !.vault = [db.vault EXCEPT ![t] = [db.vault[t] EXCEPT !.copy = db.vault[t].rows]]]
      BY ONLY <1>1 DEF FileShape
    <3>2. /\ phase = "migrate" /\ db.version = 14 /\ step = n + 1 /\ step' = n + 2
          /\ UNCHANGED <<phase, torn, user>>
          /\ db' = [db EXCEPT !.vault = [db.vault EXCEPT ![t] = [db.vault[t] EXCEPT !.copy = db.vault[t].rows]]]
      BY ONLY <2>3, <3>1 DEF Database!Step
    <3> WITNESS [db.vault[t] EXCEPT !.copy = db.vault[t].rows]
    <3> QED
      BY ONLY <3>2, n \in {2, 6}
  <2>4. CASE Database!Step(15, n + 2, [db EXCEPT !.vault[t].rows = None], n + 3)
    <3>1. [db EXCEPT !.vault[t].rows = None] =
            [db EXCEPT !.vault = [db.vault EXCEPT ![t] = [db.vault[t] EXCEPT !.rows = None]]]
      BY ONLY <1>1 DEF FileShape
    <3>2. /\ phase = "migrate" /\ db.version = 14 /\ step = n + 2 /\ step' = n + 3
          /\ UNCHANGED <<phase, torn, user>>
          /\ db' = [db EXCEPT !.vault = [db.vault EXCEPT ![t] = [db.vault[t] EXCEPT !.rows = None]]]
      BY ONLY <2>4, <3>1 DEF Database!Step
    <3> WITNESS [db.vault[t] EXCEPT !.rows = None]
    <3> QED
      BY ONLY <3>2, n \in {2, 6}
  <2>5. CASE Database!Step(15, n + 3, [db EXCEPT !.vault[t] = Copied], n + 4)
    <3>1. [db EXCEPT !.vault[t] = Copied] =
            [db EXCEPT !.vault = [db.vault EXCEPT ![t] = Copied]]
      BY ONLY <1>1 DEF FileShape
    <3>2. /\ phase = "migrate" /\ db.version = 14 /\ step = n + 3 /\ step' = n + 4
          /\ UNCHANGED <<phase, torn, user>>
          /\ db' = [db EXCEPT !.vault = [db.vault EXCEPT ![t] = Copied]]
      BY ONLY <2>5, <3>1 DEF Database!Step
    <3> WITNESS Copied
    <3> QED
      BY ONLY <3>2, n \in {2, 6}
  <2> QED
    BY <2>2, <2>3, <2>4, <2>5 DEF Database!RebuildTable
<1>3. FileShape'
  BY ONLY <1>1, <1>2 DEF FileShape
<1>4. db'.vault = [db.vault EXCEPT ![t] = table]
  BY ONLY <1>1, <1>2 DEF FileShape
<1>5. UNCHANGED <<db.version, db.columns, db.transcripts, db.renamed, db.unique, db.fts,
        db.triggers, db.tags, db.links, db.linksTo, db.linksRenamed, db.legacy, db.chosen>>
  BY ONLY <1>1, <1>2 DEF FileShape
<1>6. user \cap Recordings = {} /\ step' \in 1..10
  BY <1>2, StaleIsEmpty
<1>7. VaultSoFar'
  <2> DEFINE Tables == [rows : {None} \cup SUBSET Recordings, to : {"transcripts", "renamed"},
                        copy : {None} \cup SUBSET Recordings]
  <2>1. db.vault \in [Database!Vault -> Tables]
    BY DEF FileInv, VaultSoFar
  <2>2. table \in Tables
    BY ONLY <1>2, <2>1, t \in Database!Vault
  <2>3. step = n + 3 => table.to = "transcripts"
    BY ONLY <1>2, n \in {2, 6}
  <2>4. step # n + 3 => table.to = db.vault[t].to
    BY ONLY <1>2, <2>1, t \in Database!Vault, n \in {2, 6}
  <2>5. /\ step' >= 6 => db'.vault["recording_sessions"].to = "transcripts"
        /\ step' = 10 => db'.vault["audio_assets"].to = "transcripts"
    BY <1>2, <1>4, <2>1, <2>3, <2>4 DEF FileInv, VaultSoFar, Database!Vault
  <2>6. db'.vault \in [Database!Vault -> Tables]
    BY ONLY <1>4, <2>1, <2>2
  <2> QED
    BY <1>2, <1>5, <1>6, <2>5, <2>6 DEF VaultSoFar
<1> QED
  BY <1>2, <1>3, <1>5, <1>6, <1>7, VaultStepKeeps

LEMMA RepairForeignKeysKeeps ==
  ASSUME FileInv, Database!RepairForeignKeys
  PROVE  FileInv'
<1>1. ASSUME Database!LastStep(15, 10, db) PROVE FileInv'
  <2>1. FileShape
    BY DEF FileInv
  <2>2. /\ phase = "migrate" /\ step = 10 /\ step' = 0 /\ db.version = 14
        /\ UNCHANGED <<phase, torn, user>> /\ db' = [db EXCEPT !.version = 15]
    BY ONLY <1>1 DEF Database!LastStep, Database!Step
  <2>3. FileShape' /\ db'.version = 15
    BY ONLY <2>1, <2>2 DEF FileShape
  <2>4. UNCHANGED <<db.columns, db.transcripts, db.renamed, db.unique, db.fts, db.triggers,
          db.tags, db.links, db.linksTo, db.linksRenamed, db.legacy, db.chosen, db.vault>>
    BY ONLY <2>1, <2>2 DEF FileShape
  <2>5. VaultSoFar'
    BY <2>2, <2>3, <2>4 DEF FileInv, VaultSoFar, Database!Vault
  <2> QED
    BY <2>2, <2>3, <2>4, <2>5, VaultStepKeeps
<1>2. ASSUME \/ Database!RebuildTable("recording_sessions", 2)
             \/ Database!RebuildTable("audio_assets", 6)
      PROVE  FileInv'
  BY <1>2, RebuildTableKeeps DEF Database!Vault
<1> QED
  BY <1>1, <1>2, VaultIsValidKeeps, CopiesDroppedKeeps DEF Database!RepairForeignKeys

LEMMA CreateSchemaKeeps ==
  ASSUME FileInv, Database!CreateSchema
  PROVE  FileInv'
<1>1. FileShape
  BY DEF FileInv
<1> DEFINE columns == db.columns
               \cup (IF db.tags = None THEN {<<5, 1>>} ELSE {})
               \cup (IF db.transcripts = None THEN Database!Columns ELSE {})
           tags == IF db.tags = None THEN [t \in {"project", "Refined", "Compound", "Prompt"} |-> 0]
                   ELSE db.tags
           unique == db.unique /\ db.transcripts # None
           vault == [t \in Database!Vault |->
                       IF db.vault[t].rows = None
                       THEN [db.vault[t] EXCEPT !.rows = {}, !.to = "transcripts"]
                       ELSE db.vault[t]]
<1>2. /\ phase = "create" /\ phase' = "migrate" /\ step' = 0
      /\ UNCHANGED <<torn, user>>
      /\ db' = [db EXCEPT
           !.columns = columns, !.unique = unique,
           !.transcripts = IF @ = None THEN {} ELSE @,
           !.tags = tags,
           !.links = IF @ = None THEN {} ELSE @,
           !.linksTo = IF db.links = None THEN "transcripts" ELSE @,
           !.vault = vault]
  BY ONLY <1>1, Database!CreateSchema DEF FileShape, Database!CreateSchema
<1> HIDE DEF columns, tags, unique, vault
<1>3. FileShape'
  BY ONLY <1>1, <1>2 DEF FileShape
<1>4. /\ db'.columns = columns /\ db'.tags = tags /\ db'.unique = unique
      /\ db'.transcripts = IF db.transcripts = None THEN {} ELSE db.transcripts
      /\ db'.links = IF db.links = None THEN {} ELSE db.links
      /\ db'.linksTo = IF db.links = None THEN "transcripts" ELSE db.linksTo
      /\ db'.vault = vault
  BY ONLY <1>1, <1>2 DEF FileShape
<1>5. UNCHANGED <<db.version, db.renamed, db.fts, db.triggers, db.linksRenamed, db.legacy,
        db.chosen>>
  BY ONLY <1>1, <1>2 DEF FileShape
<1>6. ~Rebuilding /\ ~Rebuilding'
  BY ONLY <1>2 DEF Rebuilding
<1>7. StepsInPlace'
  BY <1>2, <1>5 DEF FileInv, StepsInPlace
<1>15. Deaths'
  BY <1>2, <1>4, <1>5, <1>6 DEF FileInv, Deaths, Torn, CopyTorn, RowsTorn,
     Database!RowsTorn, unique
<1>8. ColumnsSoFar'
  BY <1>4, <1>5 DEF FileInv, ColumnsSoFar, columns, Database!Columns
<1>9. TablesAreThere'
  BY <1>2, <1>6, <1>4, <1>5, TablesAssumption DEF FileInv, TablesAreThere, tags, TagNames,
    RowsTorn, CopyTorn, Database!RowsTorn
<1>10. PromptsSoFar'
  BY <1>2, <1>6, <1>4, <1>5 DEF FileInv, StepsInPlace, TablesAreThere, PromptsSoFar
<1>11. NotYetCreated' /\ ForeignKeys' /\ CopiesAgree'
  BY <1>2, <1>6, <1>9, <1>4, <1>5, TablesAssumption DEF FileInv, NotYetCreated, ForeignKeys,
    CopiesAgree, tags, TagNames, RowsTorn, CopyTorn, LinksTorn, LeftTorn, Database!RowsTorn,
    Database!LinksTorn
<1>12. TagsSoFar'
  <2>1. CASE db.tags = None
    BY <1>2, <1>4, <1>5, <2>1, SystemTagNames DEF FileInv, TagsSoFar, NotYetCreated,
      StepsInPlace, tags
  <2>2. CASE db.tags # None
    BY <1>2, <1>4, <1>5, <2>2 DEF FileInv, TagsSoFar, tags
  <2> QED
    BY <2>1, <2>2
<1>13. UserKept'
  BY <1>2, <1>6, <1>4, <1>5 DEF FileInv, StepsInPlace, NotYetCreated, UserKept, Kept,
    KeptLinks, RowsTorn, LinksTorn, Database!RowsTorn, Database!LinksTorn
<1>14. SearchSoFar'
  <2>1. CASE db.transcripts = None
    <3>1. db.version = 0 \/ db.version = 11
      BY <1>2, <2>1 DEF FileInv, Deaths, Torn, RowsTorn, Database!RowsTorn, NotYetCreated,
        TablesAreThere, Rebuilding, StepsInPlace
    <3> QED
      BY <1>2, <1>5, <1>6, <2>1, <3>1 DEF FileInv, SearchSoFar
  <2>2. CASE db.transcripts # None
    BY <1>2, <1>4, <1>5, <2>2 DEF FileInv, SearchSoFar
  <2> QED
    BY <2>1, <2>2
<1>16. VaultSoFar'
  <2> DEFINE Tables == [rows : {None} \cup SUBSET Recordings, to : {"transcripts", "renamed"},
                        copy : {None} \cup SUBSET Recordings]
  <2>1. db.vault \in [Database!Vault -> Tables]
    BY DEF FileInv, VaultSoFar
  <2>2. vault \in [Database!Vault -> Tables]
    BY ONLY <2>1 DEF vault
  <2>3. \A t \in Database!Vault : db.vault[t].to = "transcripts" => vault[t].to = "transcripts"
    BY ONLY <2>1 DEF vault
  <2>4. \A t \in Database!Vault : db.vault[t].rows # None => vault[t] = db.vault[t]
    BY ONLY TRUE DEF vault
  <2> QED
    BY <1>2, <1>4, <1>5, <2>2, <2>3, <2>4 DEF FileInv, VaultSoFar
<1> QED
  BY <1>2, <1>7, <1>8, <1>9, <1>10, <1>11, <1>12, <1>13, <1>14, <1>15, <1>16,
     <1>3 DEF FileInv

\* Steps of the process that leave the file alone.
LEMMA ProcessKeeps ==
  ASSUME FileInv,
         \/ Database!Start \/ Database!Opened \/ Database!Crash \/ Database!PromptsFail
         \/ UNCHANGED databaseVars
  PROVE  FileInv'
<1> USE DEF Rebuilding, Kept, KeptLinks, RowsTorn, LinksTorn, CopyTorn, LeftTorn, Torn,
        Database!RowsTorn, Database!LinksTorn
<1>1. CASE Database!Start
  <2>1. /\ phase \in {"off", "failed"} /\ phase' = "create" /\ UNCHANGED <<db, step, torn, user>>
    BY <1>1 DEF Database!Start
  <2>2. /\ FileShape' /\ StepsInPlace' /\ Deaths' /\ ColumnsSoFar' /\ TablesAreThere'
        /\ PromptsSoFar'
    BY <2>1 DEF FileInv, FileShape, StepsInPlace, Deaths, ColumnsSoFar, TablesAreThere,
      PromptsSoFar
  <2>3. /\ NotYetCreated' /\ ForeignKeys' /\ TagsSoFar' /\ CopiesAgree' /\ UserKept'
        /\ VaultSoFar' /\ SearchSoFar'
    BY <2>1 DEF FileInv, NotYetCreated, ForeignKeys, TagsSoFar, CopiesAgree, UserKept,
      VaultSoFar, SearchSoFar
  <2> QED
    BY <2>2, <2>3 DEF FileInv
<1>2. CASE Database!Opened
  <2>1. /\ phase = "migrate" /\ db.version = 18 /\ phase' = "open"
        /\ UNCHANGED <<db, step, torn, user>>
    BY <1>2 DEF Database!Opened, Database!Target
  <2>2. /\ FileShape' /\ StepsInPlace' /\ Deaths' /\ ColumnsSoFar' /\ TablesAreThere'
        /\ PromptsSoFar'
    BY <2>1 DEF FileInv, FileShape, StepsInPlace, Deaths, ColumnsSoFar, TablesAreThere,
      PromptsSoFar
  <2>3. /\ NotYetCreated' /\ ForeignKeys' /\ TagsSoFar' /\ CopiesAgree' /\ UserKept'
        /\ VaultSoFar' /\ SearchSoFar'
    BY <2>1 DEF FileInv, TablesAreThere, NotYetCreated, ForeignKeys, TagsSoFar, CopiesAgree,
      UserKept, VaultSoFar, SearchSoFar
  <2> QED
    BY <2>2, <2>3 DEF FileInv
<1>3. CASE Database!Crash
  <2>1. /\ phase \notin {"off", "open"} /\ phase' = "off" /\ UNCHANGED <<db, step, user>>
        /\ torn' = torn \cup (IF phase = "migrate" /\ db.version = 11 THEN {step} ELSE {})
    BY <1>3 DEF Database!Crash
  <2>2. ~Rebuilding' /\ step \in Nat
    BY <2>1 DEF FileInv, StepsInPlace
  <2>3. FileShape' /\ StepsInPlace' /\ ColumnsSoFar'
    BY <2>1 DEF FileInv, FileShape, StepsInPlace, ColumnsSoFar
  <2>4. CASE phase = "migrate" /\ db.version = 11
    <3>1. torn' = torn \cup {step} /\ step \in 0..9
      BY <2>1, <2>4 DEF FileInv, StepsInPlace
    <3>2. Deaths'
      BY <2>1, <2>2, <2>4, <3>1 DEF FileInv, StepsInPlace, Deaths, TablesAreThere,
         CopiesAgree,
        ForeignKeys
    <3>3. TablesAreThere' /\ PromptsSoFar'
      BY <2>1, <2>2, <2>4, <3>1 DEF FileInv, TablesAreThere, PromptsSoFar
    <3>4. NotYetCreated' /\ ForeignKeys' /\ TagsSoFar' /\ CopiesAgree'
      <4>1. NotYetCreated'
        BY <2>1, <2>2, <2>4, <3>1 DEF FileInv, TablesAreThere, NotYetCreated
      <4>2. ForeignKeys'
        BY <2>1, <2>2, <2>4, <3>1 DEF FileInv, CopiesAgree, ForeignKeys
      <4>3. TagsSoFar' /\ CopiesAgree'
        BY <2>1, <2>2 DEF FileInv, TagsSoFar, CopiesAgree
      <4> QED
        BY <4>1, <4>2, <4>3
    <3>5. UserKept' /\ VaultSoFar' /\ SearchSoFar'
      BY <2>1, <2>2, <2>4, <3>1 DEF FileInv, TablesAreThere, CopiesAgree, UserKept,
         VaultSoFar,
        SearchSoFar
    <3> QED
      BY <2>3, <3>2, <3>3, <3>4, <3>5 DEF FileInv
  <2>5. CASE ~(phase = "migrate" /\ db.version = 11)
    <3>1. torn' = torn
      BY <2>1, <2>5
    <3>2. Deaths' /\ TablesAreThere' /\ PromptsSoFar'
      BY <2>1, <2>2, <2>5, <3>1 DEF FileInv, Deaths, TablesAreThere, PromptsSoFar
    <3>3. NotYetCreated' /\ ForeignKeys' /\ TagsSoFar' /\ CopiesAgree'
      BY <2>1, <2>2, <2>5, <3>1 DEF FileInv, TablesAreThere, NotYetCreated, ForeignKeys,
        TagsSoFar, CopiesAgree
    <3>4. UserKept' /\ VaultSoFar' /\ SearchSoFar'
      BY <2>1, <2>2, <2>5, <3>1 DEF FileInv, UserKept, VaultSoFar, SearchSoFar
    <3> QED
      BY <2>3, <3>2, <3>3, <3>4 DEF FileInv
  <2> QED
    BY <2>4, <2>5
<1>4. CASE Database!PromptsFail
  <2>1. /\ phase = "migrate" /\ phase' = "failed" /\ db.version \in {12, 17}
        /\ UNCHANGED <<db, step, torn, user>>
    BY <1>4 DEF Database!PromptsFail, Database!Fails
  <2>2. /\ FileShape' /\ StepsInPlace' /\ Deaths' /\ ColumnsSoFar' /\ TablesAreThere'
        /\ PromptsSoFar'
    BY <2>1 DEF FileInv, FileShape, StepsInPlace, Deaths, ColumnsSoFar, TablesAreThere,
      PromptsSoFar
  <2>3. /\ NotYetCreated' /\ ForeignKeys' /\ TagsSoFar' /\ CopiesAgree' /\ UserKept'
        /\ VaultSoFar' /\ SearchSoFar'
    BY <2>1 DEF FileInv, TablesAreThere, NotYetCreated, ForeignKeys, TagsSoFar, CopiesAgree,
      UserKept, VaultSoFar, SearchSoFar
  <2> QED
    BY <2>2, <2>3 DEF FileInv
<1>5. CASE UNCHANGED databaseVars
  <2>1. UNCHANGED <<db, phase, step, torn, user>>
    BY <1>5 DEF databaseVars
  <2>2. /\ FileShape' /\ StepsInPlace' /\ Deaths' /\ ColumnsSoFar' /\ TablesAreThere'
        /\ PromptsSoFar'
    BY <2>1 DEF FileInv, FileShape, StepsInPlace, Deaths, ColumnsSoFar, TablesAreThere,
      PromptsSoFar
  <2>3. /\ NotYetCreated' /\ ForeignKeys' /\ TagsSoFar' /\ CopiesAgree' /\ UserKept'
        /\ VaultSoFar' /\ SearchSoFar'
    BY <2>1 DEF FileInv, NotYetCreated, ForeignKeys, TagsSoFar, CopiesAgree,
      UserKept, VaultSoFar, SearchSoFar
  <2> QED
    BY <2>2, <2>3 DEF FileInv
<1> QED
  BY <1>1, <1>2, <1>3, <1>4, <1>5

\* Together.
LEMMA NextFile == FileInv /\ [Database!Next]_databaseVars => FileInv'
<1> SUFFICES ASSUME FileInv, [Database!Next]_databaseVars PROVE FileInv'
  OBVIOUS
<1>1. CASE Database!Migrate
  BY <1>1, AddColumnKeeps, BaselineKeeps, SearchTableKeeps, SearchRowsKeeps,
     ProjectsToTagsKeeps,
    KeepVariantsKeeps, DropLegacyKeeps, DroppedLegacyKeeps, SystemTagsKeeps,
    PromptSystemKeeps,
    OnlyColumnsKeeps, AlreadyNotUniqueKeeps, DropTriggersKeeps, RenameTableKeeps,
    CreateTableKeeps,
    CopyRowsKeeps, DropRenamedKeeps, RenameLinksKeeps, CreateLinksKeeps, CopyLinksKeeps,
    DropLinksKeeps, RebuiltKeeps, LegacyDeletedKeeps, SearchTriggersDroppedKeeps,
    SearchDroppedKeeps, PromptsSeededKeeps, RepairForeignKeysKeeps,
    ProcessKeeps DEF Database!Migrate, Database!Rebuild
<1> QED
  BY <1>1, CreateSchemaKeeps, ProcessKeeps DEF Database!Next

LEMMA InitFile == Database!Init => FileInv
<1> SUFFICES ASSUME Database!Init PROVE FileInv
  OBVIOUS
<1>1. /\ phase = "off" /\ step = 0 /\ torn = {}
      /\ user = IF db.transcripts = None THEN {}
                ELSE Rows \cup (IF db.version < 14 THEN {} ELSE db.vault["audio_assets"].rows)
  BY DEF Database!Init
<1>2. ~Rebuilding /\ ~RowsTorn /\ ~CopyTorn /\ ~LinksTorn /\ ~LeftTorn /\ Deaths
  BY ONLY <1>1 DEF Rebuilding, RowsTorn, CopyTorn, LinksTorn, LeftTorn, Database!RowsTorn,
    Database!LinksTorn, Deaths, Torn
<1>3. CASE db = Database!NewFile
  <2>1. /\ db.version = 0 /\ db.columns = {c \in Database!Columns : c[1] <= 0}
        /\ db.transcripts = None /\ db.renamed = None /\ db.fts = None /\ db.tags = None
        /\ db.links = None /\ db.linksTo = "transcripts" /\ db.linksRenamed = None
        /\ ~db.legacy /\ db.vault = Database!NoVault
    BY ONLY <1>3 DEF Database!NewFile, Database!FileOf
  <2>2. FileShape
    BY ONLY <1>3 DEF FileShape, Database!NewFile, Database!FileOf
  <2>3. StepsInPlace
    BY ONLY <1>1, <2>1 DEF StepsInPlace
  <2>7. ColumnsSoFar
    BY ONLY <2>1 DEF ColumnsSoFar
  <2>4. TablesAreThere /\ PromptsSoFar
    BY ONLY <1>1, <1>2, <2>1 DEF TablesAreThere, PromptsSoFar
  <2>5. NotYetCreated /\ ForeignKeys /\ TagsSoFar /\ CopiesAgree
    BY ONLY <1>1, <1>2, <2>1 DEF NotYetCreated, ForeignKeys, TagsSoFar, CopiesAgree
  <2>6. UserKept /\ SearchSoFar
    BY ONLY <1>1, <1>2, <2>1 DEF UserKept, SearchSoFar
  <2>8. VaultSoFar
    BY ONLY <1>1, <2>1 DEF VaultSoFar, Database!NoVault, Database!VaultOf
  <2> QED
    BY <1>2, <2>2, <2>3, <2>4, <2>5, <2>6, <2>7, <2>8 DEF FileInv
<1>4. ASSUME NEW v \in 0..17, NEW p \in Database!PromptsOf(v), NEW w \in Database!VaultsOf(v),
             db = Database!FileOf(v, p, w)
      PROVE  FileInv
  <2> DEFINE tags == [t \in {"project", "Refined", "Compound", "Prompt"} |->
               IF t = "project" \/ \E u \in DOMAIN Database!SystemTag :
                                      Database!SystemTag[u] = t /\ u <= v
               THEN 1 ELSE 0]
  <2>1. /\ db.version = v /\ db.columns = {c \in Database!Columns : c[1] <= v}
        /\ db.transcripts = Rows \cup p /\ db.renamed = None /\ (db.unique <=> v < 12)
        /\ db.fts = IF v < 2 THEN None ELSE IndexOf(Rows \cup p)
        /\ (db.triggers <=> v >= 2) /\ db.tags = IF v < 3 THEN None ELSE tags
        /\ db.links = IF v < 3 THEN None ELSE (Filed \X {"project"}) \cup (p \X {"Prompt"})
        /\ db.linksTo = "transcripts" /\ db.linksRenamed = None /\ (db.legacy <=> v < 4)
        /\ db.chosen = (IF v < 4 THEN {} ELSE Filed) /\ db.vault = w
    BY ONLY <1>4 DEF Database!FileOf, IndexOf
  <2>2. FileShape
    BY ONLY <1>4 DEF FileShape, Database!FileOf
  <2>3. /\ p \subseteq Database!Prompts /\ (v < 13 => p \cap Database!Shipped = {})
        /\ (v >= 13 => "default" \notin p)
    BY <1>4 DEF Database!PromptsOf, Database!Prompts, Database!Shipped
  <2>4. /\ v < 14 => w = Database!NoVault \/ w = Database!VaultOf({}, "renamed")
        /\ v = 14 => w = Database!VaultOf(Recordings, "transcripts")
                     \/ w = Database!VaultOf({}, "renamed")
        /\ v >= 15 => w = Database!VaultOf(Recordings, "transcripts")
    BY <1>4 DEF Database!VaultsOf
  <2>5. db.transcripts \in SUBSET Database!Entries /\ db.transcripts # None
    BY <1>1, <2>1, <2>3, TablesAssumption DEF Database!Entries
  <2>17. /\ user = Rows \/ user = Rows \cup Recordings
         /\ v < 14 \/ w["audio_assets"].rows = {} => user = Rows
    BY <1>1, <2>1, <2>4, <2>5 DEF Database!VaultOf, Database!Vault
  <2>6. tags \in [TagNames -> Nat] /\ tags # None
    BY TablesAssumption DEF TagNames
  <2>7. StepsInPlace
    BY ONLY v \in 0..17, <1>1, <2>1, <2>17 DEF StepsInPlace
  <2>14. ColumnsSoFar
    BY ONLY v \in 0..17, <2>1 DEF ColumnsSoFar
  <2>15. (Filed \X {"project"}) \cup (p \X {"Prompt"}) \in SUBSET Links
    BY ONLY <2>3 DEF Links
  <2>16. IndexOf(Rows \cup p) \in [Database!Entries -> Nat]
    BY ONLY TRUE DEF IndexOf
  <2> HIDE DEF tags
  <2>8. TablesAreThere
    <3>1. db.links = None \/ db.links \subseteq Links
      BY ONLY <2>1, <2>15
    <3>2. db.tags = None \/ db.tags \in [TagNames -> Nat]
      BY ONLY <2>1, <2>6
    <3>3. db.fts = None \/ db.fts \in [Database!Entries -> Nat]
      BY ONLY <2>1, <2>16
    <3>4. db.version >= 12 => db.links # None
      BY ONLY v \in 0..17, <2>1, <2>15, TablesAssumption
    <3> QED
      BY ONLY <1>1, <1>2, <2>1, <2>5, <3>1, <3>2, <3>3, <3>4 DEF TablesAreThere
  <2> USE DEF tags
  <2>9. PromptsSoFar
    BY <1>1, <1>2, <2>1, <2>3, TablesAssumption DEF PromptsSoFar, Database!Prompts,
       Database!Shipped
  <2>10. TagsSoFar
    BY <2>1, SystemTagNames DEF TagsSoFar
  <2> HIDE DEF tags
  <2>11. NotYetCreated /\ ForeignKeys /\ CopiesAgree
    <3>1. db.links = None => v < 3
      BY ONLY v \in 0..17, <2>1, <2>15, TablesAssumption
    <3> QED
      BY ONLY v \in 0..17, <1>1, <1>2, <2>1, <2>4, <2>5, <2>6, <3>1 DEF NotYetCreated,
        ForeignKeys, CopiesAgree
  <2>12. UserKept
    <3>1. user \cap Rows = Rows
      BY ONLY <2>17
    <3>2. user \cap Filed \subseteq Filed
      BY ONLY TRUE
    <3> QED
      BY ONLY v \in 0..17, <1>1, <1>2, <2>1, <3>1, <3>2 DEF UserKept, Kept, KeptLinks
  <2>18. VaultSoFar
    <3>1. /\ v < 14 => user \cap Recordings = {}
          /\ w["audio_assets"].rows = {} => user \cap Recordings = {}
      BY ONLY <2>17, TablesAssumption
    <3> QED
      BY ONLY v \in 0..17, <1>1, <2>1, <2>4, <3>1, TablesAssumption DEF VaultSoFar,
        Database!NoVault, Database!VaultOf, Database!Vault
  <2>13. SearchSoFar
    <3>1. CASE v < 2
      BY ONLY v \in 0..17, <1>1, <2>1, <3>1 DEF SearchSoFar
    <3>2. CASE v >= 2
      <4>2. IndexOf(Rows \cup p) # None
        BY ONLY <2>16, TablesAssumption
      <4>1. db.fts = IndexOf(db.transcripts) /\ db.triggers /\ db.fts # None
        BY ONLY v \in 0..17, <2>1, <3>2, <4>2
      <4> QED
        BY ONLY v \in 0..17, <1>1, <2>1, <3>2, <4>1 DEF SearchSoFar
    <3> QED
      BY ONLY <3>1, <3>2, v \in 0..17
  <2> QED
    BY <1>2, <2>2, <2>7, <2>8, <2>9, <2>10, <2>11, <2>12, <2>13, <2>14, <2>18 DEF FileInv
<1> QED
  BY <1>3, <1>4 DEF Database!Init, Database!Target

LEMMA FileIsWhole == FileInv => UpgradeIsWhole
<1> SUFFICES ASSUME FileInv PROVE UpgradeIsWhole
  OBVIOUS
<1>1. Database!TypeOK
  BY DEF FileInv, Rebuilding, Database!TypeOK, Database!Target, StepsInPlace, ColumnsSoFar,
    TablesAreThere, Deaths, RowsTorn, CopyTorn, Database!RowsTorn
<1>2. phase = "open" =>
        /\ db.version = 18 /\ db.transcripts # None /\ ~Rebuilding
        /\ CopyTorn => RowsTorn
        /\ Database!RowsTorn = RowsTorn /\ Database!LinksTorn = LinksTorn
  BY DEF FileInv, Rebuilding, StepsInPlace, TablesAreThere, Deaths, RowsTorn, LinksTorn
<1>3. Database!SchemaIsCurrent
  <2>1. db.version = 18 => db.columns = Database!Columns
    <3>1. \A c \in Database!Columns : c[1] <= 18
      BY ColumnVersions
    <3> QED
      BY ONLY <3>1, FileInv DEF FileInv, ColumnsSoFar
  <2>2. torn \subseteq {0, 1, 9} => ~LeftTorn
    BY DEF LeftTorn
  <2>3. phase = "open" => \A t \in Database!Vault : db.vault[t].to = "transcripts"
    BY ONLY FileInv, <1>2 DEF FileInv, VaultSoFar
  <2> QED
    BY <1>2, <2>1, <2>2, <2>3 DEF Database!SchemaIsCurrent, FileInv, ForeignKeys,
      TablesAreThere, Rebuilding
<1>4. Database!UserDataMigrates
  BY <1>2 DEF Database!UserDataMigrates, FileInv, UserKept, VaultSoFar, Kept, KeptLinks,
    Rebuilding
<1>5. Database!SearchFindsAllOnce
  BY <1>2, TablesAssumption DEF Database!SearchFindsAllOnce, FileInv, SearchSoFar, IndexOf
<1>6. Database!SeededOnce
  BY <1>2, SystemTagNames DEF Database!SeededOnce, FileInv, PromptsSoFar, TagsSoFar,
    TablesAreThere
<1> QED
  BY <1>1, <1>3, <1>4, <1>5, <1>6 DEF UpgradeIsWhole

-----------------------------------------------------------------------------
(* Completion.  A budget has grown at most as often as it was counted; if  *)
(* there is room, it is either what growing alone made it, or enough.      *)

\* "budget" has been doubled as often as growths says, or less.
DoubledAtMost ==
  /\ growths = 0 => budget <= first
  /\ growths = 1 => budget <= 2 * first
  /\ growths = 2 => budget <= 4 * first
  /\ growths = 3 => budget <= 8 * first

OnlyDoubled ==
  /\ growths = 0 => budget = first
  /\ growths = 1 => budget = 2 * first
  /\ growths = 2 => budget = 4 * first
  /\ growths = 3 => budget = 8 * first

\* Nothing outside the loop is in the way of the whole answer.
HasRoom ==
  /\ ceiling > 0 => ceiling >= need
  /\ 8 * first >= need /\ limit >= 2 * need

CallInv ==
  /\ Call!TypeOK /\ first \in Nat /\ budget \in Nat
  /\ call # "chat" => first = 0 /\ budget = 0
  /\ call = "chat" =>
       /\ outcome = "none" /\ DoubledAtMost
       /\ ceiling > 0 => budget <= Call!Larger(first, ceiling)
       /\ HasRoom => budget >= need \/ OnlyDoubled

LEMMA CallInvBounds == CallInv => Call!TypeOK /\ Call!SpendIsBounded
<1> SUFFICES ASSUME CallInv PROVE Call!SpendIsBounded
  BY DEF CallInv
<1>1. growths \in {0, 1, 2, 3} /\ ceiling \in Nat
  BY BudgetsAssumption DEF CallInv, Call!TypeOK, Call!MaxGrowths
<1> QED
  BY <1>1 DEF CallInv, DoubledAtMost, Call!SpendIsBounded, Call!Larger

LEMMA Beginnings == 0 \in 0..MaxRetries /\ 0 \in 0..Call!MaxGrowths
BY BudgetsAssumption DEF Call!MaxGrowths

\* Between calls nothing is left of the last one.
LEMMA IdleIsSound ==
  ASSUME Call!TypeOK, call # "chat", first = 0, budget = 0
  PROVE  CallInv
BY DEF CallInv

LEMMA InitCall == Call!Init => CallInv
<1> SUFFICES ASSUME Call!Init PROVE CallInv
  OBVIOUS
<1>1. Call!TypeOK
  BY Beginnings DEF Call!Init, Call!TypeOK, Call!Outcomes
<1> QED
  BY <1>1, IdleIsSound DEF Call!Init

\* What a call begins with.
LEMMA FirstBudget ==
  ASSUME CallInv, NEW visible \in Nat, NEW thinking \in BOOLEAN
  PROVE  Call!RequestTokens(visible, thinking) \in Nat \ {0}
BY DEF Call!RequestTokens, Call!Larger, Call!SchemaMinimum, Call!HiddenOverhead

LEMMA VisibleBudget ==
  ASSUME CallInv, NEW w \in Words, NEW thinking \in BOOLEAN
  PROVE  Call!RefinementMaxTokens(w, thinking) \in Nat
<1>1. w \in Nat /\ ceiling \in Nat
  BY BudgetsAssumption DEF CallInv, Call!TypeOK
<1> QED
  BY <1>1 DEF Call!RefinementMaxTokens, Call!Capped, Call!Larger, Call!Smaller,
     Call!MinOutputTokens, Call!TokensPerWord, Call!ThinkingTokens

LEMMA ChatBegins ==
  ASSUME CallInv, NEW visible \in Nat, NEW thinking \in BOOLEAN, Call!Chat(visible, thinking),
         refining' \in BOOLEAN, UNCHANGED <<Call!model, Call!server>>
  PROVE  CallInv'
<1>1. first' \in Nat \ {0} /\ budget' = first' /\ growths' = 0
  BY FirstBudget DEF Call!Chat
<1>2. call' = "chat" /\ outcome' = "none" /\ attempt' = 0
  BY DEF Call!Chat
<1>3. Call!TypeOK'
  BY <1>1, <1>2, BudgetsAssumption
     DEF CallInv, Call!TypeOK, Call!MaxGrowths, Call!Outcomes, Call!model, Call!server
<1>4. ceiling' > 0 => budget' <= Call!Larger(first', ceiling')
  BY <1>1, <1>3, BudgetsAssumption DEF Call!TypeOK, Call!Larger
<1> QED
  BY <1>1, <1>2, <1>3, <1>4 DEF CallInv, DoubledAtMost, OnlyDoubled, Call!Larger

LEMMA CallEnds ==
  ASSUME CallInv, NEW how \in Call!Outcomes, Call!Ends(how), UNCHANGED <<Call!model, Call!server>>
  PROVE  CallInv'
<1>1. /\ call' = "idle" /\ outcome' = how /\ refining' = FALSE
      /\ first' = 0 /\ budget' = 0 /\ growths' = 0 /\ attempt' = 0
      /\ UNCHANGED <<kind, schema, thinks, ceiling, limit, need>>
  BY DEF Call!Ends, Call!model, Call!server
<1>2. Call!TypeOK'
  BY <1>1, Beginnings DEF CallInv, Call!TypeOK
<1> QED
  BY <1>1, <1>2 DEF CallInv

\* A 413 halves the budget; one that was refused with room was more than twice
\* what the answer needs.
LEMMA Halved ==
  ASSUME CallInv, NEW n \in Call!SmallerRetryBudget(budget), call = "chat", budget > limit,
         Call!Again(n), UNCHANGED <<growths, Call!model, Call!server>>
  PROVE  CallInv'
<1>1. /\ call' = "chat" /\ refining' = refining /\ first' = first /\ outcome' = outcome
      /\ budget' = n /\ attempt' = 0 /\ growths' = growths
      /\ UNCHANGED <<kind, schema, thinks, ceiling, limit, need>>
  BY DEF Call!Again, Call!model, Call!server
<1>2. /\ budget \in Nat /\ first \in Nat /\ limit \in Nat /\ need \in Nat /\ ceiling \in Nat
      /\ growths \in 0..3
  BY BudgetsAssumption DEF CallInv, Call!TypeOK, Call!MaxGrowths
<1>3. n \in Nat /\ n > 0 /\ n <= budget /\ n >= budget \div 2
  BY <1>2 DEF Call!SmallerRetryBudget, Call!Smallest, Call!Larger
<1>4. Call!TypeOK'
  BY <1>1, <1>3, BudgetsAssumption DEF CallInv, Call!TypeOK
<1>5. DoubledAtMost'
  BY <1>1, <1>2, <1>3 DEF CallInv, DoubledAtMost
<1>6. ceiling > 0 => n <= Call!Larger(first, ceiling)
  BY <1>2, <1>3 DEF CallInv, Call!Larger
<1>7. HasRoom' => n >= need
  BY <1>1, <1>2, <1>3 DEF HasRoom
<1> QED
  BY <1>1, <1>2, <1>3, <1>4, <1>5, <1>6, <1>7 DEF CallInv, Call!Larger

\* An answer that was cut off doubles it, up to the ceiling.
LEMMA Grown ==
  ASSUME CallInv, NEW n \in Call!GrowBudgetIfTruncated(budget, growths), call = "chat",
         budget < need, Call!Again(n), growths' = growths + 1,
         UNCHANGED <<Call!model, Call!server>>
  PROVE  CallInv'
<1>1. /\ call' = "chat" /\ refining' = refining /\ first' = first /\ outcome' = outcome
      /\ budget' = n /\ attempt' = 0 /\ growths' = growths + 1
      /\ UNCHANGED <<kind, schema, thinks, ceiling, limit, need>>
  BY DEF Call!Again, Call!model, Call!server
<1>2. /\ budget \in Nat \ {0} /\ first \in Nat /\ limit \in Nat /\ need \in Nat
      /\ ceiling \in Nat /\ growths \in {0, 1, 2, 3}
  BY BudgetsAssumption DEF CallInv, Call!TypeOK, Call!MaxGrowths
<1>3. /\ growths \in {0, 1, 2} /\ n \in Nat /\ n > 0 /\ n <= 2 * budget
      /\ ceiling = 0 => n = 2 * budget
      /\ ceiling > 0 => n <= ceiling /\ (n = 2 * budget \/ n = ceiling)
  BY <1>2 DEF Call!GrowBudgetIfTruncated, Call!MaxGrowths, Call!Growth, Call!Capped,
     Call!Smaller
<1>4. Call!TypeOK'
  BY <1>1, <1>3, BudgetsAssumption DEF CallInv, Call!TypeOK, Call!MaxGrowths
<1>5. DoubledAtMost'
  BY <1>1, <1>2, <1>3 DEF CallInv, DoubledAtMost
<1>6. ceiling > 0 => n <= Call!Larger(first, ceiling)
  BY <1>2, <1>3 DEF Call!Larger
<1>7. HasRoom' => n >= need \/ OnlyDoubled'
  BY <1>1, <1>2, <1>3 DEF CallInv, HasRoom, OnlyDoubled
<1> QED
  BY <1>1, <1>2, <1>3, <1>4, <1>5, <1>6, <1>7 DEF CallInv, Call!Larger

LEMMA NextCall == CallInv /\ [Call!Next]_callVars => CallInv'
<1> SUFFICES ASSUME CallInv, [Call!Next]_callVars PROVE CallInv'
  OBVIOUS
<1>1. CASE UNCHANGED callVars
  BY <1>1 DEF callVars, CallInv, Call!TypeOK, DoubledAtMost, OnlyDoubled, HasRoom,
     Call!Larger
<1>2. ASSUME NEW w \in Words, NEW thinking \in BOOLEAN, Call!Refine(w, thinking) PROVE CallInv'
  <2>1. CASE Call!Ends("kept")
    BY <1>2, <2>1, CallEnds DEF Call!Refine, Call!Outcomes
  <2>2. CASE refining' = TRUE /\ Call!Chat(Call!RefinementMaxTokens(w, thinking), thinking)
    BY <1>2, <2>2, VisibleBudget, ChatBegins DEF Call!Refine
  <2> QED
    BY <1>2, <2>1, <2>2 DEF Call!Refine
<1>3. ASSUME NEW v \in Visible, Call!GenerateCustom(v) PROVE CallInv'
  BY <1>3, ChatBegins, BudgetsAssumption DEF Call!GenerateCustom
<1>4. CASE Call!ListModels
  <2>1. CASE Call!Ends("refused")
    BY <1>4, <2>1, CallEnds DEF Call!ListModels, Call!Outcomes
  <2>2. CASE call' = "list"
    <3>1. /\ call = "idle" /\ outcome' = "none" /\ attempt' = 0
          /\ UNCHANGED <<kind, schema, thinks, ceiling, limit, need, refining, first, budget,
                         growths>>
      BY <1>4, <2>2 DEF Call!ListModels, Call!Ends, Call!model, Call!server
    <3>2. Call!TypeOK'
      BY <2>2, <3>1, BudgetsAssumption DEF CallInv, Call!TypeOK, Call!Outcomes
    <3> QED
      BY <2>2, <3>1, <3>2 DEF CallInv
  <2> QED
    BY <1>4, <2>1, <2>2 DEF Call!ListModels
<1>5. CASE Call!Retry
  <2>1. attempt' \in 0..MaxRetries
    BY <1>5, BudgetsAssumption DEF Call!Retry, CallInv, Call!TypeOK
  <2> QED
    BY <1>5, <2>1 DEF Call!Retry, CallInv, Call!TypeOK, DoubledAtMost, OnlyDoubled, HasRoom,
       Call!Larger, Call!model, Call!server
<1>6. CASE Call!GiveUp \/ Call!Refused \/ Call!Listed \/ Call!Answered
  BY <1>6, CallEnds DEF Call!GiveUp, Call!Refused, Call!Listed, Call!Answered, Call!Outcomes
<1>7. CASE Call!TooLarge
  BY <1>7, CallEnds, Halved DEF Call!TooLarge, Call!Outcomes
<1>8. CASE Call!CutOff
  BY <1>8, CallEnds, Grown DEF Call!CutOff, Call!Outcomes
<1> QED
  BY <1>1, <1>2, <1>3, <1>4, <1>5, <1>6, <1>7, <1>8 DEF Call!Next, Call!Reply

LEMMA CutOffSteps ==
  CallInv /\ [Call!Next]_callVars =>
    [call = "chat" /\ outcome' = "truncated" =>
       \/ ceiling > 0 /\ ceiling < need
       \/ 8 * first < need
       \/ limit < 2 * need]_Call!cvars
<1> SUFFICES ASSUME CallInv, [Call!Next]_callVars, call = "chat", outcome' = "truncated"
             PROVE  ~HasRoom
  BY BudgetsAssumption DEF HasRoom, CallInv, Call!TypeOK
<1>1. outcome = "none"
  BY DEF CallInv
<1>2. Call!CutOff /\ Call!GrowBudgetIfTruncated(budget, growths) = {}
  BY <1>1 DEF callVars, Call!Next, Call!Refine, Call!GenerateCustom, Call!ListModels,
     Call!Reply,
     Call!Retry, Call!GiveUp, Call!Refused, Call!Listed, Call!TooLarge, Call!Answered,
     Call!CutOff,
     Call!Ends, Call!Again
<1>3. budget < need /\ (growths >= 3 \/ (ceiling > 0 /\ budget >= ceiling))
  BY <1>2 DEF Call!CutOff, Call!GrowBudgetIfTruncated, Call!MaxGrowths
<1>4. /\ budget \in Nat /\ first \in Nat /\ need \in Nat /\ ceiling \in Nat
      /\ growths \in {0, 1, 2, 3}
  BY BudgetsAssumption DEF CallInv, Call!TypeOK, Call!MaxGrowths
<1> QED
  BY <1>3, <1>4 DEF CallInv, HasRoom, OnlyDoubled

-----------------------------------------------------------------------------
(* InsightManager.  The flag is set exactly while a generation is under    *)
(* way, so none begins beside another.                                     *)

InsightInv ==
  /\ Insight!TypeOK /\ generating \in BOOLEAN
  /\ generating <=> \E g \in Generators : gpc[g] # "none"
  /\ Insight!OneGeneration

LEMMA InitInsight == Insight!Init => InsightInv
<1> SUFFICES ASSUME Insight!Init PROVE InsightInv
  OBVIOUS
<1>1. 0 \in Insight!Versions
  BY VersionsAssumption DEF Insight!Versions
<1> QED
  BY <1>1 DEF Insight!Init, InsightInv, Insight!TypeOK, Insight!OneGeneration

\* A generation that goes on is not done.
LEMMA GoesOn ==
  ASSUME InsightInv, NEW g \in Generators, gpc[g] # "none",
         NEW pc \in {"stats", "clear", "infer", "save", "end"}, Insight!Go(g, pc),
         generating' = generating
  PROVE  /\ gpc' \in [Generators -> {"none", "stats", "clear", "infer", "save", "end"}]
         /\ generating' <=> \E h \in Generators : gpc'[h] # "none"
         /\ Insight!OneGeneration'
<1>1. gpc' = [gpc EXCEPT ![g] = pc]
  BY DEF Insight!Go
<1>2. gpc \in [Generators -> {"none", "stats", "clear", "infer", "save", "end"}]
  BY DEF InsightInv, Insight!TypeOK
<1>3. \A h \in Generators : gpc'[h] # "none" <=> gpc[h] # "none"
  BY <1>1, <1>2
<1>4. gpc' \in [Generators -> {"none", "stats", "clear", "infer", "save", "end"}]
  BY <1>1, <1>2
<1> QED
  BY <1>3, <1>4 DEF InsightInv, Insight!OneGeneration

LEMMA NextInsight == InsightInv /\ [Insight!Next]_insightVars => InsightInv'
<1> SUFFICES ASSUME InsightInv, [Insight!Next]_insightVars PROVE InsightInv'
  OBVIOUS
<1> USE DEF InsightInv, Insight!TypeOK, Insight!cache
<1>0. 0 \in Insight!Versions /\ (version < MaxVersion => version + 1 \in Insight!Versions)
  BY VersionsAssumption DEF Insight!Versions
<1>1. CASE UNCHANGED insightVars
  BY <1>1 DEF insightVars, Insight!OneGeneration
<1>2. ASSUME UNCHANGED <<gpc, generating, seen>>, Insight!TypeOK' PROVE InsightInv'
  BY <1>2 DEF Insight!OneGeneration
<1>3. CASE Insight!Change \/ Insight!Transcribed \/ Insight!ClearAll
  <2>1. version' \in Insight!Versions /\ enough' \in BOOLEAN
    BY <1>0, <1>3 DEF Insight!Change, Insight!Transcribed, Insight!ClearAll
  <2>2. /\ UNCHANGED <<insight, aged, generating, ready, gpc, seen>>
        /\ dirty' \in BOOLEAN /\ marks' \in BOOLEAN /\ clears' \in BOOLEAN /\ asks' \in BOOLEAN
    BY <1>3 DEF Insight!Change, Insight!Transcribed, Insight!ClearAll
  <2> QED
    BY <2>1, <2>2, <1>2
<1>4. CASE Insight!MarkDirty \/ Insight!ClearCache
  <2>1. UNCHANGED <<gpc, generating, seen>>
    BY <1>4 DEF Insight!MarkDirty, Insight!ClearCache
  <2>2. Insight!TypeOK'
    BY <1>4 DEF Insight!MarkDirty, Insight!ClearCache, Insight!EmptyCache
  <2> QED
    BY <2>1, <2>2, <1>2
<1>5. CASE Insight!RuntimeReady \/ Insight!RuntimeBusy \/ Insight!TimePasses
  <2>1. UNCHANGED <<gpc, generating, seen>>
    BY <1>5 DEF Insight!RuntimeReady, Insight!RuntimeBusy, Insight!TimePasses
  <2>2. Insight!TypeOK'
    BY <1>5 DEF Insight!RuntimeReady, Insight!RuntimeBusy, Insight!TimePasses
  <2> QED
    BY <2>1, <2>2, <1>2
<1>6. CASE Insight!MaybeSchedule
  <2>1. /\ asks' = FALSE /\ UNCHANGED <<version, enough, ready, seen, marks, clears>>
    BY <1>6 DEF Insight!MaybeSchedule
  <2>2. CASE UNCHANGED <<generating, gpc>>
    BY <1>6, <2>1, <2>2 DEF Insight!MaybeSchedule, Insight!EmptyCache, Insight!OneGeneration
  <2>3. CASE ~generating /\ UNCHANGED Insight!cache /\ \E g \in Generators : Insight!Start(g)
    <3>1. PICK g \in Generators : gpc' = [gpc EXCEPT ![g] = "stats"] /\ generating' = TRUE
      BY <2>3 DEF Insight!Start
    <3>2. \A h \in Generators : gpc'[h] = IF h = g THEN "stats" ELSE "none"
      BY <2>3, <3>1
    <3>3. gpc' \in [Generators -> {"none", "stats", "clear", "infer", "save", "end"}]
      BY <3>1
    <3> QED
      BY <2>1, <2>3, <3>1, <3>2, <3>3 DEF Insight!OneGeneration
  <2> QED
    BY <1>6, <2>2, <2>3 DEF Insight!MaybeSchedule
<1>7. ASSUME NEW g \in Generators, Insight!GeneratorStep(g) PROVE InsightInv'
  <2>1. CASE Insight!ReadStats(g)
    <3>1. seen' \in [Generators -> Insight!Versions]
      BY <2>1 DEF Insight!ReadStats
    <3>2. gpc[g] # "none" /\ generating' = generating
          /\ UNCHANGED <<version, enough, insight, dirty, aged, ready, marks, clears, asks>>
      BY <2>1 DEF Insight!ReadStats
    <3>3. \E pc \in {"clear", "infer", "end"} : Insight!Go(g, pc)
      BY <2>1 DEF Insight!ReadStats
    <3> QED
      BY <3>1, <3>2, <3>3, GoesOn
  <2>2. CASE Insight!NotEnough(g)
    BY <2>2, GoesOn DEF Insight!NotEnough, Insight!EmptyCache
  <2>3. CASE Insight!Infer(g) \/ Insight!InferInVain(g)
    BY <2>3, GoesOn DEF Insight!Infer, Insight!InferInVain
  <2>4. CASE Insight!Save(g)
    <3>1. seen' \in [Generators -> Insight!Versions] /\ insight' \in Insight!Versions
      BY <1>0, <2>4 DEF Insight!Save
    <3> QED
      BY <2>4, <3>1, GoesOn DEF Insight!Save
  <2>5. CASE Insight!Finally(g)
    <3>1. gpc[g] = "end" /\ gpc' = [gpc EXCEPT ![g] = "none"] /\ generating' = FALSE
          /\ UNCHANGED <<version, enough, insight, dirty, aged, ready, seen, marks, clears, asks>>
      BY <2>5 DEF Insight!Finally, Insight!Go
    <3>2. \A h \in Generators : gpc'[h] = "none"
      BY <3>1 DEF Insight!OneGeneration
    <3>3. gpc' \in [Generators -> {"none", "stats", "clear", "infer", "save", "end"}]
      BY <3>1
    <3> QED
      BY <3>1, <3>2, <3>3 DEF Insight!OneGeneration
  <2> QED
    BY <1>7, <2>1, <2>2, <2>3, <2>4, <2>5 DEF Insight!GeneratorStep
<1> QED
  BY <1>1, <1>3, <1>4, <1>5, <1>6, <1>7 DEF Insight!Next

-----------------------------------------------------------------------------
(* The theorems *)

LEMMA StepOfParts ==
  [LiveNext]_liveVars =>
    /\ [Refine!Next]_refineVars /\ [Database!Next]_databaseVars
    /\ [Call!Next]_callVars /\ [Insight!Next]_insightVars
BY DEF LiveNext, liveVars

(* The Refined tag says what the text is, and a bulk refinement counts     *)
(* each transcript once: refinement_handlers.py, with any number of        *)
(* transcripts, refinements, edits, reverts, deletions and outages.        *)
THEOREM LiveRefinementAgrees == LiveSpec => []RefinementAgrees
<1>1. LiveInit => RefineInv
  BY InitRefine DEF LiveInit
<1>2. RefineInv /\ [LiveNext]_liveVars => RefineInv'
  BY StepOfParts, NextRefine
<1>3. RefineInv => RefinementAgrees
  BY DEF RefineInv, TagsAgree, RefineTypes, RefinementAgrees
<1>4. LiveSpec => LiveInit /\ [][LiveNext]_liveVars
  BY PTL DEF LiveSpec
<1> QED  BY <1>1, <1>2, <1>3, <1>4, PTL

(* However often the process dies, and wherever, a database that opens has *)
(* all columns, the recordings, the texts of the variants, the shipped     *)
(* prompts and each row in the search once; and the transcripts with their *)
(* projects, but for a death at four steps of the rebuild of v12:          *)
(* migrations.py from any version, with any rows.                          *)
THEOREM LiveUpgradeIsWhole == LiveSpec => []UpgradeIsWhole
<1>1. LiveInit => FileInv
  BY InitFile DEF LiveInit
<1>2. FileInv /\ [LiveNext]_liveVars => FileInv'
  BY StepOfParts, NextFile
<1>3. FileInv => UpgradeIsWhole
  BY FileIsWhole
<1>4. LiveSpec => LiveInit /\ [][LiveNext]_liveVars
  BY PTL DEF LiveSpec
<1> QED  BY <1>1, <1>2, <1>3, <1>4, PTL

(* The budget of a call never exceeds eight times the first request or the *)
(* user's ceiling, and an answer is left cut off only if the ceiling, the  *)
(* growth limit or a server that refuses twice what it needs is in the     *)
(* way: the loop of openai_compatible.py, for any numbers.                 *)
THEOREM LiveSpendsWithReason == LiveSpec => SpendsWithReason
<1>1. LiveInit => CallInv
  BY InitCall DEF LiveInit
<1>2. CallInv /\ [LiveNext]_liveVars => CallInv'
  BY StepOfParts, NextCall
<1>3. CallInv => Call!TypeOK /\ Call!SpendIsBounded
  BY CallInvBounds
<1>4. CallInv /\ [LiveNext]_liveVars =>
        [call = "chat" /\ outcome' = "truncated" =>
           \/ ceiling > 0 /\ ceiling < need
           \/ 8 * first < need
           \/ limit < 2 * need]_Call!cvars
  BY StepOfParts, CutOffSteps
<1>5. LiveSpec => LiveInit /\ [][LiveNext]_liveVars
  BY PTL DEF LiveSpec
<1> QED
  BY <1>1, <1>2, <1>3, <1>4, <1>5, PTL DEF SpendsWithReason, Call!CutOffForAReason

(* No generation of insight_manager.py begins while another is under way,  *)
(* although its own inference asks for the next one.                       *)
THEOREM LiveOneGeneration == LiveSpec => [](Insight!TypeOK /\ Insight!OneGeneration)
<1>1. LiveInit => InsightInv
  BY InitInsight DEF LiveInit
<1>2. InsightInv /\ [LiveNext]_liveVars => InsightInv'
  BY StepOfParts, NextInsight
<1>3. InsightInv => Insight!TypeOK /\ Insight!OneGeneration
  BY DEF InsightInv
<1>4. LiveSpec => LiveInit /\ [][LiveNext]_liveVars
  BY PTL DEF LiveSpec
<1> QED  BY <1>1, <1>2, <1>3, <1>4, PTL
===============================================================================
