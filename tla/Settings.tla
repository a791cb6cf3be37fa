------------------------------ MODULE Settings ------------------------------
(***************************************************************************)
(* src/core/settings.py and handle_update_config: the settings live in     *)
(* settings.json, in the module's _settings, in coordinator.settings, in   *)
(* what the window was last sent and, for the hotkey, in the listener's    *)
(* chord.  An update reads _settings, merges its fields, saves, and then   *)
(* publishes; updates come from API worker threads and take no lock.  The  *)
(* start of the application loads the file, replaces a refinement model    *)
(* that is no longer offered, and moves API keys that an older version     *)
(* left in the file to the secret store.                                   *)
(*                                                                         *)
(* overlapped remembers that two updates ran at once, asked what each      *)
(* field was last successfully set to, old the keys the first file held    *)
(* and fellBack that the model was replaced.                               *)
(***************************************************************************)
EXTENDS Naturals

CONSTANTS
    Fields,      \* the settings that updates change
    Hotkey,      \* the field the listener's chord is made from
    Legacy,      \* sections that may hold a key in an old file
    Account,     \* section -> the provider its key is stored for
    Updaters,    \* API worker threads
    MaxValue,    \* bound: values given to fields
    MaxFailures, \* bound: failed writes and store calls, crashes, damages
    Damaged, None

VARIABLES
    disk,      \* settings.json: the fields, the old keys in it and whether its
               \* model is gone; or Damaged
    bak,       \* settings.json.bak
    memory,    \* _settings
    used,      \* coordinator.settings
    shown,     \* the config_updated event the window had last
    chord,     \* the activation key of the listener
    phase,     \* "load", "migrate", "save" at start, then "up"
    todo,      \* sections whose keys are still to be moved
    secret,    \* the secret store: provider -> section the key came from
    refused,   \* sections whose key the store did not take
    pc, merged,     \* updater -> its step, the settings it will save
    field,     \* updater -> the field it sets
    old, asked, next, failures, overlapped, damaged, fellBack

uvars == <<disk, bak, memory, used, shown, chord, phase, todo, secret, refused, pc, merged,
           field, old, asked, next, failures, overlapped, damaged, fellBack>>

Values == 0..MaxValue
Defaults == [f \in Fields |-> 0]
File(fields) == [fields |-> fields, keys |-> {}, gone |-> FALSE]
Files == [fields : [Fields -> Values], keys : SUBSET Legacy, gone : BOOLEAN] \cup {Damaged}
Idle == \A u \in Updaters : pc[u] = "idle"

TypeOK ==
    /\ disk \in Files /\ bak \in Files \cup {None}
    /\ memory \in [Fields -> Values] /\ used \in [Fields -> Values]
    /\ shown \in [Fields -> Values] /\ chord \in Values
    /\ phase \in {"load", "migrate", "save", "up"}
    /\ todo \subseteq Legacy /\ refused \subseteq Legacy
    /\ pc \in [Updaters -> {"idle", "read", "backed", "written", "cached", "published"}]
    /\ phase = "up" /\ disk # Damaged => disk.keys = {}
    /\ phase # "up" => Idle

Init ==
    /\ old \in SUBSET Legacy
    /\ \E gone \in BOOLEAN : disk = [fields |-> Defaults, keys |-> old, gone |-> gone]
    /\ bak = None /\ memory = Defaults /\ used = Defaults /\ shown = Defaults
    /\ chord = 0 /\ phase = "load" /\ todo = {} /\ refused = {}
    /\ secret = [p \in {Account[s] : s \in Legacy} |-> None]
    /\ pc = [u \in Updaters |-> "idle"] /\ merged = [u \in Updaters |-> Defaults]
    /\ field = [u \in Updaters |-> Hotkey]
    /\ asked = Defaults /\ next = 1 /\ failures = 0
    /\ overlapped = FALSE /\ damaged = FALSE /\ fellBack = FALSE

Fail == failures < MaxFailures /\ failures' = failures + 1

-----------------------------------------------------------------------------
(* init_settings                                                           *)

\* A file that cannot be read gives the defaults, and is left as it is.  A
\* model that is gone is replaced and the settings saved, without the keys,
\* which no dump of the settings contains.
Load ==
    /\ phase = "load"
    /\ memory' = IF disk = Damaged THEN Defaults ELSE disk.fields
    /\ used' = memory' /\ shown' = memory' /\ chord' = memory'[Hotkey]
    /\ IF disk # Damaged /\ disk.gone
       THEN bak' = disk /\ disk' = File(memory') /\ todo' = {} /\ fellBack' = TRUE
       ELSE /\ todo' = IF disk = Damaged THEN {} ELSE disk.keys
            /\ UNCHANGED <<bak, disk, fellBack>>
    /\ phase' = IF todo' = {} THEN "up" ELSE "migrate"
    /\ UNCHANGED <<secret, refused, pc, merged, field, asked, next, failures, overlapped, damaged,
                   old>>

\* store_provider_api_key for one section; a refusal is logged and passed over.
MoveKey(s) ==
    /\ phase = "migrate" /\ s \in todo
    /\ todo' = todo \ {s}
    /\ \/ /\ secret' = [secret EXCEPT ![Account[s]] = s] /\ UNCHANGED <<refused, failures>>
       \/ /\ Fail /\ refused' = refused \cup {s} /\ UNCHANGED secret
    /\ phase' = IF todo' = {} THEN "save" ELSE "migrate"
    /\ UNCHANGED <<disk, bak, memory, used, shown, chord, pc, merged, field, asked, next,
                   overlapped, damaged, old, fellBack>>

\* The dump leaves the keys out; _migrate_provider_api_keys_to_secret_store saves it.
SaveMigrated ==
    /\ phase = "save"
    /\ bak' = disk /\ disk' = File(memory)
    /\ phase' = "up"
    /\ UNCHANGED <<memory, used, shown, chord, todo, secret, refused, pc, merged, field, asked,
                   next, failures, overlapped, damaged, old, fellBack>>

\* The application is closed, or dies at any step; a save that fails during
\* the start ends it too.
Dies ==
    /\ Fail \/ (phase = "up" /\ Idle /\ UNCHANGED failures)
    /\ phase' = "load" /\ todo' = {}
    /\ pc' = [u \in Updaters |-> "idle"]
    /\ UNCHANGED <<disk, bak, memory, used, shown, chord, secret, refused, merged, field, asked,
                   next, overlapped, damaged, old, fellBack>>

Damage ==
    /\ phase = "load" /\ disk # Damaged /\ Fail
    /\ disk' = Damaged /\ damaged' = TRUE
    /\ UNCHANGED <<bak, memory, used, shown, chord, phase, todo, secret, refused, pc, merged,
                   field, asked, next, overlapped, old, fellBack>>

-----------------------------------------------------------------------------
(* handle_update_config                                                    *)

\* update_settings: the current settings with the given fields replaced.
Merge(f, v) == [memory EXCEPT ![f] = v]

Update(u) ==
    /\ phase = "up" /\ pc[u] = "idle" /\ next <= MaxValue
    /\ \E f \in Fields :
         /\ field' = [field EXCEPT ![u] = f]
         /\ merged' = [merged EXCEPT ![u] = Merge(f, next)]
    /\ next' = next + 1
    /\ overlapped' = (overlapped \/ ~Idle)
    /\ pc' = [pc EXCEPT ![u] = "read"]
    /\ UNCHANGED <<disk, bak, memory, used, shown, chord, phase, todo, secret, refused, asked,
                   failures, damaged, old, fellBack>>

\* save_settings copies the file beside it; a copy that fails is logged.
Backup(u) ==
    /\ pc[u] = "read"
    /\ pc' = [pc EXCEPT ![u] = "backed"]
    /\ bak' = disk \/ UNCHANGED bak
    /\ UNCHANGED <<disk, memory, used, shown, chord, phase, todo, secret, refused, merged, field,
                   asked, next, failures, overlapped, damaged, old, fellBack>>

\* The new file replaces the old in one step ...
Replace(u) ==
    /\ pc[u] = "backed"
    /\ disk' = File(merged[u])
    /\ asked' = [asked EXCEPT ![field[u]] = merged[u][field[u]]]
    /\ pc' = [pc EXCEPT ![u] = "written"]
    /\ UNCHANGED <<bak, memory, used, shown, chord, phase, todo, secret, refused, merged, field,
                   next, failures, overlapped, damaged, old, fellBack>>

\* Mutant: the settings in memory change though the write failed.
ReplaceFailsButCaches(u) ==
    /\ pc[u] = "backed" /\ Fail
    /\ memory' = merged[u]
    /\ pc' = [pc EXCEPT ![u] = "idle"]
    /\ UNCHANGED <<disk, bak, used, shown, chord, phase, todo, secret, refused, merged, field,
                   asked, next, overlapped, damaged, old, fellBack>>

\* ... or the write fails, and the request with it.
ReplaceFails(u) ==
    /\ pc[u] = "backed" /\ Fail
    /\ pc' = [pc EXCEPT ![u] = "idle"]
    /\ UNCHANGED <<disk, bak, memory, used, shown, chord, phase, todo, secret, refused, merged,
                   field, asked, next, overlapped, damaged, old, fellBack>>

Cache(u) ==
    /\ pc[u] = "written"
    /\ memory' = merged[u]
    /\ pc' = [pc EXCEPT ![u] = "cached"]
    /\ UNCHANGED <<disk, bak, used, shown, chord, phase, todo, secret, refused, merged, field,
                   asked, next, failures, overlapped, damaged, old, fellBack>>

\* coordinator.settings, and the event for the window.
Publish(u) ==
    /\ pc[u] = "cached"
    /\ used' = merged[u] /\ shown' = merged[u]
    /\ pc' = [pc EXCEPT ![u] = "published"]
    /\ UNCHANGED <<disk, bak, memory, chord, phase, todo, secret, refused, merged, field, asked,
                   next, failures, overlapped, damaged, old, fellBack>>

\* load_activation_keys reads the module's settings, whoever wrote them last.
Reload(u) ==
    /\ pc[u] = "published"
    /\ chord' = memory[Hotkey]
    /\ pc' = [pc EXCEPT ![u] = "idle"]
    /\ UNCHANGED <<disk, bak, memory, used, shown, phase, todo, secret, refused, merged, field,
                   asked, next, failures, overlapped, damaged, old, fellBack>>

Next ==
    \/ Load \/ SaveMigrated \/ Dies \/ Damage
    \/ \E s \in Legacy : MoveKey(s)
    \/ \E u \in Updaters :
         Update(u) \/ Backup(u) \/ Replace(u) \/ ReplaceFails(u) \/ Cache(u) \/ Publish(u)
         \/ Reload(u)

Spec == Init /\ [][Next]_uvars

-----------------------------------------------------------------------------
(* With no update on its way, every copy of the settings is the file's:    *)
(* the module's, the coordinator's, the window's and the listener's chord, *)
(* after failed saves and restarts too.  Overlapping updates may leave the *)
(* copies with different winners.                                          *)
CopiesAgree ==
    phase = "up" /\ Idle /\ ~overlapped /\ disk # Damaged =>
        /\ memory = disk.fields /\ used = memory /\ shown = memory
        /\ chord = memory[Hotkey]

(* A field keeps the value it was last successfully saved with, whatever   *)
(* other fields are set, fail to be set or are half-way set at a crash.    *)
SavedStays == ~overlapped /\ ~damaged => disk # Damaged /\ disk.fields = asked

Kept(s) == disk.keys \cap {s} # {} \/ secret[Account[s]] # None \/ s \in refused

(* A key an old settings file holds is not lost on its way to the secret   *)
(* store, whenever the application dies: it is in the file, or a key for   *)
(* that provider is in the store, or the store refused it.                 *)
KeysAreMoved == ~damaged /\ ~fellBack => \A s \in old : Kept(s)

(* _migrate_provider_api_keys_to_secret_store, "Move any legacy plaintext  *)
(* provider API keys out of settings.json": also beside a model that has   *)
(* to be replaced.                                                         *)
KeysAreMovedAlways == ~damaged => \A s \in old : Kept(s)
=============================================================================
