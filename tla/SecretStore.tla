---------------------------- MODULE SecretStore ----------------------------
(***************************************************************************)
(* src/core/secret_store.py and those who keep keys in it: the API routes  *)
(* that save and delete a provider's key, and the encrypted recordings,    *)
(* each with a key of its own (src/services/audio_vault.py).               *)
(*                                                                         *)
(* On macOS and Linux a key is an entry of the system's key ring, written  *)
(* and deleted in one step.  On Windows all keys are in one file,          *)
(* secrets.json, which every operation reads whole, changes in memory and  *)
(* writes back (_read_dpapi_store, _write_dpapi_store), under no lock; a   *)
(* file that cannot be read counts as empty.  want is what a careful user  *)
(* expects to find; collided remembers that two file operations overlapped *)
(* and unread that a file was taken for empty.                             *)
(***************************************************************************)
EXTENDS Naturals, FiniteSets

CONSTANTS
    Providers,    \* lm_studio, groq
    Recordings,
    Threads,      \* API worker threads and the one that begins a recording
    MaxKeys,      \* bound: keys ever stored
    MaxFailures,  \* bound: failed commands and unreadable files
    None

Accounts == Providers \cup Recordings
Backends == {"win32_dpapi", "macos_keychain", "libsecret", "unavailable"}
Keys == 1..MaxKeys

VARIABLES
    backend,    \* get_secret_backend
    stored,     \* account -> key in the key ring or in secrets.json
    op,         \* thread -> what it is doing, or None
    snapshot,   \* thread -> the accounts it read from secrets.json
    audio,      \* recordings with encrypted audio on disk
    want,       \* account -> the key last acknowledged and not deleted since
    nextKey, failures, collided, unread

svars == <<backend, stored, op, snapshot, audio, want, nextKey, failures, collided, unread>>

Empty == [a \in Accounts |-> None]
Stores == [Accounts -> Keys \cup {None}]
Ops == [kind : {"store", "delete"}, account : Accounts, key : Keys \cup {None},
        read : BOOLEAN]

TypeOK ==
    /\ backend \in Backends
    /\ stored \in Stores /\ want \in Stores
    /\ op \in [Threads -> Ops \cup {None}]
    /\ snapshot \in [Threads -> Stores]
    /\ audio \subseteq Recordings
    /\ backend = "unavailable" => stored = Empty /\ audio = {}

Init ==
    /\ backend \in Backends
    /\ stored = Empty /\ want = Empty /\ snapshot = [t \in Threads |-> Empty]
    /\ op = [t \in Threads |-> None]
    /\ audio = {} /\ nextKey = 1 /\ failures = 0
    /\ collided = FALSE /\ unread = FALSE

Reading(t) == op[t] # None /\ op[t].read
Pending(a) == \E t \in Threads : op[t] # None /\ op[t].account = a
Done(t) == op' = [op EXCEPT ![t] = None]

-----------------------------------------------------------------------------
(* The callers                                                             *)

\* PUT /api/.../api-key, and _enable_encryption before a recording's first
\* chunk: store_provider_api_key and store_audio_vault_key.
AskStore(t, a) ==
    /\ op[t] = None /\ nextKey <= MaxKeys
    /\ a \in Recordings => a \notin audio /\ want[a] = None /\ ~Pending(a)
    /\ op' = [op EXCEPT ![t] = [kind |-> "store", account |-> a, key |-> nextKey, read |-> FALSE]]
    /\ nextKey' = nextKey + 1
    /\ UNCHANGED <<backend, stored, snapshot, audio, want, failures, collided, unread>>

\* DELETE /api/.../api-key: whatever becomes of it, the key is not expected.
AskDelete(t, p) ==
    /\ op[t] = None
    /\ op' = [op EXCEPT ![t] = [kind |-> "delete", account |-> p, key |-> None, read |-> FALSE]]
    /\ want' = [want EXCEPT ![p] = None]
    /\ UNCHANGED <<backend, stored, snapshot, audio, nextKey, failures, collided, unread>>

\* The writer writes encrypted chunks only with a stored key.
WriteAudio(r) ==
    /\ want[r] # None
    /\ audio' = audio \cup {r}
    /\ UNCHANGED <<backend, stored, op, snapshot, want, nextKey, failures, collided, unread>>

\* Mutant: the key goes first, then the file.
DeleteKeyFirst(t, r) ==
    /\ op[t] = None /\ r \in audio
    /\ op' = [op EXCEPT ![t] = [kind |-> "delete", account |-> r, key |-> None, read |-> FALSE]]
    /\ want' = [want EXCEPT ![r] = None]
    /\ UNCHANGED <<backend, stored, snapshot, audio, nextKey, failures, collided, unread>>

\* handle_delete_recovered: the file goes first, then its key.
DeleteRecovered(t, r) ==
    /\ op[t] = None /\ r \in audio
    /\ audio' = audio \ {r}
    /\ op' = [op EXCEPT ![t] = [kind |-> "delete", account |-> r, key |-> None, read |-> FALSE]]
    /\ want' = [want EXCEPT ![r] = None]
    /\ UNCHANGED <<backend, stored, snapshot, nextKey, failures, collided, unread>>

-----------------------------------------------------------------------------
(* The backends                                                            *)

Acknowledged(t) == want' = [want EXCEPT ![op[t].account] = op[t].key]

\* The key ring takes the entry or the command fails; no backend, no store.
RunCommand(t) ==
    /\ op[t] # None /\ backend # "win32_dpapi"
    /\ backend # "unavailable"
    /\ stored' = [stored EXCEPT ![op[t].account] = op[t].key]
    /\ Acknowledged(t) /\ Done(t)
    /\ UNCHANGED <<backend, snapshot, audio, nextKey, failures, collided, unread>>

CommandFails(t) ==
    /\ op[t] # None /\ backend # "win32_dpapi"
    /\ backend # "unavailable" => failures < MaxFailures /\ failures' = failures + 1
    /\ backend = "unavailable" => UNCHANGED failures
    /\ Done(t)
    /\ UNCHANGED <<backend, stored, snapshot, audio, want, nextKey, collided, unread>>

\* _read_dpapi_store
ReadFile(t) ==
    /\ op[t] # None /\ backend = "win32_dpapi" /\ ~op[t].read
    /\ op' = [op EXCEPT ![t].read = TRUE]
    /\ collided' = (collided \/ \E u \in Threads : Reading(u))
    /\ \/ /\ snapshot' = [snapshot EXCEPT ![t] = stored]
          /\ UNCHANGED <<failures, unread>>
       \/ /\ failures < MaxFailures /\ failures' = failures + 1
          /\ snapshot' = [snapshot EXCEPT ![t] = Empty]
          /\ unread' = TRUE
    /\ UNCHANGED <<backend, stored, audio, want, nextKey>>

\* _dpapi_store, _dpapi_delete and their counterparts for audio keys.
Changed(t) == [snapshot[t] EXCEPT ![op[t].account] = op[t].key]

\* _write_dpapi_store replaces the file in one step; deleting a key that was
\* not read writes nothing.
WriteFile(t) ==
    /\ Reading(t)
    /\ stored' = IF op[t].kind = "delete" /\ snapshot[t][op[t].account] = None
                 THEN stored ELSE Changed(t)
    /\ Acknowledged(t) /\ Done(t)
    /\ snapshot' = [snapshot EXCEPT ![t] = Empty]
    /\ UNCHANGED <<backend, audio, nextKey, failures, collided, unread>>

WriteFails(t) ==
    /\ Reading(t) /\ failures < MaxFailures
    /\ failures' = failures + 1
    /\ Done(t) /\ snapshot' = [snapshot EXCEPT ![t] = Empty]
    /\ UNCHANGED <<backend, stored, audio, want, nextKey, collided, unread>>

\* The application dies; what it was doing is forgotten, before or after the
\* replacement of the file.
Crash ==
    /\ failures < MaxFailures /\ failures' = failures + 1
    /\ op' = [t \in Threads |-> None] /\ snapshot' = [t \in Threads |-> Empty]
    /\ UNCHANGED <<backend, stored, audio, want, nextKey, collided, unread>>

Next ==
    \/ \E t \in Threads, a \in Accounts : AskStore(t, a)
    \/ \E t \in Threads, p \in Providers : AskDelete(t, p)
    \/ \E t \in Threads, r \in Recordings : DeleteRecovered(t, r)
    \/ \E r \in Recordings : WriteAudio(r)
    \/ \E t \in Threads :
         RunCommand(t) \/ CommandFails(t) \/ ReadFile(t) \/ WriteFile(t) \/ WriteFails(t)
    \/ Crash

Spec == Init /\ [][Next]_svars

-----------------------------------------------------------------------------
(* An acknowledged key stays until it is replaced or deleted, whatever is  *)
(* being done with it or with other keys, fails or crashes; the file of    *)
(* Windows needs every operation to be alone and every read to succeed.    *)
KeysAreKept ==
    ~collided /\ ~unread =>
        \A a \in Accounts : want[a] # None => stored[a] = want[a]

(* Audio that is on disk encrypted can be opened: its key is in the store, *)
(* also when the application dies while the recording is being deleted.    *)
RecordingsOpen ==
    ~collided /\ ~unread => \A r \in audio : stored[r] # None
=============================================================================
