------------------------------ MODULE Ingestion ------------------------------
(***************************************************************************)
(* IngestionService: scan a folder, compare each file's hash with the      *)
(* manifest, and bring the chunks in the vector stores up to date.  The    *)
(* manifest and the stores outlive the process; the lock and the scan do   *)
(* not.  Files change on disk while a scan runs, any call of the scan can  *)
(* raise, and the admin endpoint stores uploads next to it.                *)
(***************************************************************************)
EXTENDS Integers, FiniteSets

CONSTANTS
  Source,      \* source keys, as numbers: a scan takes them in sorted order
  Version,     \* contents a file can have; a content is its own hash
  Edits,       \* the changes of a file that happen: <<before, after>>, None: no file
  Runner,      \* who calls run_once: the scheduler's thread, a "run now" request
  Stores,      \* number of backends of the (Multi)VectorStore
  MaxEdits,    \* bound: changes on disk
  MaxFaults,   \* bound: calls that raise
  MaxCrashes,  \* bound: deaths of the process
  MaxUploads,  \* bound: files ingested through the admin endpoint
  None         \* no file, no manifest entry, nobody

ASSUME IngestionAssumption ==
  /\ Source \subseteq Nat
  /\ Edits \subseteq (Version \cup {None}) \X (Version \cup {None})
  /\ Stores \in Nat \ {0}
  /\ None \notin Version \cup Runner
  /\ {MaxEdits, MaxFaults, MaxCrashes, MaxUploads} \subseteq Nat

VARIABLES
  disk,      \* the content of each file, None when there is no such file
  manifest,  \* the hash recorded by upsert_file_state, None when there is none
  chunks,    \* chunks[k][s]: the sets of chunks of source s in backend k, one
             \* member per index() call: fresh ids, the version, and its origin
  lock,      \* who is inside run_once
  pc,        \* where each runner is
  todo,      \* files its scan has still to look at
  digest,    \* the hash it has taken of the file it is at
  loaded,    \* the chunks it is about to store
  at,        \* the backend its delete or upsert has come to
  listed,    \* sources some run has put in its list of failures
  upload,    \* the admin upload that is being stored
  ids,       \* number of index() calls so far: ids are never reused
  spent      \* edits, faults, crashes and uploads so far

stored == <<disk, manifest, chunks>>
scanVars == <<lock, pc, todo, digest, loaded, at, listed>>
vars == <<stored, scanVars, upload, ids, spent>>

Origins == {"scan", "upload"}

ChunkSets == [id : Nat, version : Version, origin : Origins]

Uploads == [source : Source, chunks : ChunkSets, at : 1 .. Stores]

\* Files, manifest and chunks, the runners' local state and the counters have
\* their types: what is hashed, loaded or recorded is the content of a file.
TypeOK ==
  /\ disk \in [Source -> Version \cup {None}]
  /\ manifest \in [Source -> Version \cup {None}]
  /\ chunks \in [1 .. Stores -> [Source -> SUBSET ChunkSets]]
  /\ lock \in Runner \cup {None}
  /\ pc \in [Runner -> {"idle", "scan", "check", "delete", "load", "upsert", "commit"}]
  /\ todo \in [Runner -> SUBSET Source]
  /\ digest \in [Runner -> Version \cup {None}]
  /\ loaded \in [Runner -> ChunkSets \cup {None}]
  /\ at \in [Runner -> 1 .. Stores]
  /\ listed \subseteq Source
  /\ upload \in Uploads \cup {None}
  /\ ids \in Nat
  /\ spent \in [{"edits", "faults", "crashes", "uploads"} -> Nat]

Init ==
  /\ disk \in [Source -> Version \cup {None}]
  /\ manifest = [s \in Source |-> None]
  /\ chunks = [k \in 1 .. Stores |-> [s \in Source |-> {}]]
  /\ lock = None
  /\ pc = [r \in Runner |-> "idle"]
  /\ todo = [r \in Runner |-> {}]
  /\ digest = [r \in Runner |-> None]
  /\ loaded = [r \in Runner |-> None]
  /\ at = [r \in Runner |-> 1]
  /\ listed = {}
  /\ upload = None
  /\ ids = 0
  /\ spent = [what \in {"edits", "faults", "crashes", "uploads"} |-> 0]

Goto(r, label) == pc' = [pc EXCEPT ![r] = label]

Spend(what, bound) ==
  /\ spent[what] < bound
  /\ spent' = [spent EXCEPT ![what] = @ + 1]

\* The file the scan of r is at.
At(r, s) == s \in todo[r] /\ \A u \in todo[r] : s <= u

\* The loop goes on to the next file, and forgets this one.
NextFile(r, s) ==
  /\ todo' = [todo EXCEPT ![r] = @ \ {s}]
  /\ digest' = [digest EXCEPT ![r] = None]
  /\ loaded' = [loaded EXCEPT ![r] = None]
  /\ at' = [at EXCEPT ![r] = 1]
  /\ Goto(r, "scan")
  /\ UNCHANGED lock

\* The for loop over the backends: the next one, or what follows the last.
NextBackend(r, label) ==
  IF at[r] < Stores
  THEN at' = [at EXCEPT ![r] = @ + 1] /\ UNCHANGED pc
  ELSE at' = [at EXCEPT ![r] = 1] /\ Goto(r, label)

-----------------------------------------------------------------------------
(* run_once. *)

\* Mutated: the lock is not looked at.
StartUnlocked(r) ==
  /\ pc[r] = "idle"
  /\ lock' = r
  /\ todo' = [todo EXCEPT ![r] = {s \in Source : disk[s] # None}]
  /\ Goto(r, "scan")
  /\ UNCHANGED <<stored, digest, loaded, at, listed, upload, ids, spent>>

\* The lock is free: list the tree.  Otherwise run_once returns "busy" at once
\* and nothing changes, as when the path is not a directory.
Start(r) ==
  /\ pc[r] = "idle"
  /\ lock = None
  /\ lock' = r
  /\ todo' = [todo EXCEPT ![r] = {s \in Source : disk[s] # None}]
  /\ Goto(r, "scan")
  /\ UNCHANGED <<stored, digest, loaded, at, listed, upload, ids, spent>>

Hash(r, s) ==
  /\ pc[r] = "scan"
  /\ At(r, s)
  /\ disk[s] # None
  /\ digest' = [digest EXCEPT ![r] = disk[s]]
  /\ Goto(r, "check")
  /\ UNCHANGED <<stored, lock, todo, loaded, at, listed, upload, ids, spent>>

\* Not a file any more: it is passed over.
Gone(r, s) ==
  /\ pc[r] = "scan"
  /\ At(r, s)
  /\ disk[s] = None
  /\ NextFile(r, s)
  /\ UNCHANGED <<stored, listed, upload, ids, spent>>

\* Mutated: a replaced file's old chunks are kept.
CheckNoDelete(r, s) ==
  /\ pc[r] = "check"
  /\ At(r, s)
  /\ manifest[s] # digest[r]
  /\ Goto(r, "load")
  /\ UNCHANGED <<stored, lock, todo, digest, loaded, at, listed, upload, ids, spent>>

\* The hash is not the recorded one: replace, or ingest for the first time.
CheckChanged(r, s) ==
  /\ pc[r] = "check"
  /\ At(r, s)
  /\ manifest[s] # digest[r]
  /\ Goto(r, IF manifest[s] # None THEN "delete" ELSE "load")
  /\ UNCHANGED <<stored, lock, todo, digest, loaded, at, listed, upload, ids, spent>>

CheckUnchanged(r, s) ==
  /\ pc[r] = "check"
  /\ At(r, s)
  /\ manifest[s] = digest[r]
  /\ NextFile(r, s)
  /\ UNCHANGED <<stored, listed, upload, ids, spent>>

\* delete_by_source takes every chunk of the source, whoever put it there.
Delete(r, s) ==
  /\ pc[r] = "delete"
  /\ At(r, s)
  /\ chunks' = [chunks EXCEPT ![at[r]][s] = {}]
  /\ NextBackend(r, "load")
  /\ UNCHANGED <<disk, manifest, lock, todo, digest, loaded, listed, upload, ids, spent>>

\* load_pages reads the file again: what is chunked need not be what was hashed.
Load(r, s) ==
  /\ pc[r] = "load"
  /\ At(r, s)
  /\ disk[s] # None
  /\ ids' = ids + 1
  /\ loaded' = [loaded EXCEPT ![r] =
                  [id |-> ids, version |-> disk[s], origin |-> "scan"]]
  /\ Goto(r, "upsert")
  /\ UNCHANGED <<stored, lock, todo, digest, at, listed, upload, spent>>

Upsert(r, s) ==
  /\ pc[r] = "upsert"
  /\ At(r, s)
  /\ chunks' = [chunks EXCEPT ![at[r]][s] = @ \cup {loaded[r]}]
  /\ NextBackend(r, "commit")
  /\ UNCHANGED <<disk, manifest, lock, todo, digest, loaded, listed, upload, ids, spent>>

\* Mutated: the manifest records what is on disk when the file is done.
CommitCurrent(r, s) ==
  /\ pc[r] = "commit"
  /\ At(r, s)
  /\ disk[s] # None
  /\ manifest' = [manifest EXCEPT ![s] = disk[s]]
  /\ NextFile(r, s)
  /\ UNCHANGED <<disk, chunks, listed, upload, ids, spent>>

\* The hash taken at the start is recorded (stat() wants the file to be there).
Commit(r, s) ==
  /\ pc[r] = "commit"
  /\ At(r, s)
  /\ disk[s] # None
  /\ manifest' = [manifest EXCEPT ![s] = digest[r]]
  /\ NextFile(r, s)
  /\ UNCHANGED <<disk, chunks, listed, upload, ids, spent>>

\* Mutated: a file that failed is recorded as done.
FailRecorded(r, s) ==
  /\ At(r, s)
  /\ manifest' = [manifest EXCEPT ![s] = digest[r]]
  /\ listed' = listed \cup {s}
  /\ NextFile(r, s)
  /\ UNCHANGED <<disk, chunks, upload, ids>>

\* except Exception: the file is put in the list of failures and the scan goes
\* on.  What it has deleted or stored so far stays as it is.
Fail(r, s) ==
  /\ At(r, s)
  /\ listed' = listed \cup {s}
  /\ NextFile(r, s)
  /\ UNCHANGED <<stored, upload, ids>>

\* The file is gone when it is opened or asked for its size.
Vanished(r, s) ==
  /\ pc[r] \in {"scan", "load", "commit"}
  /\ disk[s] = None
  /\ Fail(r, s)
  /\ UNCHANGED spent

\* Any other call of the loop's body raises.
Fault(r, s) ==
  /\ pc[r] \in {"check", "delete", "load", "upsert", "commit"}
  /\ Spend("faults", MaxFaults)
  /\ Fail(r, s)

End(r) ==
  /\ pc[r] = "scan"
  /\ todo[r] = {}
  /\ lock' = None
  /\ Goto(r, "idle")
  /\ UNCHANGED <<stored, todo, digest, loaded, at, listed, upload, ids, spent>>

-----------------------------------------------------------------------------
(* Around it. *)

\* The process dies and comes back with nothing but what is persistent.
Crash ==
  /\ lock # None \/ upload # None
  /\ Spend("crashes", MaxCrashes)
  /\ lock' = None
  /\ pc' = [r \in Runner |-> "idle"]
  /\ todo' = [r \in Runner |-> {}]
  /\ digest' = [r \in Runner |-> None]
  /\ loaded' = [r \in Runner |-> None]
  /\ at' = [r \in Runner |-> 1]
  /\ upload' = None
  /\ UNCHANGED <<stored, listed, ids>>

\* A file appears, is rewritten or is removed.  Nothing ever looks for removals.
EditFile(s) ==
  /\ Spend("edits", MaxEdits)
  /\ \E v \in Version \cup {None} :
       <<disk[s], v>> \in Edits /\ disk' = [disk EXCEPT ![s] = v]
  /\ UNCHANGED <<manifest, chunks, scanVars, upload, ids>>

\* The admin endpoint ingests an upload under its file name, which may be the
\* source key of a scanned file.  It takes no lock, deletes nothing and leaves
\* the manifest alone.
Upload(s, v) ==
  /\ upload = None
  /\ Spend("uploads", MaxUploads)
  /\ upload' = [source |-> s, at |-> 1,
                 chunks |-> [id |-> ids, version |-> v, origin |-> "upload"]]
  /\ ids' = ids + 1
  /\ UNCHANGED <<stored, scanVars>>

UploadUpsert ==
  /\ upload # None
  /\ chunks' = [chunks EXCEPT ![upload.at][upload.source] = @ \cup {upload.chunks}]
  /\ upload' = IF upload.at < Stores THEN [upload EXCEPT !.at = @ + 1] ELSE None
  /\ UNCHANGED <<disk, manifest, scanVars, ids, spent>>

\* A backend raises: the request fails and leaves the earlier backends as they are.
UploadFault ==
  /\ upload # None
  /\ Spend("faults", MaxFaults)
  /\ upload' = None
  /\ UNCHANGED <<stored, scanVars, ids>>

FileStep(r, s) ==
  \/ Hash(r, s)
  \/ Gone(r, s)
  \/ CheckChanged(r, s)
  \/ CheckUnchanged(r, s)
  \/ Delete(r, s)
  \/ Load(r, s)
  \/ Upsert(r, s)
  \/ Commit(r, s)
  \/ Vanished(r, s)

RunStep(r) == End(r) \/ \E s \in Source : FileStep(r, s)

Next ==
  \/ \E r \in Runner : Start(r) \/ RunStep(r) \/ \E s \in Source : Fault(r, s)
  \/ Crash
  \/ \E s \in Source : EditFile(s) \/ \E v \in Version : Upload(s, v)
  \/ UploadUpsert \/ UploadFault

Spec == Init /\ [][Next]_vars

\* A scan that runs goes on, and some runner (the scheduler's, at the latest)
\* starts another one when none is running.
FairSpec ==
  /\ Spec
  /\ \A r \in Runner : WF_vars(RunStep(r))
  /\ WF_vars(\E r \in Runner : Start(r))

-----------------------------------------------------------------------------
(* Properties. *)

\* The sets of chunks of s that scans have put in backend k.
Scanned(k, s) == {c \in chunks[k][s] : c.origin = "scan"}

Versions(k, s) == {c.version : c \in Scanned(k, s)}

\* Nothing goes wrong unseen.  Between runs, a source that no run has ever
\* listed as failed has exactly one set of chunks, the same in every backend,
\* when it is in the manifest, and none otherwise: the lock keeps overlapping
\* runs from storing a file twice, and a file rewritten under the scan is
\* replaced by the next one.  (A crash lists nothing.)
UnlistedIsIngestedOnce ==
  lock = None /\ spent.crashes = 0 =>
    \A s \in Source \ listed : \A k \in 1 .. Stores :
      /\ Scanned(k, s) = Scanned(1, s)
      /\ Cardinality(Scanned(k, s)) = IF manifest[s] = None THEN 0 ELSE 1

\* Stores, manifest and runs are well-formed, and what went well is stored once.
IngestInv == TypeOK /\ UnlistedIsIngestedOnce

\* However often a replacement fails or the process dies in it, the chunks of a
\* source that has a manifest entry do not pile up: a scan leaves a part of the
\* sets that were there, or a single one.
RecordedNeverMultiplies ==
  [][\A k \in 1 .. Stores : \A s \in Source : manifest[s] # None =>
       \/ Cardinality(Scanned(k, s)') <= 1
       \/ Scanned(k, s)' \subseteq Scanned(k, s)]_vars

\* A file whose manifest entry is up to date, which every later scan skips, has
\* its chunks in every backend, whatever failed before.  It takes that a content
\* never comes back (Edits): see IngestRestored.cfg for files that are restored.
SkippedIsStored ==
  \A s \in Source : disk[s] # None /\ manifest[s] = disk[s] =>
    \A k \in 1 .. Stores : disk[s] \in Versions(k, s)

\* Each change of a file reaches every backend in the end, even one made between
\* the hash and the load, and after failures and crashes too; and nothing else
\* is left of the source, unless a failure or a crash left it behind.
Converges ==
  <>[](\A s \in Source : disk[s] # None =>
         \A k \in 1 .. Stores :
           /\ disk[s] \in Versions(k, s)
           /\ s \notin listed /\ spent.crashes = 0 => Versions(k, s) = {disk[s]})

-----------------------------------------------------------------------------
(* What the documentation of the code says and the code does not do. *)

\* scheduler.py:11-12: "unchanged files are hash-skipped, so it never
\* duplicates content".  The scans store no version of a file twice.
NeverDuplicates ==
  \A k \in 1 .. Stores : \A s \in Source : \A c, d \in Scanned(k, s) :
    c.version = d.version => c = d

\* ingestion/models.py:30: a FileState is "the last-ingested fingerprint of one
\* file": of a file that still has that fingerprint, between runs, there is
\* something in the store, be it of another version (an edit between the hash and
\* the load that is undone).
RecordedIsStored ==
  lock = None =>
    \A s \in Source : disk[s] # None /\ manifest[s] = disk[s] => Versions(1, s) # {}
=============================================================================
