--------------------------- MODULE IngestionProofs ---------------------------
(***************************************************************************)
(* What is proved of the way into the index: the scans of the ingestion    *)
(* service (Ingestion), for any files, histories, runners, backends and    *)
(* bounds; and the way of one document from its file to its chunks         *)
(* (Documents), for any document and any settings of the chunking.         *)
(***************************************************************************)
EXTENDS Ingestion, Documents, SubsequenceProofs

-----------------------------------------------------------------------------
(* The scans: the inductive invariant *)

Replacing == {"delete", "load", "upsert", "commit"}

\* Only the holder of the lock is in a scan, and what it holds is what its place in
\* the loop needs.
Shape ==
  /\ \A r \in Runner : pc[r] # "idle" => lock = r
  /\ \A r \in Runner : pc[r] \in Replacing \cup {"check"} => digest[r] \in Version
  /\ \A r \in Runner : pc[r] \in {"upsert", "commit"} =>
       loaded[r] \in ChunkSets /\ loaded[r].origin = "scan"
  /\ \A r \in Runner : pc[r] \notin {"delete", "upsert"} => at[r] = 1
  /\ upload # None => upload \in Uploads /\ upload.chunks.origin = "upload"

\* No failure and no crash has touched s.
Clean(s) == spent.crashes = 0 /\ s \notin listed

\* The backends as the replacement of s by r leaves them step by step.
InPlace(r, s) ==
  /\ pc[r] = "delete" => \A k \in 1 .. Stores : k < at[r] => Scanned(k, s) = {}
  /\ pc[r] = "load" => \A k \in 1 .. Stores : Scanned(k, s) = {}
  /\ pc[r] = "upsert" => \A k \in 1 .. Stores :
       Scanned(k, s) = IF k < at[r] THEN {loaded[r]} ELSE {}
  /\ pc[r] = "commit" => \A k \in 1 .. Stores : Scanned(k, s) = {loaded[r]}

\* A first ingest of a source with a past is the one that piles up.
ReplacesWhole ==
  \A r \in Runner, s \in Source :
    At(r, s) /\ (manifest[s] # None \/ Clean(s)) => InPlace(r, s)

Once(s) ==
  /\ manifest[s] = None => \A k \in 1 .. Stores : Scanned(k, s) = {}
  /\ manifest[s] # None => \E c \in ChunkSets : \A k \in 1 .. Stores : Scanned(k, s) = {c}

InHand(s) == \E r \in Runner : At(r, s) /\ pc[r] \in Replacing

CleanIsOnce == \A s \in Source : Clean(s) /\ ~InHand(s) => Once(s)

IInv == TypeOK /\ Shape /\ ReplacesWhole /\ CleanIsOnce

USE IngestionAssumption DEF Origins, Replacing

-----------------------------------------------------------------------------
(* Lemmas. *)

\* A scan is at one file.
LEMMA AtOne ==
  ASSUME TypeOK, NEW r \in Runner, NEW s \in Source, NEW u \in Source, At(r, s), At(r, u)
  PROVE  s = u
<1>1. s \in Nat /\ u \in Nat /\ s <= u /\ u <= s
  BY DEF At
<1> QED
  BY <1>1

\* One backend gets one more set of chunks of one source, or loses those it has.
LEMMA GrownTyped ==
  ASSUME NEW c \in [1 .. Stores -> [Source -> SUBSET ChunkSets]], NEW k \in 1 .. Stores,
         NEW s \in Source, NEW new \in ChunkSets
  PROVE  [c EXCEPT ![k][s] = @ \cup {new}] \in [1 .. Stores -> [Source -> SUBSET ChunkSets]]
<1>1. c[k] \in [Source -> SUBSET ChunkSets] /\ c[k][s] \cup {new} \in SUBSET ChunkSets
  OBVIOUS
<1>2. [c[k] EXCEPT ![s] = @ \cup {new}] \in [Source -> SUBSET ChunkSets]
  BY <1>1
<1> QED
  BY <1>2

LEMMA GrownThere ==
  ASSUME NEW c \in [1 .. Stores -> [Source -> SUBSET ChunkSets]], NEW k \in 1 .. Stores,
         NEW s \in Source, NEW new, NEW d, d = [c EXCEPT ![k][s] = @ \cup {new}]
  PROVE  /\ d[k][s] = c[k][s] \cup {new}
         /\ \A m \in 1 .. Stores, u \in Source : ~ (m = k /\ u = s) => d[m][u] = c[m][u]
<1>1. d[k] = [c[k] EXCEPT ![s] = @ \cup {new}] /\ \A m \in 1 .. Stores : m # k => d[m] = c[m]
  OBVIOUS
<1>2. DOMAIN c[k] = Source
  OBVIOUS
<1> QED
  BY <1>1, <1>2

LEMMA EmptiedTyped ==
  ASSUME NEW c \in [1 .. Stores -> [Source -> SUBSET ChunkSets]], NEW k \in 1 .. Stores,
         NEW s \in Source
  PROVE  [c EXCEPT ![k][s] = {}] \in [1 .. Stores -> [Source -> SUBSET ChunkSets]]
<1>1. [c[k] EXCEPT ![s] = {}] \in [Source -> SUBSET ChunkSets]
  OBVIOUS
<1> QED
  BY <1>1

LEMMA AnotherBackend == ASSUME NEW k \in 1 .. Stores, k < Stores PROVE k + 1 \in 1 .. Stores
OBVIOUS

LEMMA SpendTyped ==
  ASSUME NEW what \in {"edits", "faults", "crashes", "uploads"}, NEW bound, Spend(what, bound),
         spent \in [{"edits", "faults", "crashes", "uploads"} -> Nat]
  PROVE  spent' \in [{"edits", "faults", "crashes", "uploads"} -> Nat]
BY DEF Spend

\* An upload goes on to another backend.
LEMMA UploadGoesOn ==
  \A u \in Uploads, k \in 1 .. Stores :
    [u EXCEPT !.at = k] \in Uploads /\ [u EXCEPT !.at = k].chunks = u.chunks
BY Zenon DEF Uploads

\* A loop over the backends stays among them, and only its end moves the runner on.
LEMMA BackendsBounded ==
  ASSUME TypeOK, NEW r \in Runner, NEW label \in {"load", "commit"}, NextBackend(r, label)
  PROVE  /\ at' \in [Runner -> 1 .. Stores]
         /\ pc' \in [Runner -> {"idle", "scan", "check", "delete", "load", "upsert", "commit"}]
         /\ pc' = pc \/ (pc' = [pc EXCEPT ![r] = label] /\ at' = [at EXCEPT ![r] = 1])
         /\ \A q \in Runner \ {r} : at'[q] = at[q]
<1>1. CASE at[r] < Stores
  <2>1. at[r] + 1 \in 1 .. Stores /\ at' = [at EXCEPT ![r] = at[r] + 1] /\ pc' = pc
    BY <1>1, AnotherBackend DEF NextBackend, TypeOK
  <2> QED
    BY <2>1 DEF TypeOK
<1>2. CASE ~(at[r] < Stores)
  <2>1. at' = [at EXCEPT ![r] = 1] /\ pc' = [pc EXCEPT ![r] = label]
    BY <1>2 DEF NextBackend, Goto
  <2> QED
    BY <2>1 DEF TypeOK
<1> QED
  BY <1>1, <1>2

\* It keeps what the loop needs: the chunks loaded, the hash, the lock.
LEMMA BackendsShape ==
  ASSUME TypeOK, Shape, NEW r \in Runner, NEW label \in {"load", "commit"},
         NextBackend(r, label), UNCHANGED <<lock, digest, loaded, upload>>,
         pc[r] = IF label = "load" THEN "delete" ELSE "upsert"
  PROVE  Shape'
<1>1. /\ \A q \in Runner \ {r} : pc'[q] = pc[q] /\ at'[q] = at[q]
      /\ pc'[r] = pc[r] \/ (pc'[r] = label /\ at'[r] = 1)
  <2>1. pc' = pc \/ (pc' = [pc EXCEPT ![r] = label] /\ at' = [at EXCEPT ![r] = 1])
    BY BackendsBounded
  <2>2. \A q \in Runner \ {r} : at'[q] = at[q]
    BY BackendsBounded
  <2>3. DOMAIN pc = Runner /\ DOMAIN at = Runner
    BY DEF TypeOK
  <2> QED
    BY <2>1, <2>2, <2>3
<1>2. lock = r /\ digest[r] \in Version
  BY Zenon DEF Shape
<1>3. \A q \in Runner : pc'[q] # "idle" => lock' = q
  BY <1>1, <1>2 DEF Shape
<1>4. \A q \in Runner : pc'[q] \in Replacing \cup {"check"} => digest'[q] \in Version
  BY <1>1, <1>2 DEF Shape
<1>5. \A q \in Runner : pc'[q] \in {"upsert", "commit"} =>
        loaded'[q] \in ChunkSets /\ loaded'[q].origin = "scan"
  BY <1>1 DEF Shape
<1>6. \A q \in Runner : pc'[q] \notin {"delete", "upsert"} => at'[q] = 1
  BY <1>1 DEF Shape
<1>7. upload' # None => upload' \in Uploads /\ upload'.chunks.origin = "upload"
  BY Zenon DEF Shape
<1> QED
  BY <1>3, <1>4, <1>5, <1>6, <1>7, Zenon DEF Shape

\* Going on to the next file keeps the runners' types.
LEMMA NextFileTyped ==
  ASSUME TypeOK, NEW r \in Runner, NEW s \in Source, NextFile(r, s)
  PROVE  /\ lock' \in Runner \cup {None}
         /\ pc' \in [Runner -> {"idle", "scan", "check", "delete", "load", "upsert", "commit"}]
         /\ todo' \in [Runner -> SUBSET Source]
         /\ digest' \in [Runner -> Version \cup {None}]
         /\ loaded' \in [Runner -> ChunkSets \cup {None}]
         /\ at' \in [Runner -> 1 .. Stores]
<1>1. lock' \in Runner \cup {None} /\ pc' = [pc EXCEPT ![r] = "scan"]
  BY DEF TypeOK, NextFile, Goto
<1>2. todo' \in [Runner -> SUBSET Source]
  BY DEF TypeOK, NextFile
<1>3. digest' \in [Runner -> Version \cup {None}] /\ loaded' \in [Runner -> ChunkSets \cup {None}]
  BY DEF TypeOK, NextFile
<1>4. at' \in [Runner -> 1 .. Stores]
  BY DEF TypeOK, NextFile
<1> QED
  BY <1>1, <1>2, <1>3, <1>4 DEF TypeOK

\* A runner that goes on to the next file holds nothing.
LEMMA NextFileShape ==
  ASSUME TypeOK, Shape, NEW r \in Runner, NEW s \in Source, pc[r] # "idle", NextFile(r, s),
         UNCHANGED upload
  PROVE  Shape'
<1>1. /\ lock' = lock /\ lock = r /\ pc'[r] = "scan" /\ at'[r] = 1
      /\ \A q \in Runner \ {r} : /\ pc'[q] = pc[q] /\ digest'[q] = digest[q]
                                /\ loaded'[q] = loaded[q] /\ at'[q] = at[q]
  BY DEF TypeOK, Shape, NextFile, Goto
<1> QED
  BY <1>1 DEF Shape

\* What the runners hold is as it was.
LEMMA QuietShape ==
  ASSUME Shape, UNCHANGED <<lock, pc, digest, loaded, at>>,
         upload' # None => upload' \in Uploads /\ upload'.chunks.origin = "upload"
  PROVE  Shape'
BY Zenon DEF Shape

\* A failure goes on to the next file.
LEMMA FailShape ==
  ASSUME TypeOK, Shape, NEW r \in Runner, NEW s \in Source, pc[r] # "idle", Fail(r, s),
         spent' \in [{"edits", "faults", "crashes", "uploads"} -> Nat]
  PROVE  TypeOK' /\ Shape'
<1>1. /\ NextFile(r, s) /\ listed' \subseteq Source
      /\ UNCHANGED <<disk, manifest, chunks, upload, ids>>
  BY DEF TypeOK, Fail, stored
<1>2. TypeOK'
  BY <1>1, NextFileTyped, Zenon DEF TypeOK
<1>3. Shape'
  BY <1>1, NextFileShape
<1> QED
  BY <1>2, <1>3

LEMMA UploadEnds == UploadUpsert /\ ~(upload.at < Stores) => upload' = None
BY Zenon DEF UploadUpsert

LEMMA InitEstablishes == Init => IInv
<1> SUFFICES ASSUME Init PROVE IInv
  OBVIOUS
<1>1. TypeOK /\ Shape
  BY DEF Init, TypeOK, Shape
<1>2. ReplacesWhole
  BY DEF Init, ReplacesWhole, InPlace
<1>3. CleanIsOnce
  BY DEF Init, CleanIsOnce, Once, Scanned
<1> QED
  BY <1>1, <1>2, <1>3 DEF IInv

\* Types and shape through a step of the loop over the files.
LEMMA FileStepShape ==
  ASSUME TypeOK, Shape, NEW r \in Runner, NEW s \in Source, FileStep(r, s)
  PROVE  TypeOK' /\ Shape'
<1> USE DEF Goto, NextFile, stored
<1>1. CASE Hash(r, s)
  <2>1. TypeOK'
    BY <1>1 DEF Hash, TypeOK
  <2>2. Shape'
    BY <1>1 DEF Hash, TypeOK, Shape
  <2> QED
    BY <2>1, <2>2
<1>2. CASE Gone(r, s)
  <2>1. /\ NextFile(r, s) /\ pc[r] # "idle"
        /\ UNCHANGED <<disk, chunks, listed, upload, ids, spent>>
    BY <1>2 DEF Gone
  <2>2. manifest' \in [Source -> Version \cup {None}]
    BY <1>2 DEF Gone, TypeOK
  <2>3. TypeOK'
    BY <2>1, <2>2, NextFileTyped, Zenon DEF TypeOK
  <2>4. Shape'
    BY <2>1, NextFileShape
  <2> QED
    BY <2>3, <2>4
<1>3. CASE CheckChanged(r, s)
  <2>1. TypeOK'
    BY <1>3 DEF CheckChanged, TypeOK
  <2>2. Shape'
    BY <1>3 DEF CheckChanged, TypeOK, Shape
  <2> QED
    BY <2>1, <2>2
<1>4. CASE CheckUnchanged(r, s)
  <2>1. /\ NextFile(r, s) /\ pc[r] # "idle"
        /\ UNCHANGED <<disk, chunks, listed, upload, ids, spent>>
    BY <1>4 DEF CheckUnchanged
  <2>2. manifest' \in [Source -> Version \cup {None}]
    BY <1>4 DEF CheckUnchanged, TypeOK
  <2>3. TypeOK'
    BY <2>1, <2>2, NextFileTyped, Zenon DEF TypeOK
  <2>4. Shape'
    BY <2>1, NextFileShape
  <2> QED
    BY <2>3, <2>4
<1>5. CASE Delete(r, s)
  <2>1. chunks' \in [1 .. Stores -> [Source -> SUBSET ChunkSets]]
    <3>1. chunks' = [chunks EXCEPT ![at[r]][s] = {}] /\ at[r] \in 1 .. Stores
      BY <1>5 DEF Delete, TypeOK
    <3> QED
      BY <3>1, EmptiedTyped DEF TypeOK
  <2>2. /\ NextBackend(r, "load") /\ pc[r] = "delete"
        /\ UNCHANGED <<disk, manifest, lock, todo, digest, loaded, listed, upload, ids, spent>>
    BY <1>5 DEF Delete
  <2>3. TypeOK'
    BY <2>1, <2>2, BackendsBounded DEF TypeOK
  <2>4. Shape'
    BY <2>2, BackendsShape
  <2> QED
    BY <2>3, <2>4
<1>6. CASE Load(r, s)
  <2>1. [id |-> ids, version |-> disk[s], origin |-> "scan"] \in ChunkSets
    BY <1>6 DEF Load, ChunkSets, TypeOK
  <2>2. TypeOK'
    <3>1. ids' \in Nat
      BY <1>6 DEF Load, TypeOK
    <3>2. loaded' \in [Runner -> ChunkSets \cup {None}]
      BY <1>6, <2>1 DEF Load, TypeOK
    <3>3. pc' \in [Runner -> {"idle", "scan", "check", "delete", "load", "upsert", "commit"}]
      BY <1>6 DEF Load, TypeOK
    <3>4. UNCHANGED <<disk, manifest, chunks, lock, todo, digest, at, listed, upload, spent>>
      BY <1>6 DEF Load
    <3> QED
      BY <3>1, <3>2, <3>3, <3>4, Zenon DEF TypeOK
  <2>3. Shape'
    BY <1>6, <2>1 DEF Load, TypeOK, Shape
  <2> QED
    BY <2>2, <2>3
<1>7. CASE Upsert(r, s)
  <2>1. chunks' \in [1 .. Stores -> [Source -> SUBSET ChunkSets]]
    <3>1. chunks' = [chunks EXCEPT ![at[r]][s] = @ \cup {loaded[r]}] /\ at[r] \in 1 .. Stores
      BY <1>7 DEF Upsert, TypeOK
    <3>2. loaded[r] \in ChunkSets
      BY <1>7 DEF Upsert, Shape
    <3> QED
      BY <3>1, <3>2, GrownTyped DEF TypeOK
  <2>2. /\ NextBackend(r, "commit") /\ pc[r] = "upsert"
        /\ UNCHANGED <<disk, manifest, lock, todo, digest, loaded, listed, upload, ids, spent>>
    BY <1>7 DEF Upsert
  <2>3. TypeOK'
    BY <2>1, <2>2, BackendsBounded DEF TypeOK
  <2>4. Shape'
    BY <2>2, BackendsShape
  <2> QED
    BY <2>3, <2>4
<1>8. CASE Commit(r, s)
  <2>1. /\ NextFile(r, s) /\ pc[r] # "idle"
        /\ UNCHANGED <<disk, chunks, listed, upload, ids, spent>>
    BY <1>8 DEF Commit
  <2>2. manifest' \in [Source -> Version \cup {None}]
    BY <1>8 DEF Commit, TypeOK, Shape
  <2>3. TypeOK'
    BY <2>1, <2>2, NextFileTyped, Zenon DEF TypeOK
  <2>4. Shape'
    BY <2>1, NextFileShape
  <2> QED
    BY <2>3, <2>4
<1>9. CASE Vanished(r, s)
  <2>1. spent' \in [{"edits", "faults", "crashes", "uploads"} -> Nat] /\ pc[r] # "idle"
    BY <1>9 DEF Vanished, TypeOK
  <2> QED
    BY <1>9, <2>1, FailShape DEF Vanished
<1> QED
  BY <1>1, <1>2, <1>3, <1>4, <1>5, <1>6, <1>7, <1>8, <1>9 DEF FileStep

\* Types and shape through every other step.
LEMMA OtherShape ==
  ASSUME TypeOK, Shape,
         \/ \E r \in Runner : Start(r) \/ End(r) \/ \E s \in Source : Fault(r, s)
         \/ Crash
         \/ \E s \in Source : EditFile(s) \/ \E v \in Version : Upload(s, v)
         \/ UploadUpsert \/ UploadFault
  PROVE  TypeOK' /\ Shape'
<1> USE DEF Goto, stored
<1>0. spent \in [{"edits", "faults", "crashes", "uploads"} -> Nat]
  BY DEF TypeOK
<1>1. ASSUME NEW r \in Runner, Start(r) PROVE TypeOK' /\ Shape'
  <2>1. TypeOK'
    BY <1>1 DEF Start, TypeOK
  <2>2. Shape'
    BY <1>1 DEF Start, TypeOK, Shape
  <2> QED
    BY <2>1, <2>2
<1>2. ASSUME NEW r \in Runner, End(r) PROVE TypeOK' /\ Shape'
  <2>1. TypeOK'
    BY <1>2 DEF End, TypeOK
  <2>2. Shape'
    BY <1>2 DEF End, TypeOK, Shape
  <2> QED
    BY <2>1, <2>2
<1>3. ASSUME NEW r \in Runner, NEW s \in Source, Fault(r, s) PROVE TypeOK' /\ Shape'
  <2>1. spent' \in [{"edits", "faults", "crashes", "uploads"} -> Nat]
    BY <1>0, <1>3, SpendTyped DEF Fault
  <2> QED
    BY <1>3, <2>1, FailShape DEF Fault
<1>4. CASE Crash
  <2>1. TypeOK'
    <3>1. spent' \in [{"edits", "faults", "crashes", "uploads"} -> Nat]
      BY <1>0, <1>4, SpendTyped DEF Crash
    <3>2. /\ lock' = None /\ upload' = None
          /\ UNCHANGED <<disk, manifest, chunks, listed, ids>>
      BY <1>4 DEF Crash
    <3>3. /\ pc' \in [Runner -> {"idle", "scan", "check", "delete", "load", "upsert", "commit"}]
          /\ todo' \in [Runner -> SUBSET Source]
          /\ digest' \in [Runner -> Version \cup {None}]
          /\ loaded' \in [Runner -> ChunkSets \cup {None}]
          /\ at' \in [Runner -> 1 .. Stores]
      BY <1>4 DEF Crash
    <3> QED
      BY <3>1, <3>2, <3>3, Zenon DEF TypeOK
  <2>2. \A r \in Runner : pc'[r] = "idle" /\ at'[r] = 1
    BY <1>4 DEF Crash
  <2>3. upload' = None
    BY <1>4 DEF Crash
  <2>4. Shape'
    BY <2>2, <2>3 DEF Shape
  <2> QED
    BY <2>1, <2>4
<1>5. ASSUME NEW s \in Source, EditFile(s) PROVE TypeOK' /\ Shape'
  <2>1. /\ disk' \in [Source -> Version \cup {None}]
        /\ spent' \in [{"edits", "faults", "crashes", "uploads"} -> Nat]
    BY <1>0, <1>5, SpendTyped DEF EditFile, TypeOK
  <2>2. UNCHANGED <<manifest, chunks, lock, pc, todo, digest, loaded, at, listed, upload, ids>>
    BY <1>5 DEF EditFile, scanVars
  <2>3. TypeOK'
    BY <2>1, <2>2, Zenon DEF TypeOK
  <2>4. Shape'
    BY <2>2, Zenon DEF Shape
  <2> QED
    BY <2>3, <2>4
<1>6. ASSUME NEW s \in Source, NEW v \in Version, Upload(s, v) PROVE TypeOK' /\ Shape'
  <2>1. [id |-> ids, version |-> v, origin |-> "upload"] \in ChunkSets
    BY DEF ChunkSets, TypeOK
  <2>2. upload' \in Uploads /\ upload'.chunks.origin = "upload"
    BY <1>6, <2>1 DEF Upload, Uploads
  <2>3. /\ UNCHANGED <<disk, manifest, chunks, lock, pc, todo, digest, loaded, at, listed>>
        /\ ids' \in Nat /\ spent' \in [{"edits", "faults", "crashes", "uploads"} -> Nat]
    <3>1. UNCHANGED <<disk, manifest, chunks, lock, pc, todo, digest, loaded, at, listed>>
      BY <1>6 DEF Upload, scanVars
    <3>2. ids' \in Nat
      BY <1>6 DEF Upload, TypeOK
    <3>3. spent' \in [{"edits", "faults", "crashes", "uploads"} -> Nat]
      BY <1>0, <1>6, SpendTyped DEF Upload
    <3> QED
      BY <3>1, <3>2, <3>3
  <2>4. TypeOK'
    BY <2>2, <2>3, Zenon DEF TypeOK
  <2>5. Shape'
    BY <2>2, <2>3, QuietShape
  <2> QED
    BY <2>4, <2>5
<1>7. CASE UploadUpsert
  <2>1. upload \in Uploads /\ upload.chunks \in ChunkSets /\ upload.at \in 1 .. Stores
    BY <1>7 DEF UploadUpsert, Uploads, TypeOK
  <2>2. chunks' \in [1 .. Stores -> [Source -> SUBSET ChunkSets]]
    <3>1. chunks' = [chunks EXCEPT ![upload.at][upload.source] = @ \cup {upload.chunks}]
      BY <1>7, Zenon DEF UploadUpsert
    <3>2. upload.source \in Source
      BY <2>1, Zenon DEF Uploads
    <3> QED
      BY <2>1, <3>1, <3>2, GrownTyped DEF TypeOK
  <2>3. upload' = None \/ (upload' \in Uploads /\ upload'.chunks.origin = "upload")
    <3>1. CASE upload.at < Stores
      <4>1. upload.at + 1 \in 1 .. Stores
        BY <2>1, <3>1, AnotherBackend
      <4>2. upload' = [upload EXCEPT !.at = upload.at + 1]
        BY <1>7, <3>1, Zenon DEF UploadUpsert
      <4>3. upload.chunks.origin = "upload"
        BY <1>7 DEF UploadUpsert, Shape
      <4> QED
        BY <2>1, <4>1, <4>2, <4>3, UploadGoesOn, Zenon
    <3>2. CASE ~(upload.at < Stores)
      BY <1>7, <3>2, UploadEnds
    <3> QED
      BY <3>1, <3>2
  <2>4. UNCHANGED <<disk, manifest, lock, pc, todo, digest, loaded, at, listed, ids, spent>>
    BY <1>7, Zenon DEF UploadUpsert, scanVars
  <2>5. TypeOK'
    BY <2>2, <2>3, <2>4, Zenon DEF TypeOK
  <2>6. Shape'
    BY <2>3, <2>4, QuietShape
  <2> QED
    BY <2>5, <2>6
<1>8. CASE UploadFault
  <2>1. UNCHANGED <<disk, manifest, chunks, lock, pc, todo, digest, loaded, at, listed, ids>>
    BY <1>8 DEF UploadFault, scanVars
  <2>2. upload' = None /\ spent' \in [{"edits", "faults", "crashes", "uploads"} -> Nat]
    BY <1>0, <1>8, SpendTyped DEF UploadFault
  <2>3. TypeOK'
    BY <2>1, <2>2, Zenon DEF TypeOK
  <2>4. Shape'
    BY <2>1, <2>2, QuietShape
  <2> QED
    BY <2>3, <2>4
<1> QED
  BY <1>1, <1>2, <1>3, <1>4, <1>5, <1>6, <1>7, <1>8

-----------------------------------------------------------------------------
(* What is in place, step by step. *)

\* The two facts about the chunks.
Placed == ReplacesWhole /\ CleanIsOnce

\* Only the backends' chunks matter.
LEMMA ScannedSame ==
  ASSUME UNCHANGED chunks
  PROVE  \A k \in 1 .. Stores, s \in Source : UNCHANGED Scanned(k, s)
BY DEF Scanned

\* Nobody else replaces anything.
LEMMA OneScans ==
  ASSUME Shape, NEW r \in Runner, pc[r] # "idle", NEW q \in Runner, q # r
  PROVE  pc[q] = "idle"
BY DEF Shape

\* Steps that are not the scan's.
LEMMA QuietKeeps ==
  ASSUME IInv, UNCHANGED <<manifest, scanVars, spent.crashes>>,
         \A k \in 1 .. Stores, s \in Source : UNCHANGED Scanned(k, s)
  PROVE  Placed'
<1>1. UNCHANGED <<manifest, pc, todo, loaded, at, listed, spent.crashes>>
  BY DEF scanVars
<1>2. ASSUME NEW r \in Runner, NEW s \in Source, At(r, s)', (manifest[s] # None \/ Clean(s))'
      PROVE  InPlace(r, s)'
  <2>1. At(r, s) /\ (manifest[s] # None \/ Clean(s))
    BY <1>1, <1>2 DEF At, Clean
  <2>2. InPlace(r, s)
    BY <2>1 DEF IInv, ReplacesWhole
  <2> QED
    BY <1>1, <2>2 DEF InPlace
<1>3. ASSUME NEW s \in Source, Clean(s)', ~InHand(s)' PROVE Once(s)'
  <2>1. Clean(s) /\ ~InHand(s)
    BY <1>1, <1>3 DEF Clean, InHand, At
  <2>2. Once(s)
    BY <2>1 DEF IInv, CleanIsOnce
  <2> QED
    BY <1>1, <2>2 DEF Once
<1> QED
  BY <1>2, <1>3 DEF Placed, ReplacesWhole, CleanIsOnce

\* Steps between files.
LEMMA BetweenKeeps ==
  ASSUME IInv, UNCHANGED <<chunks, manifest, listed, spent>>,
         \A q \in Runner : pc[q] \notin Replacing /\ pc'[q] \notin Replacing
  PROVE  Placed'
<1>1. ReplacesWhole'
  BY DEF ReplacesWhole, InPlace
<1>2. CleanIsOnce'
  BY ScannedSame DEF IInv, CleanIsOnce, Clean, InHand, Once
<1> QED
  BY <1>1, <1>2 DEF Placed

\* What is not at hand stays as it is.
LEMMA ElsewhereKeeps ==
  ASSUME IInv, NEW r \in Runner, NEW s \in Source, pc[r] # "idle", At(r, s),
         NEW u \in Source, u # s, Clean(u), manifest'[u] = manifest[u],
         \A k \in 1 .. Stores : UNCHANGED Scanned(k, u)
  PROVE  Once(u)'
<1>1. ~InHand(u)
  BY AtOne, OneScans DEF IInv, InHand
<1>2. Once(u)
  BY <1>1 DEF IInv, CleanIsOnce
<1> QED
  BY <1>2 DEF Once

\* A step of the replacement of s.
LEMMA ReplacingKeeps ==
  ASSUME IInv, NEW r \in Runner, NEW s \in Source, pc[r] # "idle", At(r, s),
         pc'[r] \in Replacing, \A q \in Runner : q # r => pc'[q] = pc[q],
         UNCHANGED <<todo, manifest, listed, spent>>,
         \A k \in 1 .. Stores, u \in Source : u # s => UNCHANGED Scanned(k, u),
         manifest[s] # None \/ Clean(s) => InPlace(r, s)'
  PROVE  Placed'
<1>1. ASSUME NEW q \in Runner, NEW u \in Source, At(q, u)', (manifest[u] # None \/ Clean(u))'
      PROVE  InPlace(q, u)'
  <2>1. CASE q = r
    <3>1. At(r, u)
      BY <1>1, <2>1 DEF At
    <3>2. u = s
      BY <3>1, AtOne DEF IInv
    <3> QED
      BY <1>1, <2>1, <3>2 DEF Clean
  <2>2. CASE q # r
    BY <2>2, OneScans DEF IInv, InPlace
  <2> QED
    BY <2>1, <2>2
<1>2. ASSUME NEW u \in Source, Clean(u)', ~InHand(u)' PROVE Once(u)'
  <2>1. u # s
    BY <1>2 DEF InHand, At
  <2>2. Clean(u)
    BY <1>2 DEF Clean
  <2> QED
    BY <2>1, <2>2, ElsewhereKeeps
<1> QED
  BY <1>1, <1>2 DEF Placed, ReplacesWhole, CleanIsOnce

\* A step that leaves the file s.
LEMMA LeavingKeeps ==
  ASSUME IInv, NEW r \in Runner, NEW s \in Source, pc[r] # "idle", At(r, s), NextFile(r, s),
         listed \subseteq listed', UNCHANGED <<chunks, spent.crashes>>,
         \A u \in Source : u # s => manifest'[u] = manifest[u],
         Clean(s)' => Once(s)'
  PROVE  Placed'
<1>1. pc'[r] = "scan" /\ \A q \in Runner : q # r => pc'[q] = "idle"
  BY OneScans DEF NextFile, Goto, IInv, TypeOK
<1>2. ReplacesWhole'
  BY <1>1 DEF ReplacesWhole, InPlace
<1>3. ASSUME NEW u \in Source, u # s, Clean(u)' PROVE Once(u)'
  BY <1>3, ScannedSame, ElsewhereKeeps DEF Clean
<1> QED
  BY <1>2, <1>3 DEF Placed, CleanIsOnce

\* Of a source that is not at hand, at its check.
LEMMA OnceBefore ==
  ASSUME IInv, NEW r \in Runner, NEW s \in Source, pc[r] \in {"scan", "check"}, At(r, s), Clean(s)
  PROVE  Once(s)
<1>1. ~InHand(s)
  BY OneScans DEF InHand, IInv
<1> QED
  BY <1>1 DEF IInv, CleanIsOnce

\* The chunks after a delete and after an upsert.
LEMMA DeleteScanned ==
  ASSUME TypeOK, NEW r \in Runner, NEW s \in Source, Delete(r, s)
  PROVE  /\ \A k \in 1 .. Stores, u \in Source : u # s => UNCHANGED Scanned(k, u)
         /\ \A k \in 1 .. Stores : Scanned(k, s)' = IF k = at[r] THEN {} ELSE Scanned(k, s)
BY DEF TypeOK, Delete, Scanned

LEMMA UpsertScanned ==
  ASSUME TypeOK, Shape, NEW r \in Runner, NEW s \in Source, Upsert(r, s)
  PROVE  /\ \A k \in 1 .. Stores, u \in Source : u # s => UNCHANGED Scanned(k, u)
         /\ \A k \in 1 .. Stores :
              Scanned(k, s)' = IF k = at[r] THEN Scanned(k, s) \cup {loaded[r]} ELSE Scanned(k, s)
<1>1. loaded[r].origin = "scan" /\ at[r] \in 1 .. Stores
  BY DEF Shape, Upsert, TypeOK
<1>2. /\ chunks'[at[r]][s] = chunks[at[r]][s] \cup {loaded[r]}
      /\ \A k \in 1 .. Stores, u \in Source :
           ~ (k = at[r] /\ u = s) => chunks'[k][u] = chunks[k][u]
  <2>1. chunks' = [chunks EXCEPT ![at[r]][s] = @ \cup {loaded[r]}]
    BY Zenon DEF Upsert
  <2>2. chunks \in [1 .. Stores -> [Source -> SUBSET ChunkSets]]
    BY DEF TypeOK
  <2> QED
    BY <1>1, <2>1, <2>2, GrownThere
<1>3. \A k \in 1 .. Stores, u \in Source : ~ (k = at[r] /\ u = s) => UNCHANGED Scanned(k, u)
  BY <1>2 DEF Scanned
<1>4. \A k \in 1 .. Stores :
        k = at[r] => Scanned(k, s)' = Scanned(k, s) \cup {loaded[r]}
  BY <1>1, <1>2 DEF Scanned
<1> QED
  BY <1>1, <1>3, <1>4

\* The loop over the backends, and what comes after.
LEMMA Backends ==
  ASSUME TypeOK, NEW r \in Runner, NEW label, NextBackend(r, label)
  PROVE  /\ at[r] < Stores => at'[r] = at[r] + 1 /\ pc' = pc
         /\ ~(at[r] < Stores) => at'[r] = 1 /\ at[r] = Stores /\ pc'[r] = label
         /\ \A q \in Runner : q # r => pc'[q] = pc[q]
         /\ at[r] \in 1 .. Stores
BY DEF TypeOK, NextBackend, Goto

LEMMA DeleteKeeps ==
  ASSUME IInv, NEW r \in Runner, NEW s \in Source, Delete(r, s)
  PROVE  Placed'
<1>1. TypeOK /\ Shape /\ At(r, s) /\ pc[r] = "delete" /\ NextBackend(r, "load")
  BY DEF IInv, Delete
<1>2. (manifest[s] # None \/ Clean(s)) => InPlace(r, s)
  BY <1>1 DEF IInv, ReplacesWhole
<1>3. ASSUME manifest[s] # None \/ Clean(s) PROVE InPlace(r, s)'
  <2>1. \A k \in 1 .. Stores : k <= at[r] => Scanned(k, s)' = {}
    BY <1>1, <1>2, <1>3, DeleteScanned, Backends DEF InPlace
  <2>2. CASE at[r] < Stores
    BY <1>1, <2>1, <2>2, Backends DEF InPlace
  <2>3. CASE ~(at[r] < Stores)
    BY <1>1, <2>1, <2>3, Backends DEF InPlace
  <2> QED
    BY <2>2, <2>3
<1>4. pc'[r] \in Replacing
  BY <1>1, Backends
<1>5. UNCHANGED <<todo, manifest, listed, spent>>
  BY DEF Delete
<1> QED
  BY <1>1, <1>3, <1>4, <1>5, DeleteScanned, Backends, ReplacingKeeps

LEMMA UpsertKeeps ==
  ASSUME IInv, NEW r \in Runner, NEW s \in Source, Upsert(r, s)
  PROVE  Placed'
<1>1. TypeOK /\ Shape /\ At(r, s) /\ pc[r] = "upsert" /\ NextBackend(r, "commit")
  BY DEF IInv, Upsert
<1>2. (manifest[s] # None \/ Clean(s)) => InPlace(r, s)
  BY <1>1 DEF IInv, ReplacesWhole
<1>3. ASSUME manifest[s] # None \/ Clean(s) PROVE InPlace(r, s)'
  <2>1. \A k \in 1 .. Stores : Scanned(k, s)' = IF k <= at[r] THEN {loaded[r]} ELSE {}
    BY <1>1, <1>2, <1>3, UpsertScanned, Backends DEF InPlace
  <2>2. loaded' = loaded
    BY DEF Upsert
  <2>3. CASE at[r] < Stores
    BY <1>1, <2>1, <2>2, <2>3, Backends DEF InPlace
  <2>4. CASE ~(at[r] < Stores)
    BY <1>1, <2>1, <2>2, <2>4, Backends DEF InPlace
  <2> QED
    BY <2>3, <2>4
<1>4. pc'[r] \in Replacing
  BY <1>1, Backends
<1>5. UNCHANGED <<todo, manifest, listed, spent>>
  BY DEF Upsert
<1> QED
  BY <1>1, <1>3, <1>4, <1>5, UpsertScanned, Backends, ReplacingKeeps

\* The replacement begins: there is something to delete, or nothing at all.
LEMMA CheckKeeps ==
  ASSUME IInv, NEW r \in Runner, NEW s \in Source, CheckChanged(r, s)
  PROVE  Placed'
<1>1. /\ TypeOK /\ Shape /\ At(r, s) /\ pc[r] = "check" /\ at[r] = 1
      /\ pc'[r] = (IF manifest[s] # None THEN "delete" ELSE "load")
      /\ \A q \in Runner : q # r => pc'[q] = pc[q]
      /\ UNCHANGED <<chunks, todo, at, manifest, listed, spent>>
  BY DEF IInv, CheckChanged, Goto, stored, TypeOK, Shape
<1>2. CASE manifest[s] # None
  <2>1. InPlace(r, s)'
    BY <1>1, <1>2 DEF InPlace
  <2> QED
    BY <1>1, <1>2, <2>1, ScannedSame, ReplacingKeeps
<1>3. CASE manifest[s] = None
  <2>1. ASSUME Clean(s) PROVE InPlace(r, s)'
    <3>1. Once(s)
      BY <1>1, <2>1, OnceBefore
    <3> QED
      BY <1>1, <1>3, <3>1, ScannedSame DEF InPlace, Once
  <2> QED
    BY <1>1, <1>3, <2>1, ScannedSame, ReplacingKeeps
<1> QED
  BY <1>2, <1>3

LEMMA LoadKeeps ==
  ASSUME IInv, NEW r \in Runner, NEW s \in Source, Load(r, s)
  PROVE  Placed'
<1>1. /\ TypeOK /\ Shape /\ At(r, s) /\ pc[r] = "load" /\ at[r] = 1 /\ pc'[r] = "upsert"
      /\ \A q \in Runner : q # r => pc'[q] = pc[q]
      /\ UNCHANGED <<chunks, todo, at, manifest, listed, spent>>
  BY DEF IInv, Load, Goto, stored, TypeOK, Shape
<1>2. ASSUME manifest[s] # None \/ Clean(s) PROVE InPlace(r, s)'
  <2>1. InPlace(r, s)
    BY <1>1, <1>2 DEF IInv, ReplacesWhole
  <2> QED
    BY <1>1, <2>1, ScannedSame DEF InPlace
<1> QED
  BY <1>1, <1>2, ScannedSame, ReplacingKeeps

LEMMA CommitKeeps ==
  ASSUME IInv, NEW r \in Runner, NEW s \in Source, Commit(r, s)
  PROVE  Placed'
<1>1. /\ TypeOK /\ Shape /\ At(r, s) /\ pc[r] = "commit" /\ NextFile(r, s)
      /\ UNCHANGED <<chunks, listed, spent>>
      /\ digest[r] \in Version /\ manifest'[s] = digest[r]
      /\ \A u \in Source : u # s => manifest'[u] = manifest[u]
  BY DEF IInv, Commit, TypeOK, Shape
<1>2. ASSUME Clean(s)' PROVE Once(s)'
  <2>1. InPlace(r, s)
    BY <1>1, <1>2 DEF IInv, ReplacesWhole, Clean
  <2>2. loaded[r] \in ChunkSets /\ \A k \in 1 .. Stores : Scanned(k, s)' = {loaded[r]}
    BY <1>1, <2>1, ScannedSame DEF InPlace, Shape
  <2> QED
    BY <1>1, <2>2 DEF Once
<1> QED
  BY <1>1, <1>2, LeavingKeeps

LEMMA FailKeeps ==
  ASSUME IInv, NEW r \in Runner, NEW s \in Source, pc[r] # "idle", Fail(r, s),
         UNCHANGED spent.crashes
  PROVE  Placed'
<1>1. /\ At(r, s) /\ NextFile(r, s) /\ UNCHANGED <<chunks, manifest>>
      /\ listed \subseteq listed' /\ s \in listed'
  BY DEF Fail, stored
<1> QED
  BY <1>1, LeavingKeeps DEF Clean

\* A file that is passed over.
LEMMA PassKeeps ==
  ASSUME IInv, NEW r \in Runner, NEW s \in Source, Gone(r, s) \/ CheckUnchanged(r, s)
  PROVE  Placed'
<1>1. /\ At(r, s) /\ NextFile(r, s) /\ pc[r] \in {"scan", "check"}
      /\ UNCHANGED <<chunks, manifest, listed, spent>>
  BY DEF Gone, CheckUnchanged, stored
<1>2. ASSUME Clean(s)' PROVE Once(s)'
  <2>1. Clean(s)
    BY <1>1, <1>2 DEF Clean
  <2>2. Once(s)
    BY <1>1, <2>1, OnceBefore
  <2> QED
    BY <1>1, <2>2, ScannedSame DEF Once
<1> QED
  BY <1>1, <1>2, LeavingKeeps

\* An upload's chunks are no scan's.
LEMMA UploadScanned ==
  ASSUME TypeOK, Shape, UploadUpsert
  PROVE  \A k \in 1 .. Stores, s \in Source : UNCHANGED Scanned(k, s)
<1>1. upload \in Uploads /\ upload.chunks.origin = "upload"
  BY DEF Shape, UploadUpsert
<1>2. chunks' = [chunks EXCEPT ![upload.at][upload.source] = @ \cup {upload.chunks}]
  BY Zenon DEF UploadUpsert
<1>3. \A k \in 1 .. Stores, s \in Source :
        chunks'[k][s] = chunks[k][s] \/ chunks'[k][s] = chunks[k][s] \cup {upload.chunks}
  BY <1>1, <1>2 DEF TypeOK, Uploads
<1>4. ASSUME NEW k \in 1 .. Stores, NEW s \in Source PROVE UNCHANGED Scanned(k, s)
  <2>1. CASE chunks'[k][s] = chunks[k][s]
    BY <2>1 DEF Scanned
  <2>2. CASE chunks'[k][s] = chunks[k][s] \cup {upload.chunks}
    BY <1>1, <2>2 DEF Scanned
  <2> QED
    BY <1>3, <2>1, <2>2
<1> QED
  BY <1>4

\* Every step keeps the invariant.
LEMMA StepKeeps == IInv /\ [Next]_vars => IInv'
<1> SUFFICES ASSUME IInv, [Next]_vars PROVE IInv'
  OBVIOUS
<1>1. TypeOK /\ Shape
  BY DEF IInv
<1>2. ASSUME NEW r \in Runner, NEW s \in Source, FileStep(r, s) PROVE IInv'
  <2>1. TypeOK' /\ Shape'
    BY <1>1, <1>2, FileStepShape
  <2>2. ASSUME Hash(r, s) PROVE Placed'
    <3>1. UNCHANGED <<chunks, manifest, listed, spent>> /\ pc[r] = "scan"
      BY <2>2 DEF Hash, stored
    <3>2. \A q \in Runner : pc[q] \notin Replacing /\ pc'[q] \notin Replacing
      BY <1>1, <2>2, <3>1, OneScans DEF Hash, Goto, TypeOK
    <3> QED
      BY <3>1, <3>2, BetweenKeeps
  <2>3. ASSUME Vanished(r, s) PROVE Placed'
    BY <2>3, FailKeeps DEF Vanished
  <2> QED
    BY <1>2, <2>1, <2>2, <2>3, PassKeeps, CheckKeeps, DeleteKeeps, LoadKeeps, UpsertKeeps,
       CommitKeeps DEF FileStep, Placed, IInv
<1>3. ASSUME NEW r \in Runner, Start(r) \/ End(r) PROVE IInv'
  <2>1. TypeOK' /\ Shape'
    BY <1>1, <1>3, OtherShape
  <2>2. UNCHANGED <<chunks, manifest, listed, spent>>
    BY <1>3 DEF Start, End, stored
  <2>3. \A q \in Runner : pc[q] \notin Replacing /\ pc'[q] \notin Replacing
    <3>1. CASE Start(r)
      <4>1. \A q \in Runner : pc[q] = "idle"
        BY <1>1, <3>1 DEF Start, Shape
      <4> QED
        BY <1>1, <3>1, <4>1 DEF Start, Goto, TypeOK
    <3>2. CASE End(r)
      BY <1>1, <3>2, OneScans DEF End, Goto, TypeOK
    <3> QED
      BY <1>3, <3>1, <3>2
  <2> QED
    BY <2>1, <2>2, <2>3, BetweenKeeps DEF Placed, IInv
<1>4. ASSUME NEW r \in Runner, NEW s \in Source, Fault(r, s) PROVE IInv'
  <2>1. TypeOK' /\ Shape'
    BY <1>1, <1>4, OtherShape
  <2>2. pc[r] # "idle" /\ Fail(r, s) /\ UNCHANGED spent.crashes
    BY <1>1, <1>4 DEF Fault, Spend, TypeOK
  <2> QED
    BY <2>1, <2>2, FailKeeps DEF Placed, IInv
<1>5. ASSUME Crash PROVE IInv'
  <2>1. TypeOK' /\ Shape'
    BY <1>1, <1>5, OtherShape
  <2>2. ReplacesWhole'
    BY <1>5 DEF Crash, ReplacesWhole, InPlace
  <2>3. spent.crashes \in Nat /\ spent'.crashes = spent.crashes + 1
    BY <1>1, <1>5 DEF Crash, Spend, TypeOK
  <2> QED
    BY <2>1, <2>2, <2>3 DEF CleanIsOnce, Clean, IInv
<1>6. ASSUME \/ \E s \in Source : EditFile(s) \/ \E v \in Version : Upload(s, v)
             \/ UploadUpsert \/ UploadFault
      PROVE  IInv'
  <2>1. TypeOK' /\ Shape'
    BY <1>1, <1>6, OtherShape
  <2>2. UNCHANGED <<manifest, scanVars>>
    BY <1>6 DEF EditFile, Upload, UploadUpsert, UploadFault, stored
  <2>3. UNCHANGED spent.crashes
    BY <1>1, <1>6 DEF EditFile, Upload, UploadUpsert, UploadFault, Spend, TypeOK
  <2>4. UNCHANGED chunks \/ UploadUpsert
    BY <1>6 DEF EditFile, Upload, UploadFault, stored
  <2> QED
    BY <1>1, <2>1, <2>2, <2>3, <2>4, ScannedSame, UploadScanned, QuietKeeps DEF Placed, IInv
<1>7. CASE UNCHANGED vars
  <2>1. TypeOK' /\ Shape'
    BY <1>1, <1>7 DEF vars, stored, scanVars, TypeOK, Shape
  <2> QED
    BY <1>7, <2>1, ScannedSame, QuietKeeps DEF vars, stored, Placed, IInv
<1> QED
  BY <1>2, <1>3, <1>4, <1>5, <1>6, <1>7 DEF Next, RunStep

-----------------------------------------------------------------------------

\* Types, and, between runs, one set of chunks in every backend for each source that
\* is in the manifest and has seen no failure: what the lock is for.
THEOREM IngestionIsSafe == Spec => []IngestInv
<1>1. IInv => IngestInv
  <2> SUFFICES ASSUME IInv, lock = None, spent.crashes = 0,
                      NEW s \in Source, s \notin listed, NEW k \in 1 .. Stores
               PROVE  /\ Scanned(k, s) = Scanned(1, s)
                      /\ Cardinality(Scanned(k, s)) = IF manifest[s] = None THEN 0 ELSE 1
    BY DEF IngestInv, UnlistedIsIngestedOnce, IInv
  <2>1. ~InHand(s)
    BY DEF IInv, Shape, InHand
  <2>2. Once(s)
    BY <2>1 DEF IInv, CleanIsOnce, Clean
  <2>3. 1 \in 1 .. Stores
    OBVIOUS
  <2>4. CASE manifest[s] = None
    BY <2>2, <2>3, <2>4, FS_EmptySet DEF Once
  <2>5. CASE manifest[s] # None
    BY <2>2, <2>3, <2>5, FS_Singleton DEF Once
  <2> QED
    BY <2>4, <2>5
<1> QED
  BY InitEstablishes, StepKeeps, <1>1, PTL DEF Spec

\* The chunks of a recorded source do not pile up, whatever fails.
THEOREM RecordedIsReplaced == Spec => RecordedNeverMultiplies
<1> DEFINE Step(k, s) == Cardinality(Scanned(k, s)') <= 1 \/ Scanned(k, s)' \subseteq Scanned(k, s)
<1>1. IInv /\ [Next]_vars =>
        [\A k \in 1 .. Stores : \A s \in Source : manifest[s] # None =>
           \/ Cardinality(Scanned(k, s)') <= 1
           \/ Scanned(k, s)' \subseteq Scanned(k, s)]_vars
  <2> SUFFICES ASSUME IInv, [Next]_vars, NEW k \in 1 .. Stores, NEW s \in Source,
                      manifest[s] # None
               PROVE  Step(k, s)
    OBVIOUS
  <2>1. TypeOK /\ Shape
    BY DEF IInv
  <2>2. CASE UNCHANGED chunks
    BY <2>2, ScannedSame
  <2>3. ASSUME NEW r \in Runner, NEW u \in Source, Delete(r, u) PROVE Step(k, s)
    BY <2>1, <2>3, DeleteScanned
  <2>4. ASSUME NEW r \in Runner, NEW u \in Source, Upsert(r, u) PROVE Step(k, s)
    <3>1. CASE u # s
      BY <2>1, <2>4, <3>1, UpsertScanned
    <3>2. CASE u = s
      <4>1. InPlace(r, s) /\ pc[r] = "upsert"
        BY <2>4, <3>2 DEF IInv, ReplacesWhole, Upsert
      <4>2. Scanned(k, s) = IF k < at[r] THEN {loaded[r]} ELSE {}
        BY <4>1 DEF InPlace
      <4>3. Scanned(k, s)' = IF k = at[r] THEN Scanned(k, s) \cup {loaded[r]} ELSE Scanned(k, s)
        BY <2>1, <2>4, <3>2, UpsertScanned
      <4>4. CASE k = at[r]
        <5>1. Scanned(k, s)' = {loaded[r]}
          BY <2>1, <4>2, <4>3, <4>4 DEF TypeOK
        <5>2. Cardinality({loaded[r]}) = 1
          BY FS_Singleton
        <5> QED
          BY <5>1, <5>2
      <4>5. CASE k # at[r]
        BY <4>3, <4>5
      <4> QED
        BY <4>4, <4>5
    <3> QED
      BY <3>1, <3>2
  <2>5. CASE UploadUpsert
    BY <2>1, <2>5, UploadScanned
  <2> QED
    BY <2>2, <2>3, <2>4, <2>5 DEF Next, RunStep, FileStep, vars, stored, Start, End, Hash, Gone,
       CheckChanged, CheckUnchanged, Load, Commit, Vanished, Fault, Fail, Crash, EditFile, Upload,
       UploadFault
<1> QED
  BY InitEstablishes, StepKeeps, <1>1, PTL DEF Spec, RecordedNeverMultiplies

-----------------------------------------------------------------------------
(* A file that is skipped, when no content comes back. *)

\* Every change leads to a content of a higher rank.
Rises(Age) ==
  /\ Age \in [Version \cup {None} -> Nat]
  /\ \A e \in Edits : Age[e[1]] < Age[e[2]]

NeverBack == \E Age \in [Version \cup {None} -> Nat] : Rises(Age)

UpTo(Age, v, w) == v = w \/ Age[v] < Age[w]

\* What is recorded was on disk.
RecordIsPast(Age) ==
  \A s \in Source : manifest[s] # None => UpTo(Age, manifest[s], disk[s])

\* What a scan holds came in this order: the manifest, the hash, the load, the disk.
HandIsPast(Age, r, s) ==
  /\ pc[r] \in Replacing \cup {"check"} =>
       /\ UpTo(Age, digest[r], disk[s])
       /\ manifest[s] # None => UpTo(Age, manifest[s], digest[r])
  /\ pc[r] \in Replacing => manifest[s] # digest[r]
  /\ pc[r] \in {"upsert", "commit"} =>
       UpTo(Age, digest[r], loaded[r].version) /\ UpTo(Age, loaded[r].version, disk[s])
  /\ pc[r] = "upsert" => \A k \in 1 .. Stores : k < at[r] => loaded[r] \in Scanned(k, s)
  /\ pc[r] = "commit" => \A k \in 1 .. Stores : loaded[r] \in Scanned(k, s)

HandsArePast(Age) == \A r \in Runner, s \in Source : At(r, s) => HandIsPast(Age, r, s)

HInv(Age) ==
  /\ TypeOK
  /\ Shape
  /\ RecordIsPast(Age)
  /\ HandsArePast(Age)
  /\ SkippedIsStored

LEMMA UpToTransitive ==
  ASSUME NEW Age, Rises(Age), NEW u \in Version \cup {None}, NEW v \in Version \cup {None},
         NEW w \in Version \cup {None}, UpTo(Age, u, v), UpTo(Age, v, w)
  PROVE  UpTo(Age, u, w) /\ (u = w => v = w)
BY DEF UpTo, Rises

\* A source whose stores lose nothing is still stored.
LEMMA StillStored ==
  ASSUME SkippedIsStored, NEW s \in Source, disk'[s] = disk[s], disk[s] # None,
         manifest[s] = disk[s], \A k \in 1 .. Stores : Scanned(k, s) \subseteq Scanned(k, s)'
  PROVE  \A k \in 1 .. Stores : (disk[s] \in Versions(k, s))'
BY DEF SkippedIsStored, Versions

\* After a step of r at s, only r has something at hand, and only s.
LEMMA HandsKeep ==
  ASSUME TypeOK, Shape, NEW Age, NEW r \in Runner, NEW s \in Source, pc[r] # "idle", At(r, s),
         \A q \in Runner : q # r => pc'[q] = pc[q],
         \/ pc'[r] \in {"idle", "scan"}
         \/ UNCHANGED todo /\ HandIsPast(Age, r, s)'
  PROVE  HandsArePast(Age)'
<1> SUFFICES ASSUME NEW q \in Runner, NEW u \in Source, At(q, u)' PROVE HandIsPast(Age, q, u)'
  BY DEF HandsArePast
<1>1. CASE q # r
  BY <1>1, OneScans DEF HandIsPast
<1>2. CASE q = r /\ pc'[r] \in {"idle", "scan"}
  BY <1>2 DEF HandIsPast
<1>3. CASE q = r /\ UNCHANGED todo /\ HandIsPast(Age, r, s)'
  <2>1. At(r, u)
    BY <1>3 DEF At
  <2> QED
    BY <1>3, <2>1, AtOne
<1> QED
  BY <1>1, <1>2, <1>3

\* The steps of a scan but for its loads and stores.
LEMMA ScanKeepsHistory ==
  ASSUME NEW Age, Rises(Age), HInv(Age), NEW r \in Runner, NEW s \in Source,
         \/ Hash(r, s) \/ Gone(r, s) \/ CheckChanged(r, s) \/ CheckUnchanged(r, s)
         \/ Vanished(r, s) \/ Fault(r, s)
  PROVE  RecordIsPast(Age)' /\ HandsArePast(Age)' /\ SkippedIsStored'
<1>1. /\ UNCHANGED <<disk, manifest, chunks>> /\ pc[r] # "idle" /\ At(r, s)
      /\ \A q \in Runner : q # r => pc'[q] = pc[q]
  BY DEF HInv, TypeOK, Hash, Gone, CheckChanged, CheckUnchanged, Vanished, Fault, Fail, NextFile,
         Goto, stored
<1>2. RecordIsPast(Age)' /\ SkippedIsStored'
  BY <1>1, ScannedSame DEF HInv, RecordIsPast, SkippedIsStored, Versions
<1>3. CASE Hash(r, s)
  <2>1. HandIsPast(Age, r, s)' /\ UNCHANGED todo
    BY <1>1, <1>3 DEF Hash, Goto, HInv, TypeOK, HandIsPast, RecordIsPast, UpTo
  <2> QED
    BY <1>1, <1>2, <2>1, HandsKeep DEF HInv
<1>4. CASE CheckChanged(r, s)
  <2>1. HandIsPast(Age, r, s)
    BY <1>1 DEF HInv, HandsArePast
  <2>2. HandIsPast(Age, r, s)' /\ UNCHANGED todo
    BY <1>1, <1>4, <2>1 DEF CheckChanged, Goto, HInv, TypeOK, HandIsPast
  <2> QED
    BY <1>1, <1>2, <2>2, HandsKeep DEF HInv
<1>5. CASE Gone(r, s) \/ CheckUnchanged(r, s) \/ Vanished(r, s) \/ Fault(r, s)
  <2>1. pc'[r] = "scan"
    BY <1>5 DEF HInv, TypeOK, Gone, CheckUnchanged, Vanished, Fault, Fail, NextFile, Goto
  <2> QED
    BY <1>1, <1>2, <2>1, HandsKeep DEF HInv
<1> QED
  BY <1>3, <1>4, <1>5

\* What is deleted is not the recorded content, and the load takes what is there.
LEMMA StoreKeepsHistory ==
  ASSUME NEW Age, Rises(Age), HInv(Age), NEW r \in Runner, NEW s \in Source,
         Delete(r, s) \/ Load(r, s) \/ Upsert(r, s)
  PROVE  RecordIsPast(Age)' /\ HandsArePast(Age)' /\ SkippedIsStored'
<1>1. /\ TypeOK /\ Shape /\ UNCHANGED <<disk, manifest, todo, digest>> /\ pc[r] \in Replacing
      /\ At(r, s) /\ HandIsPast(Age, r, s) /\ digest[r] \in Version
  BY DEF HInv, HandsArePast, Delete, Load, Upsert, stored, Shape
<1>2. RecordIsPast(Age)'
  BY <1>1 DEF HInv, RecordIsPast
<1>3. \A q \in Runner : q # r => pc'[q] = pc[q]
  BY <1>1, Backends DEF Delete, Load, Upsert, Goto, TypeOK
<1>4. CASE Delete(r, s)
  <2>1. pc[r] = "delete" /\ pc'[r] \in {"delete", "load"}
    BY <1>1, <1>4, Backends DEF Delete
  <2>2. HandIsPast(Age, r, s)'
    BY <1>1, <2>1 DEF HandIsPast
  <2>3. ~(disk[s] # None /\ manifest[s] = disk[s])
    <3>1. /\ UpTo(Age, digest[r], disk[s]) /\ manifest[s] # digest[r]
          /\ manifest[s] # None => UpTo(Age, manifest[s], digest[r])
      BY <1>1 DEF HandIsPast
    <3>2. disk[s] \in Version \cup {None} /\ manifest[s] \in Version \cup {None}
      BY <1>1 DEF TypeOK
    <3>3. digest[r] \in Version \cup {None}
      BY <1>1
    <3> QED
      BY <3>1, <3>2, <3>3, UpToTransitive
  <2>4. SkippedIsStored'
    <3> SUFFICES ASSUME NEW u \in Source, disk'[u] # None, manifest'[u] = disk'[u]
                 PROVE  \A k \in 1 .. Stores : (disk[u] \in Versions(k, u))'
      BY DEF SkippedIsStored
    <3>1. u # s
      BY <1>1, <2>3
    <3>2. \A k \in 1 .. Stores, w \in Source : w # s => UNCHANGED Scanned(k, w)
      BY <1>1, <1>4, DeleteScanned
    <3> QED
      BY <1>1, <3>1, <3>2, StillStored DEF HInv
  <2> QED
    BY <1>1, <1>2, <1>3, <2>2, <2>4, HandsKeep
<1>5. CASE Load(r, s)
  <2>1. /\ pc[r] = "load" /\ pc'[r] = "upsert" /\ loaded'[r].version = disk[s] /\ at'[r] = 1
        /\ UNCHANGED chunks
    BY <1>1, <1>5 DEF Load, Goto, TypeOK, Shape, stored
  <2>2. HandIsPast(Age, r, s)'
    BY <1>1, <2>1 DEF HandIsPast, UpTo
  <2>3. SkippedIsStored'
    BY <1>1, <2>1, ScannedSame, StillStored DEF SkippedIsStored, HInv
  <2> QED
    BY <1>1, <1>2, <1>3, <2>2, <2>3, HandsKeep
<1>6. CASE Upsert(r, s)
  <2>1. pc[r] = "upsert" /\ NextBackend(r, "commit") /\ UNCHANGED loaded
    BY <1>6 DEF Upsert
  <2>2. \A k \in 1 .. Stores : k <= at[r] => loaded[r] \in Scanned(k, s)'
    BY <1>1, <1>6, <2>1, UpsertScanned, Backends DEF HandIsPast
  <2>3. HandIsPast(Age, r, s)'
    <3>1. CASE at[r] < Stores
      BY <1>1, <2>1, <2>2, <3>1, Backends DEF HandIsPast
    <3>2. CASE ~(at[r] < Stores)
      BY <1>1, <2>1, <2>2, <3>2, Backends DEF HandIsPast
    <3> QED
      BY <3>1, <3>2
  <2>4. \A k \in 1 .. Stores, u \in Source : Scanned(k, u) \subseteq Scanned(k, u)'
    BY <1>1, <1>6, UpsertScanned
  <2>5. SkippedIsStored'
    BY <1>1, <2>4, StillStored DEF SkippedIsStored, HInv
  <2> QED
    BY <1>1, <1>2, <1>3, <2>3, <2>5, HandsKeep
<1> QED
  BY <1>4, <1>5, <1>6

\* A hash that is recorded and still true is the hash of what was stored.
LEMMA CommitKeepsHistory ==
  ASSUME NEW Age, Rises(Age), HInv(Age), NEW r \in Runner, NEW s \in Source, Commit(r, s)
  PROVE  RecordIsPast(Age)' /\ HandsArePast(Age)' /\ SkippedIsStored'
<1>1. /\ TypeOK /\ Shape /\ UNCHANGED <<disk, chunks>> /\ pc[r] = "commit" /\ At(r, s)
      /\ HandIsPast(Age, r, s) /\ digest[r] \in Version /\ manifest'[s] = digest[r]
      /\ \A u \in Source : u # s => manifest'[u] = manifest[u]
      /\ loaded[r] \in ChunkSets /\ pc'[r] = "scan" /\ \A q \in Runner : q # r => pc'[q] = pc[q]
  BY DEF HInv, HandsArePast, Commit, NextFile, Goto, TypeOK, Shape
<1>2. RecordIsPast(Age)'
  BY <1>1 DEF HInv, RecordIsPast, HandIsPast
<1>3. SkippedIsStored'
  <2> SUFFICES ASSUME NEW u \in Source, disk'[u] # None, manifest'[u] = disk'[u]
               PROVE  \A k \in 1 .. Stores : (disk[u] \in Versions(k, u))'
    BY DEF SkippedIsStored
  <2>1. CASE u # s
    BY <1>1, <2>1, ScannedSame, StillStored DEF HInv
  <2>2. CASE u = s
    <3>1. loaded[r].version \in Version /\ disk[s] \in Version \cup {None}
      BY <1>1 DEF ChunkSets, TypeOK
    <3>2. loaded[r].version = disk[s]
      BY <1>1, <2>2, <3>1, UpToTransitive DEF HandIsPast
    <3>3. \A k \in 1 .. Stores : loaded[r] \in Scanned(k, s)'
      BY <1>1, ScannedSame DEF HandIsPast
    <3> QED
      BY <1>1, <2>2, <3>2, <3>3 DEF Versions
  <2> QED
    BY <2>1, <2>2
<1> QED
  BY <1>1, <1>2, <1>3, HandsKeep

\* The disk only goes on.
LEMMA EditKeepsHistory ==
  ASSUME NEW Age, Rises(Age), HInv(Age), NEW s \in Source, EditFile(s)
  PROVE  RecordIsPast(Age)' /\ HandsArePast(Age)' /\ SkippedIsStored'
<1>1. TypeOK /\ Shape /\ UNCHANGED <<manifest, chunks, pc, todo, digest, loaded, at>>
  BY DEF HInv, EditFile, scanVars
<1>2. PICK v \in Version \cup {None} :
        Age[disk[s]] < Age[v] /\ disk' = [disk EXCEPT ![s] = v]
  BY DEF EditFile, Rises
<1>3. \A u \in Source : u # s => disk'[u] = disk[u]
  BY <1>1, <1>2 DEF TypeOK
<1>4. disk'[s] = v /\ UpTo(Age, disk[s], v) /\ disk[s] \in Version \cup {None}
  BY <1>1, <1>2 DEF TypeOK, UpTo
<1>5. RecordIsPast(Age)'
  BY <1>1, <1>3, <1>4, UpToTransitive DEF HInv, RecordIsPast, TypeOK
<1>6. HandsArePast(Age)'
  <2> SUFFICES ASSUME NEW r \in Runner, NEW u \in Source, At(r, u) PROVE HandIsPast(Age, r, u)'
    BY <1>1 DEF HandsArePast, At
  <2>1. HandIsPast(Age, r, u)
    BY DEF HInv, HandsArePast
  <2>2. CASE u # s
    BY <1>1, <1>3, <2>1, <2>2, ScannedSame DEF HandIsPast
  <2>3. CASE u = s
    <3>1. pc[r] \in Replacing \cup {"check"} => UpTo(Age, digest[r], v)
      BY <1>1, <1>4, <2>1, <2>3, UpToTransitive DEF HandIsPast, Shape
    <3>2. pc[r] \in {"upsert", "commit"} => loaded[r].version \in Version
      BY <1>1 DEF Shape, ChunkSets
    <3>3. pc[r] \in {"upsert", "commit"} => UpTo(Age, loaded[r].version, v)
      BY <1>4, <2>1, <2>3, <3>2, UpToTransitive DEF HandIsPast
    <3> QED
      BY <1>1, <1>4, <2>1, <2>3, <3>1, <3>3, ScannedSame DEF HandIsPast
  <2> QED
    BY <2>2, <2>3
<1>7. SkippedIsStored'
  <2> SUFFICES ASSUME NEW u \in Source, disk'[u] # None, manifest'[u] = disk'[u]
               PROVE  \A k \in 1 .. Stores : (disk[u] \in Versions(k, u))'
    BY DEF SkippedIsStored
  <2>1. CASE u # s
    BY <1>1, <1>3, <2>1, ScannedSame, StillStored DEF HInv
  <2>2. CASE u = s
    <3>1. manifest[s] = v /\ v # None
      BY <1>1, <1>4, <2>2
    <3>2. UpTo(Age, v, disk[s])
      BY <3>1 DEF HInv, RecordIsPast
    <3>3. Age[v] \in Nat /\ Age[disk[s]] \in Nat
      BY <1>4 DEF Rises
    <3> QED
      BY <1>2, <3>2, <3>3 DEF UpTo
  <2> QED
    BY <2>1, <2>2
<1> QED
  BY <1>5, <1>6, <1>7

\* Of the others, an upload adds to the stores and no step takes anything away.
LEMMA OthersKeepHistory ==
  ASSUME NEW Age, HInv(Age), UNCHANGED <<disk, manifest>>,
         \A k \in 1 .. Stores, s \in Source : UNCHANGED Scanned(k, s),
         \/ UNCHANGED <<pc, todo, digest, loaded, at>>
         \/ \A r \in Runner : pc'[r] \in {"idle", "scan"}
  PROVE  RecordIsPast(Age)' /\ HandsArePast(Age)' /\ SkippedIsStored'
BY DEF HInv, RecordIsPast, HandsArePast, HandIsPast, At, SkippedIsStored, Versions

LEMMA HistoryKeeps ==
  ASSUME NEW Age, Rises(Age), HInv(Age), [Next]_vars
  PROVE  HInv(Age)'
<1>1. TypeOK /\ Shape
  BY DEF HInv
<1>2. ASSUME NEW r \in Runner, NEW s \in Source, FileStep(r, s) \/ Fault(r, s) PROVE HInv(Age)'
  <2>1. TypeOK' /\ Shape'
    BY <1>1, <1>2, FileStepShape, OtherShape
  <2> QED
    BY <1>2, <2>1, ScanKeepsHistory, StoreKeepsHistory, CommitKeepsHistory DEF FileStep, HInv
<1>3. ASSUME NEW s \in Source, EditFile(s) PROVE HInv(Age)'
  <2>1. TypeOK' /\ Shape'
    BY <1>1, <1>3, OtherShape
  <2> QED
    BY <1>3, <2>1, EditKeepsHistory DEF HInv
<1>4. ASSUME NEW r \in Runner, Start(r) \/ End(r) PROVE HInv(Age)'
  <2>1. TypeOK' /\ Shape'
    BY <1>1, <1>4, OtherShape
  <2>2. \A q \in Runner : q # r => pc[q] = "idle"
    BY <1>1, <1>4, OneScans DEF Start, End, Shape
  <2>3. \A q \in Runner : pc'[q] \in {"idle", "scan"}
    BY <1>1, <1>4, <2>2 DEF Start, End, Goto, TypeOK
  <2>4. UNCHANGED <<disk, manifest, chunks>>
    BY <1>4 DEF Start, End, stored
  <2> QED
    BY <2>1, <2>3, <2>4, ScannedSame, OthersKeepHistory DEF HInv
<1>5. ASSUME Crash PROVE HInv(Age)'
  <2>1. TypeOK' /\ Shape'
    BY <1>1, <1>5, OtherShape
  <2>2. UNCHANGED <<disk, manifest, chunks>> /\ \A r \in Runner : pc'[r] \in {"idle", "scan"}
    BY <1>5 DEF Crash, stored
  <2> QED
    BY <2>1, <2>2, ScannedSame, OthersKeepHistory DEF HInv
<1>6. ASSUME (\E s \in Source, v \in Version : Upload(s, v)) \/ UploadUpsert \/ UploadFault
      PROVE  HInv(Age)'
  <2>1. TypeOK' /\ Shape'
    BY <1>1, <1>6, OtherShape
  <2>2. UNCHANGED <<disk, manifest, pc, todo, digest, loaded, at>>
    BY <1>6 DEF Upload, UploadUpsert, UploadFault, stored, scanVars
  <2>3. UNCHANGED chunks \/ UploadUpsert
    BY <1>6 DEF Upload, UploadFault, stored
  <2> QED
    BY <1>1, <2>1, <2>2, <2>3, ScannedSame, UploadScanned, OthersKeepHistory DEF HInv
<1>7. CASE UNCHANGED vars
  <2>1. TypeOK' /\ Shape' /\ UNCHANGED <<disk, manifest, chunks, pc, todo, digest, loaded, at>>
    BY <1>1, <1>7 DEF vars, stored, scanVars, TypeOK, Shape
  <2> QED
    BY <2>1, ScannedSame, OthersKeepHistory DEF HInv
<1> QED
  BY <1>2, <1>3, <1>4, <1>5, <1>6, <1>7 DEF Next, RunStep

\* When no content of a file ever comes back, a file whose manifest entry is up to
\* date has its chunks in every backend, through any failures, crashes and overlaps:
\* a scan that skips it by its hash leaves nothing out.
THEOREM SkippedStaysStored == NeverBack => (Spec => []SkippedIsStored)
<1> SUFFICES ASSUME NeverBack PROVE Spec => []SkippedIsStored
  OBVIOUS
<1>1. PICK Age \in [Version \cup {None} -> Nat] : Rises(Age)
  BY DEF NeverBack
<1>2. Init => HInv(Age)
  BY InitEstablishes DEF IInv, Init, HInv, RecordIsPast, HandsArePast, HandIsPast, SkippedIsStored
<1>3. HInv(Age) /\ [Next]_vars => HInv(Age)'
  BY <1>1, HistoryKeeps
<1>4. HInv(Age) => SkippedIsStored
  BY DEF HInv
<1> QED
  BY <1>2, <1>3, <1>4, PTL DEF Spec

-----------------------------------------------------------------------------
(* Documents: cutting a text into stretches, windows and pieces *)

HIDE IngestionAssumption DEF Origins, Replacing

\* The stretches between cuts cover a text in order, and none has a cut inside.
LEMMA SpansAre ==
  ASSUME NEW last \in Nat, NEW cuts \in SUBSET (1 .. last - 1)
  PROVE  LET spans == Spans(last, cuts)
         IN  /\ \E n \in Nat : DOMAIN spans = 1 .. n
             /\ \A n \in DOMAIN spans :
                  /\ spans[n].from \in 1 .. last /\ spans[n].to \in spans[n].from .. last
                  /\ \A c \in cuts : ~(spans[n].from <= c /\ c < spans[n].to)
                  /\ spans[n].from = 1 \/ spans[n].from - 1 \in cuts
                  /\ spans[n].to = last \/ spans[n].to \in cuts
             /\ \A i \in 1 .. last : \E n \in DOMAIN spans : spans[n].from <= i /\ i <= spans[n].to
<1> DEFINE E == cuts \cup ({last} \ {0})
           spans == Spans(last, cuts)
           size == Cardinality(E)
<1>1. E \in SUBSET (1 .. last) /\ E \in SUBSET Nat /\ cuts \subseteq E /\ (last # 0 => last \in E)
  OBVIOUS
<1>2. spans = [n \in 1 .. size |-> [from |-> IF n = 1 THEN 1 ELSE Ith(E, n - 1) + 1, to |-> Ith(E, n)]]
  BY DEF Spans
<1> HIDE DEF E, spans
<1>3. IsFiniteSet(E) /\ size \in Nat
  <2>1. IsFiniteSet(1 .. last)
    BY CardinalityOfInterval
  <2> QED
    BY <1>1, <2>1, FS_Subset, FS_CardinalityType
<1> HIDE DEF size
<1>4. ASSUME NEW n \in 1 .. size PROVE Ith(E, n) \in E /\ Rank(E, Ith(E, n)) = n
  BY <1>1, <1>3, IthOf DEF size
<1>5. ASSUME NEW n \in 1 .. size, NEW m \in 1 .. size, n < m PROVE Ith(E, n) < Ith(E, m)
  BY <1>1, <1>3, <1>5, IthGrows DEF size
<1>6. ASSUME NEW n \in 1 .. size
      PROVE  /\ spans[n].from = (IF n = 1 THEN 1 ELSE Ith(E, n - 1) + 1) /\ spans[n].to = Ith(E, n)
             /\ spans[n].from \in 1 .. last /\ spans[n].to \in spans[n].from .. last
             /\ \A c \in E : ~(spans[n].from <= c /\ c < spans[n].to)
  <2>1. spans[n].from = (IF n = 1 THEN 1 ELSE Ith(E, n - 1) + 1) /\ spans[n].to = Ith(E, n)
    BY <1>2
  <2> DEFINE e == Ith(E, n)
             d == Ith(E, n - 1)
  <2>2. e \in E /\ e \in 1 .. last /\ Rank(E, e) = n
    BY <1>1, <1>4
  <2>3. CASE n = 1
    <3>1. ASSUME NEW c \in E, c < e PROVE FALSE
      <4>1. Rank(E, c) < Rank(E, e) /\ Rank(E, c) \in 1 .. size
        BY <1>1, <1>3, <2>2, <3>1, RankGrows, RankOf DEF size
      <4> QED
        BY <1>3, <2>2, <2>3, <4>1
    <3> QED
      BY <2>1, <2>2, <2>3, <3>1
  <2>4. CASE n # 1
    <3>1. n - 1 \in 1 .. size /\ n - 1 < n
      BY <1>3, <2>4
    <3>2. d \in E /\ d \in 1 .. last /\ Rank(E, d) = n - 1 /\ d < e
      BY <1>1, <1>4, <1>5, <3>1
    <3>3. ASSUME NEW c \in E, d < c, c < e PROVE FALSE
      <4>1. Rank(E, c) < Rank(E, e) /\ Rank(E, d) < Rank(E, c) /\ Rank(E, c) \in 1 .. size
        BY <1>1, <1>3, <2>2, <3>2, <3>3, RankGrows, RankOf DEF size
      <4> QED
        BY <1>3, <2>2, <3>2, <4>1
    <3>4. \A c \in E : ~(d + 1 <= c /\ c < e)
      <4> SUFFICES ASSUME NEW c \in E, d + 1 <= c, c < e PROVE FALSE
        OBVIOUS
      <4>1. d < c
        BY <1>1, <3>2
      <4> QED
        BY <3>3, <4>1
    <3>5. d + 1 \in 1 .. last /\ e \in d + 1 .. last
      BY <2>2, <3>2
    <3> HIDE DEF d, e
    <3>6. spans[n].from = d + 1 /\ spans[n].to = e
      BY <2>1, <2>4 DEF d, e
    <3> QED
      BY <2>1, <3>4, <3>5, <3>6
  <2> QED
    BY <2>3, <2>4
<1>7. ASSUME NEW i \in 1 .. last
      PROVE  \E n \in 1 .. size : spans[n].from <= i /\ i <= spans[n].to
  <2> DEFINE T == {e \in E : i <= e}
  <2>1. T \in SUBSET Nat /\ last \in T
    <3>1. last \in E /\ i <= last
      BY <1>1
    <3> QED
      BY <1>1, <3>1
  <2>2. PICK e \in T : \A f \in T : e <= f
    BY <2>1, LeastOf
  <2> DEFINE n == Rank(E, e)
  <2>3. n \in 1 .. size /\ Ith(E, n) = e /\ i <= e /\ e \in 1 .. last
    BY <1>1, <1>3, <2>2, RankOf, IthRank DEF size
  <2> HIDE DEF n
  <2>4. spans[n].from <= i
    <3>1. CASE n = 1
      BY <1>6, <2>3, <3>1
    <3>2. CASE n # 1
      <4>1. n - 1 \in 1 .. size /\ n - 1 < n
        BY <1>3, <2>3, <3>2
      <4>2. Ith(E, n - 1) \in E /\ Ith(E, n - 1) < e /\ Ith(E, n - 1) \in Nat
        BY <1>1, <1>4, <1>5, <2>3, <4>1
      <4>3. ~(i <= Ith(E, n - 1))
        BY <2>2, <2>3, <4>2
      <4>4. spans[n].from = Ith(E, n - 1) + 1
        BY <1>6, <2>3, <3>2
      <4> QED
        BY <4>2, <4>3, <4>4
    <3> QED
      BY <3>1, <3>2
  <2> QED
    BY <1>6, <2>3, <2>4
<1>8. DOMAIN spans = 1 .. size
  BY <1>2
<1>9. ASSUME NEW n \in 1 .. size
      PROVE  /\ spans[n].from = 1 \/ spans[n].from - 1 \in cuts
             /\ spans[n].to = last \/ spans[n].to \in cuts
  <2>1. \A e \in E : e = last \/ e \in cuts
    BY DEF E
  <2>2. CASE n = 1
    BY <1>4, <1>6, <2>1, <2>2
  <2>3. CASE n # 1
    <3>1. n - 1 \in 1 .. size /\ n - 1 < n
      BY <1>3, <2>3
    <3> DEFINE d == Ith(E, n - 1)
               e == Ith(E, n)
    <3>2. d \in E /\ e \in E /\ d < e /\ d \in 1 .. last /\ e \in 1 .. last
      BY <1>1, <1>4, <1>5, <3>1
    <3> HIDE DEF d, e
    <3>3. spans[n].from = d + 1 /\ spans[n].to = e
      BY <1>6, <2>3 DEF d, e
    <3>4. d \in cuts
      BY <2>1, <3>2
    <3>5. (d + 1) - 1 = d
      BY <3>2
    <3> QED
      BY <2>1, <3>2, <3>3, <3>4, <3>5
  <2> QED
    BY <2>2, <2>3
<1> QED
  BY <1>1, <1>3, <1>6, <1>7, <1>8, <1>9 DEF spans

AnyLine == [kind : ElementKinds \cup {"image"}, key : Nat \X Nat \X Nat]

\* Windows of words, some turns of a constant step apart, reach every word.
LEMMA WindowsReach ==
  ASSUME NEW n \in Nat, NEW size \in Nat \ {0}, NEW apart \in 1 .. size,
         NEW w \in 1 .. n
  PROVE  \E t \in 0 .. n - 1 :
           /\ t = 0 \/ (t - 1) * apart + size < n
           /\ t * apart + 1 <= w /\ w <= t * apart + size
<1> DEFINE T == {t \in Nat : w <= t * apart + size}
<1>1. \A t \in Nat : t <= t * apart /\ t * apart \in Nat
  <2> DEFINE P == {t \in Nat : t <= t * apart /\ t * apart \in Nat}
  <2>1. 0 \in P
    OBVIOUS
  <2>2. ASSUME NEW t \in Nat, t \in P PROVE t + 1 \in P
    <3>1. (t + 1) * apart = t * apart + apart
      OBVIOUS
    <3> QED
      BY <2>2, <3>1
  <2> HIDE DEF P
  <2>3. Nat \subseteq P
    BY <2>1, <2>2, SetInduction
  <2> QED
    BY <2>3 DEF P
<1>2. w \in T
  BY <1>1
<1>3. PICK t \in T : \A u \in T : t <= u
  BY <1>2, LeastOf
<1>4. t \in Nat /\ w <= t * apart + size /\ t * apart \in Nat
  BY <1>1, <1>3
<1>5. CASE t = 0
  <2>1. 0 * apart = 0
    OBVIOUS
  <2> QED
    BY <1>4, <1>5, <2>1
<1>6. CASE t # 0
  <2> DEFINE u == t - 1
  <2>1. u \in Nat /\ u \notin T /\ t = u + 1
    BY <1>3, <1>4, <1>6
  <2>2. u * apart \in Nat /\ u <= u * apart /\ ~(w <= u * apart + size)
    BY <1>1, <2>1
  <2>3. t * apart = u * apart + apart
    BY <2>1
  <2> HIDE DEF u
  <2>4. t * apart + 1 <= w /\ u * apart + size < n /\ t \in 0 .. n - 1
    BY <1>4, <2>1, <2>2, <2>3
  <2> QED
    BY <1>4, <2>1, <2>4 DEF u
<1> QED
  BY <1>5, <1>6

Worded(lines) == {l \in Elements(lines) : l.kind # "blank"}

\* Every word is in a window.
LEMMA ChunkTextIs ==
  ASSUME DocumentsAssumption, NEW T, NEW lines \in Seq(T)
  PROVE  /\ ChunkText(lines) \in Seq(Seq(T))
         /\ Worded(lines) \subseteq AllOf(ChunkText(lines))
         /\ \A t \in Elements(ChunkText(lines)) : t # <<>>
<1> DEFINE words == Picked(lines, NotOfKind(lines, {"blank"}))
           n == Len(words)
           apart == ChunkSize - Overlap
           turns == {t \in 0 .. n - 1 : t = 0 \/ (t - 1) * apart + ChunkSize < n}
           upto(t) == IF t * apart + ChunkSize < n THEN t * apart + ChunkSize ELSE n
           text == ChunkText(lines)
           size == Cardinality(turns)
<1>1. words \in Seq(T) /\ Elements(words) = {lines[i] : i \in NotOfKind(lines, {"blank"})}
  BY ElementsOfPicked DEF NotOfKind
<1>2. Worded(lines) \subseteq Elements(words)
  BY <1>1 DEF Worded, Elements, NotOfKind, OfKind
<1>3. text = [k \in 1 .. size |-> SubSeq(words, Ith(turns, k) * apart + 1, upto(Ith(turns, k)))]
  BY DEF ChunkText
<1>4. n \in Nat /\ ChunkSize \in Nat \ {0} /\ apart \in 1 .. ChunkSize
  BY <1>1 DEF DocumentsAssumption
<1>5. turns \in SUBSET Nat /\ IsFiniteSet(turns) /\ size \in Nat
  <2>1. IsFiniteSet(0 .. n - 1)
    BY <1>4, FS_Interval
  <2>2. turns \subseteq 0 .. n - 1
    OBVIOUS
  <2>3. \A t \in 0 .. n - 1 : t \in Nat
    BY <1>4
  <2> QED
    BY <2>1, <2>2, <2>3, FS_Subset, FS_CardinalityType
<1> HIDE DEF words, text
<1>6. ASSUME NEW t \in turns
      PROVE  t * apart + 1 \in 1 .. n /\ upto(t) \in t * apart + 1 .. n
  <2>1. t \in Nat /\ t * apart \in Nat /\ t < n
    BY <1>4
  <2>2. t * apart < n
    <3>1. CASE t = 0
      <4>1. t * apart = 0
        BY <1>4, <3>1
      <4> QED
        BY <1>4, <2>1, <4>1
    <3>2. CASE t # 0
      <4>1. t - 1 \in Nat /\ t = (t - 1) + 1 /\ (t - 1) * apart + ChunkSize < n
        BY <2>1, <3>2
      <4> DEFINE u == t - 1
      <4>2. (u + 1) * apart = u * apart + apart /\ u * apart \in Nat
        BY <1>4, <4>1
      <4> HIDE DEF u, apart
      <4>3. t * apart = u * apart + apart /\ u * apart + ChunkSize < n
        BY <4>1, <4>2 DEF u
      <4> QED
        BY <1>4, <4>2, <4>3
    <3> QED
      BY <3>1, <3>2
  <2> DEFINE b == t * apart
  <2> HIDE DEF b, n, apart
  <2>3. b \in Nat /\ b < n /\ upto(t) = IF b + ChunkSize < n THEN b + ChunkSize ELSE n
    BY <2>1, <2>2 DEF b
  <2>4. b + 1 \in 1 .. n /\ upto(t) \in b + 1 .. n
    <3> HIDE DEF upto
    <3> QED
      BY <1>4, <2>3
  <2> QED
    BY <2>4 DEF b
<1>7. ASSUME NEW k \in 1 .. size
      PROVE  /\ Ith(turns, k) \in turns
             /\ text[k] \in Seq(T)
             /\ Elements(text[k]) = {words[i] : i \in Ith(turns, k) * apart + 1 .. upto(Ith(turns, k))}
  <2> DEFINE t == Ith(turns, k)
  <2>1. t \in turns
    BY <1>5, IthOf
  <2> HIDE DEF t
  <2>2. text[k] = SubSeq(words, t * apart + 1, upto(t))
    BY <1>3 DEF t
  <2>3. t * apart + 1 \in 1 .. n /\ upto(t) \in t * apart + 1 .. n
    BY <1>6, <2>1
  <2> DEFINE b == t * apart + 1
             e == upto(t)
  <2> HIDE DEF b, e, turns
  <2>4. SubSeq(words, b, e) \in Seq(T) /\ Elements(SubSeq(words, b, e)) = {words[i] : i \in b .. e}
    <3>1. b \in 1 .. Len(words) /\ e \in b .. Len(words)
      BY <2>3 DEF b, e
    <3> QED
      BY <1>1, <3>1, Stretch
  <2> QED
    BY <2>1, <2>2, <2>4 DEF b, e, t
<1>8. text \in Seq(Seq(T)) /\ DOMAIN text = 1 .. size
  <2>1. text \in [1 .. size -> Seq(T)]
    BY <1>3, <1>7
  <2> HIDE DEF size
  <2> QED
    BY <1>5, <2>1
<1>9. ASSUME NEW w \in 1 .. n PROVE words[w] \in AllOf(text)
  <2>1. PICK t \in 0 .. n - 1 :
          /\ t = 0 \/ (t - 1) * apart + ChunkSize < n
          /\ t * apart + 1 <= w /\ w <= t * apart + ChunkSize
    BY <1>4, WindowsReach
  <2>2. t \in turns
    BY <2>1
  <2> DEFINE k == Rank(turns, t)
  <2>3. k \in 1 .. size /\ Ith(turns, k) = t
    BY <1>5, <2>2, RankOf, IthRank
  <2> HIDE DEF k
  <2>4. w \in t * apart + 1 .. upto(t)
    <3> DEFINE b == t * apart
    <3>1. b \in Nat
      BY <1>4, <2>1
    <3> HIDE DEF b, turns, apart
    <3>2. b + 1 <= w /\ w <= b + ChunkSize /\ w \in 1 .. n
      BY <2>1 DEF b
    <3>3. upto(t) = IF b + ChunkSize < n THEN b + ChunkSize ELSE n
      BY DEF b
    <3> HIDE DEF upto
    <3>4. w \in b + 1 .. upto(t)
      BY <1>4, <3>1, <3>2, <3>3
    <3> QED
      BY <3>4 DEF b
  <2>5. words[w] \in Elements(text[k])
    BY ZenonT(40), <1>7, <2>3, <2>4
  <2> QED
    BY <1>8, <2>3, <2>5 DEF AllOf
<1>10. Elements(words) \subseteq AllOf(text)
  <2>1. DOMAIN words = 1 .. n
    BY <1>1
  <2> QED
    BY <1>9, <2>1 DEF Elements
<1>11. ASSUME NEW k \in 1 .. size PROVE text[k] # <<>>
  <2> DEFINE b == Ith(turns, k) * apart + 1
             e == upto(Ith(turns, k))
  <2>1. b \in 1 .. n /\ e \in b .. n
    BY <1>6, <1>7
  <2>2. Elements(text[k]) = {words[i] : i \in b .. e}
    BY <1>7
  <2> HIDE DEF b, e, n
  <2>3. b \in b .. e
    BY <1>4, <2>1
  <2>4. words[b] \in Elements(text[k])
    BY <2>2, <2>3
  <2>5. Elements(<<>>) = {}
    BY DEF Elements
  <2> QED
    BY <2>4, <2>5
<1>12. \A t \in Elements(text) : t # <<>>
  BY <1>8, <1>11 DEF Elements
<1> QED
  BY <1>2, <1>8, <1>10, <1>12 DEF text

\* What CoalesceSmall has done and what it still holds back.
Piled(T) == [done : Seq(T), run : T \cup {<<>>}]
Held(acc) == AllOf(acc.done) \cup Elements(acc.run)

\* Texts that stay what they are when they are put together.
Mergeable(T, S) ==
  /\ T \subseteq Seq(S) \ {<<>>}
  /\ \A s, t \in T : s \o t \in T

\* Flushing loses nothing.
LEMMA FlushedIs ==
  ASSUME NEW S, NEW T, Mergeable(T, S), NEW acc \in Piled(T)
  PROVE  Flushed(acc) \in Seq(T) /\ AllOf(Flushed(acc)) = Held(acc)
<1>1. acc.done \in Seq(T) /\ acc.run \in T \cup {<<>>}
  BY DEF Piled
<1>2. CASE acc.run = <<>>
  <2>1. Elements(acc.run) = {}
    BY <1>2 DEF Elements
  <2> QED
    BY <1>1, <1>2, <2>1 DEF Flushed, Held
<1>3. CASE acc.run # <<>>
  BY <1>1, <1>3, AllOfAppend DEF Flushed, Held
<1> QED
  BY <1>2, <1>3

\* A piece taken is done or held back.
LEMMA TakePieceIs ==
  ASSUME DocumentsAssumption, NEW S, NEW T, Mergeable(T, S), NEW acc \in Piled(T), NEW piece \in T
  PROVE  TakePiece(acc, piece) \in Piled(T) /\ Held(TakePiece(acc, piece)) = Held(acc) \cup Elements(piece)
<1> DEFINE both == acc.run \o piece
           after == TakePiece(acc, piece)
<1>1. acc.done \in Seq(T) /\ acc.run \in T \cup {<<>>} /\ piece \in Seq(S)
  BY DEF Piled, Mergeable
<1>2. both \in T /\ Elements(both) = Elements(acc.run) \cup Elements(piece)
  <2>1. CASE acc.run = <<>>
    <3>1. both = piece /\ Elements(acc.run) = {}
      BY <1>1, <2>1, ConcatEmptySeq DEF Elements
    <3> QED
      BY <3>1
  <2>2. CASE acc.run # <<>>
    <3> DEFINE a == acc.run
    <3>1. a \in T /\ a \in Seq(S)
      BY <1>1, <2>2 DEF Mergeable
    <3> HIDE DEF a
    <3>2. a \o piece \in T
      BY <3>1 DEF Mergeable
    <3>3. Elements(a \o piece) = Elements(a) \cup Elements(piece)
      BY <1>1, <3>1, ElementsOfConcat
    <3> QED
      BY <3>2, <3>3 DEF a
  <2> QED
    BY <2>1, <2>2
<1>3. Elements(<<>>) = {}
  BY DEF Elements
<1>4. CASE Len(piece) >= MinChars
  <2> DEFINE flush == Flushed(acc)
  <2>1. flush \in Seq(T) /\ AllOf(flush) = Held(acc)
    BY FlushedIs
  <2> HIDE DEF flush
  <2>2. Append(flush, piece) \in Seq(T) /\ AllOf(Append(flush, piece)) = Held(acc) \cup Elements(piece)
    BY <2>1, AllOfAppend
  <2>3. after = [done |-> Append(flush, piece), run |-> <<>>]
    BY <1>4 DEF TakePiece, flush
  <2> HIDE DEF after
  <2>4. after \in Piled(T) /\ Held(after) = Held(acc) \cup Elements(piece)
    BY <1>3, <2>2, <2>3 DEF Piled, Held
  <2> QED
    BY <2>4 DEF after
<1>5. CASE ~(Len(piece) >= MinChars) /\ Len(both) >= MinChars
  <2> HIDE DEF both
  <2>1. Append(acc.done, both) \in Seq(T) /\ AllOf(Append(acc.done, both)) = AllOf(acc.done) \cup Elements(both)
    BY <1>1, <1>2, AllOfAppend
  <2>2. after = [done |-> Append(acc.done, both), run |-> <<>>]
    BY <1>5 DEF TakePiece, both
  <2> HIDE DEF after
  <2>3. after \in Piled(T) /\ Held(after) = Held(acc) \cup Elements(piece)
    BY <1>2, <1>3, <2>1, <2>2 DEF Piled, Held
  <2> QED
    BY <2>3 DEF after
<1>6. CASE ~(Len(piece) >= MinChars) /\ ~(Len(both) >= MinChars)
  <2> HIDE DEF both
  <2>1. after = [done |-> acc.done, run |-> both]
    BY <1>6 DEF TakePiece, both
  <2> HIDE DEF after
  <2>2. after \in Piled(T) /\ Held(after) = Held(acc) \cup Elements(piece)
    BY <1>1, <1>2, <2>1 DEF Piled, Held
  <2> QED
    BY <2>2 DEF after
<1> QED
  BY <1>4, <1>5, <1>6

\* What is merged is not lost, and of the same kind.
LEMMA CoalesceSmallIs ==
  ASSUME DocumentsAssumption, NEW S, NEW T, Mergeable(T, S), NEW pieces \in Seq(T)
  PROVE  /\ CoalesceSmall(pieces) \in Seq(T)
         /\ AllOf(CoalesceSmall(pieces)) = AllOf(pieces)
<1> DEFINE N == Len(pieces)
           base == [done |-> <<>>, run |-> <<>>]
           P0 == Piled(T)
           Run(g) == g = [n \in 0 .. N |-> IF n = 0 THEN base ELSE TakePiece(g[n - 1], pieces[n])]
<1>1. N \in Nat /\ DOMAIN pieces = 1 .. N /\ \A n \in 1 .. N : pieces[n] \in T
  OBVIOUS
<1>2. base \in P0 /\ Held(base) = {}
  <2>1. base.done = <<>> /\ base.run = <<>> /\ <<>> \in Seq(T)
    OBVIOUS
  <2> QED
    BY <2>1 DEF Piled, Held, AllOf, Elements
<1> HIDE DEF base, N
<1> DEFINE f == [n \in 1 .. N |-> [acc \in P0 |-> TakePiece(acc, pieces[n])]]
<1>3. f \in [1 .. N -> [P0 -> P0]]
  BY <1>1, TakePieceIs
<1> HIDE DEF f, P0
<1>4. \E h : Folds(h, P0, N, base, f)
  BY <1>1, <1>2, <1>3, Folding
<1>5. PICK h \in [0 .. N -> P0] : h[0] = base /\ \A n \in 1 .. N : h[n] = f[n][h[n - 1]]
  BY <1>4 DEF Folds
<1>6. ASSUME NEW n \in 1 .. N PROVE h[n - 1] \in P0 /\ h[n] = TakePiece(h[n - 1], pieces[n])
  <2>1. n - 1 \in 0 .. N
    BY <1>1
  <2>2. h[n - 1] \in P0
    BY <2>1
  <2>3. f[n][h[n - 1]] = TakePiece(h[n - 1], pieces[n])
    BY <2>2 DEF f
  <2> QED
    BY <1>5, <2>2, <2>3
<1>7. Run(h)
  <2>1. ASSUME NEW n \in 0 .. N PROVE h[n] = IF n = 0 THEN base ELSE TakePiece(h[n - 1], pieces[n])
    <3>1. n # 0 => n \in 1 .. N
      BY <1>1
    <3> QED
      BY <1>5, <1>6, <3>1
  <2> QED
    BY <2>1
<1> DEFINE k == CHOOSE g : Run(g)
<1>8. Run(k)
  <2> HIDE DEF Run
  <2> QED
    BY <1>7
<1>9. CoalesceSmall(pieces) = Flushed(k[N])
  BY DEF CoalesceSmall, base, N
<1> HIDE DEF k
<1>10. \A n \in 0 .. N : k[n] = IF n = 0 THEN base ELSE TakePiece(k[n - 1], pieces[n])
  BY <1>8
<1> HIDE DEF Run
<1> DEFINE P == {n \in Nat : n <= N => /\ k[n] \in P0
                                      /\ Held(k[n]) = UNION {Elements(pieces[i]) : i \in 1 .. n}}
<1>11. 0 \in P
  <2>1. k[0] = base
    BY <1>1, <1>10
  <2>2. 1 .. 0 = {}
    OBVIOUS
  <2>3. UNION {Elements(pieces[i]) : i \in 1 .. 0} = {}
    BY <2>2
  <2> QED
    BY <1>2, <2>1, <2>3
<1>12. ASSUME NEW n \in Nat, n \in P, n + 1 <= N
       PROVE  k[n + 1] \in P0 /\ Held(k[n + 1]) = UNION {Elements(pieces[i]) : i \in 1 .. n + 1}
  <2>1. n <= N /\ n + 1 \in 1 .. N /\ n + 1 \in 0 .. N /\ n + 1 # 0 /\ (n + 1) - 1 = n
    BY <1>1, <1>12
  <2>2. k[n] \in P0 /\ Held(k[n]) = UNION {Elements(pieces[i]) : i \in 1 .. n}
    BY <1>12, <2>1
  <2>3. k[n + 1] = TakePiece(k[n], pieces[n + 1])
    BY <1>10, <2>1
  <2> DEFINE acc == k[n]
             piece == pieces[n + 1]
  <2>4. acc \in Piled(T) /\ piece \in T
    BY <1>1, <2>1, <2>2 DEF P0
  <2> HIDE DEF acc, piece
  <2>5. TakePiece(acc, piece) \in Piled(T) /\ Held(TakePiece(acc, piece)) = Held(acc) \cup Elements(piece)
    BY <2>4, TakePieceIs
  <2>6. 1 .. n + 1 = (1 .. n) \cup {n + 1}
    OBVIOUS
  <2>7. UNION {Elements(pieces[i]) : i \in 1 .. n + 1}
          = (UNION {Elements(pieces[i]) : i \in 1 .. n}) \cup Elements(pieces[n + 1])
    <3>1. \A i : i \in 1 .. n + 1 <=> i \in 1 .. n \/ i = n + 1
      BY <2>6
    <3> QED
      BY <3>1
  <2>8. k[n + 1] \in P0 /\ Held(k[n + 1]) = Held(k[n]) \cup Elements(pieces[n + 1])
    BY <2>3, <2>5 DEF acc, piece, P0
  <2> QED
    BY <2>2, <2>7, <2>8
<1>13. ASSUME NEW n \in Nat, n \in P PROVE n + 1 \in P
  <2>1. n + 1 \in Nat
    OBVIOUS
  <2>2. n + 1 <= N => /\ k[n + 1] \in P0
                      /\ Held(k[n + 1]) = UNION {Elements(pieces[i]) : i \in 1 .. n + 1}
    BY <1>12, <1>13
  <2> QED
    BY <2>1, <2>2
<1> HIDE DEF P
<1>14. N \in P
  BY <1>1, <1>11, <1>13, SetInduction
<1>15. k[N] \in P0 /\ Held(k[N]) = AllOf(pieces)
  BY <1>1, <1>14 DEF P, AllOf
<1> QED
  BY <1>9, <1>15, FlushedIs DEF P0

\* Two rows of a table, on lines like no other.
TablePair(lines, x, y) ==
  /\ x.kind = "row" /\ y.kind = "row"
  /\ \E i \in 1 .. Len(lines) - 1 :
       \A k \in DOMAIN lines : /\ lines[k] = x <=> k = i
                               /\ lines[k] = y <=> k = i + 1

\* The segments of a text have all of its lines, and a table is in one.
LEMMA SegmentMarkdownIs ==
  ASSUME NEW T, NEW lines \in Seq(T)
  PROVE  LET segments == SegmentMarkdown(lines)
         IN  /\ segments \in Seq([atomic : BOOLEAN, lines : Seq(T)])
             /\ \A l \in Elements(lines) : \E n \in DOMAIN segments : l \in Elements(segments[n].lines)
             /\ \A n \in DOMAIN segments :
                  /\ segments[n].lines # <<>>
                  /\ Elements(segments[n].lines) \subseteq Elements(lines)
                  /\ \A x, y : TablePair(lines, x, y) =>
                       /\ x \in Elements(segments[n].lines) <=> y \in Elements(segments[n].lines)
                       /\ x \in Elements(segments[n].lines) => segments[n].atomic
<1> DEFINE segments == SegmentMarkdown(lines)
           Sort(i) == CASE Fenced(lines, i) -> "fence" [] Tabled(lines, i) -> "table" [] OTHER -> "prose"
           cuts == {i \in 1 .. Len(lines) - 1 : Sort(i) # Sort(i + 1) \/ ClosesFence(lines, i)}
           spans == Spans(Len(lines), cuts)
<1>1. segments = [n \in DOMAIN spans |-> [atomic |-> Sort(spans[n].from) # "prose",
                                          lines |-> SubSeq(lines, spans[n].from, spans[n].to)]]
  BY DEF SegmentMarkdown
<1>2. Len(lines) \in Nat /\ cuts \in SUBSET (1 .. Len(lines) - 1) /\ DOMAIN lines = 1 .. Len(lines)
  OBVIOUS
<1>8. ASSUME NEW i \in 1 .. Len(lines) - 1, i \notin cuts PROVE Sort(i) = Sort(i + 1)
  BY <1>8
<1>9. ASSUME NEW i \in 1 .. Len(lines) - 1, lines[i].kind = "row", lines[i + 1].kind = "row"
      PROVE  Sort(i) # "prose" /\ i \notin cuts
  <2> DEFINE fences == OfKind(lines, {"fence"})
  <2>1. i \in DOMAIN lines /\ i + 1 \in DOMAIN lines /\ i \notin fences /\ i + 1 \notin fences
    BY <1>2, <1>9 DEF OfKind
  <2>2. \A j \in fences : j \in Nat
    BY <1>2 DEF OfKind
  <2>3. \A j \in fences : j < i <=> j < i + 1
    BY <1>2, <2>1, <2>2
  <2> HIDE DEF fences
  <2>4. {j \in fences : j < i} = {j \in fences : j < i + 1}
    BY <2>3
  <2>5. Fenced(lines, i) <=> Fenced(lines, i + 1)
    BY <2>1, <2>4 DEF Fenced, fences
  <2>6. ~ClosesFence(lines, i)
    BY <1>9 DEF ClosesFence
  <2>7. ~Fenced(lines, i) => Tabled(lines, i) /\ Tabled(lines, i + 1)
    <3>1. i + 1 \in {i - 1, i + 1} \cap DOMAIN lines
      BY <2>1
    <3>2. i \in {(i + 1) - 1, (i + 1) + 1} \cap DOMAIN lines
      BY <2>1
    <3> QED
      BY <1>9, <2>5, <3>1, <3>2 DEF Tabled
  <2>8. Fenced(lines, i) => ~Tabled(lines, i) /\ ~Tabled(lines, i + 1)
    BY <2>5 DEF Tabled
  <2>9. CASE Fenced(lines, i)
    <3>1. Sort(i) = "fence" /\ Sort(i + 1) = "fence"
      BY <2>5, <2>8, <2>9
    <3> QED
      BY <2>6, <3>1
  <2>10. CASE ~Fenced(lines, i)
    <3>1. Sort(i) = "table" /\ Sort(i + 1) = "table"
      BY <2>5, <2>7, <2>10
    <3> QED
      BY <2>6, <3>1
  <2> QED
    BY <2>9, <2>10
<1> HIDE DEF segments, Sort, cuts
<1>3. /\ \E n \in Nat : DOMAIN spans = 1 .. n
      /\ \A n \in DOMAIN spans :
           /\ spans[n].from \in 1 .. Len(lines) /\ spans[n].to \in spans[n].from .. Len(lines)
           /\ \A c \in cuts : ~(spans[n].from <= c /\ c < spans[n].to)
           /\ spans[n].from = 1 \/ spans[n].from - 1 \in cuts
           /\ spans[n].to = Len(lines) \/ spans[n].to \in cuts
      /\ \A i \in 1 .. Len(lines) : \E n \in DOMAIN spans : spans[n].from <= i /\ i <= spans[n].to
  BY <1>2, SpansAre
<1> HIDE DEF spans
<1>4. ASSUME NEW n \in DOMAIN spans
      PROVE  /\ segments[n] \in [atomic : BOOLEAN, lines : Seq(T)]
             /\ Elements(segments[n].lines) = {lines[i] : i \in spans[n].from .. spans[n].to}
             /\ segments[n].atomic = (Sort(spans[n].from) # "prose")
  <2> DEFINE a == spans[n].from
             b == spans[n].to
  <2>1. a \in 1 .. Len(lines) /\ b \in a .. Len(lines)
    BY <1>3
  <2>2. segments[n] = [atomic |-> Sort(a) # "prose", lines |-> SubSeq(lines, a, b)]
    BY <1>1
  <2> HIDE DEF a, b
  <2>3. SubSeq(lines, a, b) \in Seq(T) /\ Elements(SubSeq(lines, a, b)) = {lines[i] : i \in a .. b}
    BY <2>1, Stretch
  <2> QED
    BY <2>2, <2>3 DEF a, b
<1>5. DOMAIN segments = DOMAIN spans
  BY <1>1
<1>6. segments \in Seq([atomic : BOOLEAN, lines : Seq(T)])
  <2>1. PICK n \in Nat : DOMAIN spans = 1 .. n
    BY <1>3
  <2> DEFINE S == [atomic : BOOLEAN, lines : Seq(T)]
  <2>2. \A i \in 1 .. n : segments[i] \in S
    BY <1>4, <2>1
  <2> HIDE DEF S
  <2>3. segments \in [1 .. n -> S]
    BY <1>1, <2>1, <2>2
  <2>4. segments \in Seq(S)
    BY <2>3
  <2> QED
    BY <2>4 DEF S
<1>7. ASSUME NEW l \in Elements(lines)
      PROVE  \E n \in DOMAIN segments : l \in Elements(segments[n].lines)
  <2>1. PICK i \in 1 .. Len(lines) : l = lines[i]
    BY <1>2 DEF Elements
  <2>2. PICK n \in DOMAIN spans : spans[n].from <= i /\ i <= spans[n].to
    BY <1>3
  <2>3. i \in spans[n].from .. spans[n].to
    BY <1>2, <1>3, <2>2
  <2> QED
    BY <1>4, <1>5, <2>1, <2>3
\* A segment is of one sort.
<1>10. ASSUME NEW n \in DOMAIN spans, NEW i \in spans[n].from .. spans[n].to
       PROVE  Sort(i) = Sort(spans[n].from)
  <2> DEFINE a == spans[n].from
             b == spans[n].to
             P == {m \in Nat : a + m <= b => Sort(a + m) = Sort(a)}
  <2>1. a \in 1 .. Len(lines) /\ b \in a .. Len(lines) /\ i \in a .. b /\ \A c \in cuts : ~(a <= c /\ c < b)
    BY <1>3
  <2> HIDE DEF a, b
  <2>2. 0 \in P
    <3>1. a + 0 = a
      BY <2>1
    <3> QED
      BY <3>1
  <2>3. ASSUME NEW m \in Nat, m \in P, a + (m + 1) <= b PROVE Sort(a + (m + 1)) = Sort(a)
    <3> DEFINE c == a + m
    <3>1. c \in 1 .. Len(lines) - 1 /\ a <= c /\ c < b /\ c <= b /\ a + (m + 1) = c + 1
      BY <1>2, <2>1, <2>3
    <3>2. Sort(c) = Sort(a)
      BY <2>3, <3>1
    <3> HIDE DEF c
    <3>3. c \notin cuts
      BY <2>1, <3>1
    <3>4. Sort(c) = Sort(c + 1)
      BY <1>8, <3>1, <3>3
    <3> QED
      BY <3>1, <3>2, <3>4
  <2>4. \A m \in Nat : m \in P => m + 1 \in P
    BY <2>3
  <2> HIDE DEF P
  <2>5. i - a \in P
    <3>1. i - a \in Nat
      BY <2>1
    <3> QED
      BY <2>2, <2>4, <3>1, SetInduction
  <2>6. a + (i - a) = i /\ i <= b
    BY <2>1
  <2>7. Sort(i) = Sort(a)
    BY <2>5, <2>6 DEF P
  <2> QED
    BY <2>7 DEF a
<1>11. ASSUME NEW n \in DOMAIN segments
       PROVE  segments[n].lines # <<>> /\ Elements(segments[n].lines) \subseteq Elements(lines)
  <2> DEFINE a == spans[n].from
             b == spans[n].to
  <2>1. a \in 1 .. Len(lines) /\ b \in a .. Len(lines) /\ Elements(segments[n].lines) = {lines[i] : i \in a .. b}
    BY <1>3, <1>4, <1>5
  <2> HIDE DEF a, b
  <2>2. lines[a] \in Elements(segments[n].lines)
    <3>1. a \in a .. b
      BY <1>2, <2>1
    <3> QED
      BY <2>1, <3>1
  <2>3. Elements(<<>>) = {}
    BY DEF Elements
  <2>4. \A i \in a .. b : i \in DOMAIN lines
    BY <1>2, <2>1
  <2>5. \A l \in Elements(segments[n].lines) : l \in Elements(lines)
    BY <2>1, <2>4 DEF Elements
  <2> QED
    BY <2>2, <2>3, <2>5
<1>12. ASSUME NEW n \in DOMAIN segments, NEW x, NEW y, TablePair(lines, x, y)
       PROVE  /\ x \in Elements(segments[n].lines) <=> y \in Elements(segments[n].lines)
              /\ x \in Elements(segments[n].lines) => segments[n].atomic
  <2> DEFINE a == spans[n].from
             b == spans[n].to
  <2>1. /\ a \in 1 .. Len(lines) /\ b \in a .. Len(lines)
        /\ a = 1 \/ a - 1 \in cuts
        /\ b = Len(lines) \/ b \in cuts
        /\ Elements(segments[n].lines) = {lines[i] : i \in a .. b}
        /\ segments[n].atomic = (Sort(a) # "prose")
    BY <1>3, <1>4, <1>5
  <2>2. PICK i \in 1 .. Len(lines) - 1 :
          \A k \in DOMAIN lines : (lines[k] = x <=> k = i) /\ (lines[k] = y <=> k = i + 1)
    BY <1>12 DEF TablePair
  <2>3. i \in DOMAIN lines /\ i + 1 \in DOMAIN lines
    BY <1>2
  <2>4. lines[i] = x /\ lines[i + 1] = y /\ x.kind = "row" /\ y.kind = "row"
    BY <1>12, <2>2, <2>3 DEF TablePair
  <2>5. Sort(i) # "prose" /\ i \notin cuts
    BY <1>9, <2>4
  <2>6. \A k \in a .. b : k \in DOMAIN lines
    BY <1>2, <2>1
  <2>7. x \in Elements(segments[n].lines) <=> i \in a .. b
    BY <2>1, <2>2, <2>4, <2>6
  <2>8. y \in Elements(segments[n].lines) <=> i + 1 \in a .. b
    BY <2>1, <2>2, <2>4, <2>6
  <2>9. i \in a .. b => Sort(i) = Sort(a)
    BY <1>5, <1>10
  <2> HIDE DEF a, b
  <2>10. i \in a .. b <=> i + 1 \in a .. b
    <3> DEFINE N == Len(lines)
    <3>1. /\ N \in Nat /\ a \in 1 .. N /\ b \in a .. N /\ i \in 1 .. N - 1
          /\ a = 1 \/ a - 1 \in cuts
          /\ b = N \/ b \in cuts
      BY <1>2, <2>1
    <3>2. i \notin cuts
      BY <2>5
    <3> HIDE DEF N
    <3>3. i # b
      <4>1. CASE b = N
        BY <3>1, <4>1
      <4>2. CASE b \in cuts
        BY <3>2, <4>2
      <4> QED
        BY <3>1, <4>1, <4>2
    <3>4. i # a - 1
      <4>1. CASE a = 1
        BY <3>1, <4>1
      <4>2. CASE a - 1 \in cuts
        BY <3>2, <4>2
      <4> QED
        BY <3>1, <4>1, <4>2
    <3> QED
      BY <3>1, <3>3, <3>4
  <2> QED
    BY <2>1, <2>5, <2>7, <2>8, <2>9, <2>10
<1> QED
  BY <1>6, <1>7, <1>11, <1>12 DEF segments

\* Texts of some lines, with both rows of a pair or neither.
Whole(lines, T) ==
  {s \in Seq(T) \ {<<>>} : /\ Elements(s) \subseteq Elements(lines)
                           /\ \A x, y : TablePair(lines, x, y) => (x \in Elements(s) <=> y \in Elements(s))}

\* Pieces with whole tables can be merged.
LEMMA WholeIsMergeable ==
  ASSUME NEW T, NEW lines
  PROVE  Mergeable(Whole(lines, T), T)
<1>1. ASSUME NEW s \in Whole(lines, T), NEW t \in Whole(lines, T) PROVE s \o t \in Whole(lines, T)
  <2>1. s \in Seq(T) /\ t \in Seq(T) /\ s # <<>>
    BY DEF Whole
  <2>2. s \o t \in Seq(T) /\ Elements(s \o t) = Elements(s) \cup Elements(t)
    BY <2>1, ElementsOfConcat
  <2>3. s \o t # <<>>
    BY <2>1
  <2> DEFINE u == s \o t
  <2>4. Elements(u) \subseteq Elements(lines)
    BY <2>2 DEF Whole
  <2>5. ASSUME NEW x, NEW y, TablePair(lines, x, y) PROVE x \in Elements(u) <=> y \in Elements(u)
    <3>1. (x \in Elements(s) <=> y \in Elements(s)) /\ (x \in Elements(t) <=> y \in Elements(t))
      BY <2>5 DEF Whole
    <3> QED
      BY <2>2, <3>1
  <2>6. u \in Seq(T) /\ u # <<>>
    BY <2>2, <2>3
  <2> HIDE DEF u
  <2>7. u \in Whole(lines, T)
    BY <2>4, <2>5, <2>6 DEF Whole
  <2> QED
    BY <2>7 DEF u
<1>2. Whole(lines, T) \subseteq Seq(T) \ {<<>>}
  BY DEF Whole
<1> QED
  BY <1>1, <1>2 DEF Mergeable

\* The chunks of a section have all of its words.
LEMMA ChunkMarkdownIs ==
  ASSUME DocumentsAssumption, NEW T, NEW lines \in Seq(T)
  PROVE  /\ ChunkMarkdown(lines) \in Seq(Whole(lines, T))
         /\ Worded(lines) \subseteq AllOf(ChunkMarkdown(lines))
<1> DEFINE W == Whole(lines, T)
           segments == SegmentMarkdown(lines)
           m == [i \in DOMAIN segments |-> IF segments[i].atomic THEN <<segments[i].lines>>
                                           ELSE ChunkText(segments[i].lines)]
           pieces == FlattenSeq(m)
<1>1. ChunkMarkdown(lines) = CoalesceSmall(pieces)
  BY DEF ChunkMarkdown, Each
<1>2. /\ segments \in Seq([atomic : BOOLEAN, lines : Seq(T)])
      /\ \A l \in Elements(lines) : \E n \in DOMAIN segments : l \in Elements(segments[n].lines)
      /\ \A n \in DOMAIN segments :
           /\ segments[n].lines # <<>>
           /\ Elements(segments[n].lines) \subseteq Elements(lines)
           /\ \A x, y : TablePair(lines, x, y) =>
                /\ x \in Elements(segments[n].lines) <=> y \in Elements(segments[n].lines)
                /\ x \in Elements(segments[n].lines) => segments[n].atomic
  BY SegmentMarkdownIs
<1> HIDE DEF segments, W
<1>3. ASSUME NEW i \in DOMAIN segments
      PROVE  m[i] \in Seq(W) /\ Worded(segments[i].lines) \subseteq AllOf(m[i])
  <2> DEFINE ls == segments[i].lines
  <2>1. ls \in Seq(T)
    <3> DEFINE S == [atomic : BOOLEAN, lines : Seq(T)]
    <3>1. segments \in Seq(S)
      BY <1>2
    <3> HIDE DEF S
    <3>2. segments[i] \in S
      BY <3>1
    <3> QED
      BY <3>2 DEF S
  <2>2. /\ ls # <<>> /\ Elements(ls) \subseteq Elements(lines)
        /\ \A x, y : TablePair(lines, x, y) =>
             (x \in Elements(ls) <=> y \in Elements(ls)) /\ (x \in Elements(ls) => segments[i].atomic)
    BY <1>2
  <2>3. CASE segments[i].atomic
    <3>1. m[i] = <<ls>>
      BY <2>3
    <3> HIDE DEF ls, m
    <3>2. ls \in W
      BY <2>1, <2>2 DEF W, Whole
    <3>3. <<ls>> \in Seq(W) /\ Elements(<<ls>>) = {ls}
      BY <3>2 DEF Elements
    <3>4. \A e \in Elements(ls) : e \in AllOf(<<ls>>)
      BY <3>3, InAllOf
    <3>5. Worded(ls) \subseteq AllOf(m[i])
      BY <3>1, <3>4 DEF Worded
    <3> QED
      BY <3>1, <3>3, <3>5 DEF ls
  <2>4. CASE ~segments[i].atomic
    <3>1. m[i] = ChunkText(ls)
      BY <2>4
    <3> DEFINE L == Elements(ls)
               x == ChunkText(ls)
    <3> HIDE DEF ls, m
    <3>2. L \subseteq T /\ ls \in Seq(L)
      BY <2>1, ElementsAreIn, OverOwn
    <3> HIDE DEF L
    <3>3. x \in Seq(Seq(L)) /\ Worded(ls) \subseteq AllOf(x) /\ \A t \in Elements(x) : t # <<>>
      BY <3>2, ChunkTextIs
    <3> HIDE DEF x
    <3>4. ASSUME NEW t \in DOMAIN x PROVE x[t] \in W
      <4>1. x[t] \in Seq(L) /\ x[t] # <<>>
        BY <3>3 DEF Elements
      <4>2. x[t] \in Seq(T) /\ Elements(x[t]) \subseteq L
        BY <3>2, <4>1, SeqOfMore, ElementsAreIn
      <4>3. ASSUME NEW u, NEW v, TablePair(lines, u, v) PROVE u \notin L /\ v \notin L
        BY <2>2, <2>4, <4>3 DEF L
      <4>4. Elements(x[t]) \subseteq Elements(lines)
        BY <2>2, <4>2 DEF L
      <4> QED
        BY <4>1, <4>2, <4>3, <4>4 DEF W, Whole
    <3>5. x \in Seq(W)
      <4>1. Len(x) \in Nat /\ DOMAIN x = 1 .. Len(x) /\ x = [k \in 1 .. Len(x) |-> x[k]]
        BY <3>3
      <4>2. x \in [1 .. Len(x) -> W]
        BY <3>4, <4>1
      <4> QED
        BY <4>1, <4>2, TableIsSeq
    <3> QED
      BY <3>1, <3>3, <3>5 DEF ls, x
  <2> QED
    BY <2>3, <2>4
<1>4. m \in Seq(Seq(W)) /\ DOMAIN m = DOMAIN segments
  <2>1. DOMAIN segments = 1 .. Len(segments) /\ Len(segments) \in Nat
    BY <1>2
  <2>2. m \in [1 .. Len(segments) -> Seq(W)]
    BY <1>3, <2>1
  <2> HIDE DEF m
  <2> QED
    BY <2>1, <2>2
<1> HIDE DEF m
<1>5. pieces \in Seq(W)
  BY <1>4, ElementsOfFlat
<1>6. Worded(lines) \subseteq AllOf(pieces)
  <2> SUFFICES ASSUME NEW l \in Worded(lines) PROVE l \in AllOf(pieces)
    OBVIOUS
  <2>1. PICK n \in DOMAIN segments : l \in Elements(segments[n].lines)
    BY <1>2 DEF Worded
  <2>2. l \in Worded(segments[n].lines)
    BY <2>1 DEF Worded
  <2>3. l \in AllOf(m[n])
    BY <1>3, <2>2
  <2>4. m \in Seq(Seq(Seq(T)))
    <3>1. Seq(W) \subseteq Seq(Seq(T))
      <4>1. W \subseteq Seq(T)
        BY DEF W, Whole
      <4> QED
        BY <4>1, SeqOfMore
    <3> QED
      BY <1>4, <3>1, SeqOfMore
  <2> QED
    BY <1>4, <2>3, <2>4, AllOfFlat
<1> HIDE DEF pieces
<1>7. CoalesceSmall(pieces) \in Seq(W) /\ AllOf(CoalesceSmall(pieces)) = AllOf(pieces)
  <2>1. Mergeable(W, T)
    BY WholeIsMergeable DEF W
  <2> QED
    BY <1>5, <2>1, CoalesceSmallIs
<1> QED
  BY <1>1, <1>6, <1>7 DEF W

\* The key of a line: page, number, and place in a picture.
LineKey == Nat \X Nat \X Nat
AnyChunk(T) == [lines : Seq(T), page : Nat, section : LineKey \cup {NoSection}]
TextIn(made) == UNION {Elements(made[c].lines) : c \in DOMAIN made}

\* The heading in force has the key of a line, unless there is none.
LEMMA HeadingIs ==
  ASSUME NEW lines \in Seq(AnyLine), NEW before \in LineKey \cup {NoSection}
  PROVE  HeadingOf(lines, before) \in LineKey \cup {NoSection}
<1> DEFINE headings == OfKind(lines, {"heading"})
           n == Cardinality(headings)
<1>1. DOMAIN lines = 1 .. Len(lines) /\ Len(lines) \in Nat /\ headings \subseteq DOMAIN lines
  BY DEF OfKind
<1>2. headings \in SUBSET Nat /\ IsFiniteSet(headings)
  <2>1. IsFiniteSet(1 .. Len(lines))
    BY <1>1, CardinalityOfInterval
  <2> QED
    BY <1>1, <2>1, FS_Subset
<1> HIDE DEF headings
<1>3. CASE headings = {}
  <2>1. HeadingOf(lines, before) = before
    BY <1>3 DEF HeadingOf, headings
  <2> QED
    BY <2>1
<1>4. CASE headings # {}
  <2>1. n \in Nat /\ n # 0
    BY <1>2, <1>4, FS_EmptySet, FS_CardinalityType
  <2>2. n \in 1 .. Cardinality(headings)
    BY <2>1
  <2> HIDE DEF n
  <2>3. Ith(headings, n) \in headings
    BY <1>2, <2>2, IthOf
  <2>4. lines[Ith(headings, n)] \in AnyLine
    BY <1>1, <2>3
  <2>5. HeadingOf(lines, before) = lines[Ith(headings, n)].key
    BY <1>4 DEF HeadingOf, headings, n
  <2> QED
    BY <2>4, <2>5 DEF AnyLine, LineKey
<1> QED
  BY <1>3, <1>4

\* Nothing of a page is lost in its chunks.
\* The heading in force stays until the next one.
LEMMA HeadingStays ==
  ASSUME NEW T, NEW lines \in Seq(T), NEW before, NEW k \in DOMAIN lines, NEW b \in k .. Len(lines),
         \A i \in k + 1 .. b : lines[i].kind # "heading"
  PROVE  HeadingOf(SubSeq(lines, 1, k), before) = HeadingOf(SubSeq(lines, 1, b), before)
<1> DEFINE N == Len(lines)
           s == SubSeq(lines, 1, k)
           t == SubSeq(lines, 1, b)
           H == OfKind(s, {"heading"})
           n == Cardinality(H)
<1>1. N \in Nat /\ DOMAIN lines = 1 .. N /\ k \in 1 .. N /\ b \in k .. N /\ b \in 1 .. N
  OBVIOUS
<1>2. /\ DOMAIN s = 1 .. k /\ DOMAIN t = 1 .. b
      /\ \A i \in 1 .. k : s[i] = lines[i]
      /\ \A i \in 1 .. b : t[i] = lines[i]
  <2>1. Len(s) = k /\ \A i \in 1 .. k : s[i] = lines[i]
    <3>1. 1 \in Int /\ k \in Int /\ \A i \in 1 .. k : lines[i] \in T
      BY <1>1
    <3>2. /\ Len(s) = IF 1 <= k THEN k - 1 + 1 ELSE 0
          /\ \A i \in 1 .. k - 1 + 1 : s[i] = lines[1 + i - 1]
      BY <3>1, SubSeqProperties
    <3>3. k - 1 + 1 = k /\ 1 <= k /\ \A i \in 1 .. k : 1 + i - 1 = i
      BY <1>1
    <3> HIDE DEF s
    <3> QED
      BY <3>2, <3>3
  <2>2. Len(t) = b /\ \A i \in 1 .. b : t[i] = lines[i]
    <3>1. 1 \in Int /\ b \in Int /\ \A i \in 1 .. b : lines[i] \in T
      BY <1>1
    <3>2. /\ Len(t) = IF 1 <= b THEN b - 1 + 1 ELSE 0
          /\ \A i \in 1 .. b - 1 + 1 : t[i] = lines[1 + i - 1]
      BY <3>1, SubSeqProperties
    <3>3. b - 1 + 1 = b /\ 1 <= b /\ \A i \in 1 .. b : 1 + i - 1 = i
      BY <1>1
    <3> HIDE DEF t
    <3> QED
      BY <3>2, <3>3
  <2>3. DOMAIN s = 1 .. Len(s) /\ DOMAIN t = 1 .. Len(t)
    <3>1. \A i \in 1 .. k : lines[i] \in T
      BY <1>1
    <3>2. \A i \in 1 .. b : lines[i] \in T
      BY <1>1
    <3>3. s \in Seq(T) /\ t \in Seq(T)
      BY <1>1, <3>1, <3>2, SubSeqProperties
    <3> HIDE DEF s, t
    <3> QED
      BY <3>3
  <2> QED
    BY <2>1, <2>2, <2>3
<1> HIDE DEF s, t, N
<1>3. H = OfKind(t, {"heading"})
  <2>1. \A i \in H : i \in DOMAIN t /\ t[i].kind = "heading"
    BY <1>1, <1>2 DEF OfKind
  <2>2. ASSUME NEW i \in 1 .. b, t[i].kind = "heading" PROVE i \in 1 .. k
    <3>1. ~(i \in k + 1 .. b)
      BY <1>2, <2>2
    <3> QED
      BY <1>1, <3>1
  <2>3. \A i \in 1 .. b : t[i].kind = "heading" => i \in H
    BY <1>1, <1>2, <2>2 DEF OfKind
  <2> HIDE DEF H
  <2> QED
    BY <1>2, <2>1, <2>3 DEF OfKind
<1>4. H \subseteq 1 .. k /\ H \in SUBSET Nat
  BY <1>1, <1>2 DEF OfKind
<1> HIDE DEF H
<1>5. CASE H = {}
  <2>1. HeadingOf(s, before) = before
    BY <1>5 DEF HeadingOf, H
  <2>2. HeadingOf(t, before) = before
    BY <1>3, <1>5 DEF HeadingOf
  <2> QED
    BY <2>1, <2>2 DEF s, t
<1>6. CASE H # {}
  <2>1. IsFiniteSet(1 .. k)
    BY <1>1, CardinalityOfInterval
  <2>2. IsFiniteSet(H)
    BY <1>4, <2>1, FS_Subset
  <2>3. n \in Nat /\ n # 0
    BY <1>6, <2>2, FS_EmptySet, FS_CardinalityType
  <2> HIDE DEF n
  <2>4. n \in 1 .. Cardinality(H)
    BY <2>3 DEF n
  <2>5. Ith(H, n) \in 1 .. k
    BY <1>4, <2>2, <2>4, IthOf
  <2>6. s[Ith(H, n)] = t[Ith(H, n)]
    <3>1. \A i \in 1 .. k : i \in 1 .. b
      BY <1>1
    <3> QED
      BY <1>2, <2>5, <3>1
  <2>7. HeadingOf(s, before) = s[Ith(H, n)].key
    BY <1>6 DEF HeadingOf, H, n
  <2>8. HeadingOf(t, before) = t[Ith(H, n)].key
    BY <1>3, <1>6 DEF HeadingOf, n
  <2> QED
    BY <2>6, <2>7, <2>8 DEF s, t
<1> QED
  BY <1>5, <1>6 DEF s, t

\* Below a text, a section has no heading.
LEMMA SectionsEnd ==
  ASSUME NEW T, NEW lines \in Seq(T), NEW k \in DOMAIN lines, NEW b \in k .. Len(lines),
         lines[k].kind \notin {"heading", "blank"},
         \A c \in SectionCuts(lines) : ~(k <= c /\ c < b)
  PROVE  \A i \in k + 1 .. b : lines[i].kind # "heading"
<1> DEFINE H == {i \in k + 1 .. b : lines[i].kind = "heading"}
<1>1. SUFFICES ASSUME H # {} PROVE FALSE
  OBVIOUS
<1>2. Len(lines) \in Nat /\ DOMAIN lines = 1 .. Len(lines) /\ k \in Nat /\ b \in Nat /\ k # 0 /\ b <= Len(lines)
  OBVIOUS
<1>3. PICK h \in H : \A i \in H : h <= i
  <2>1. H \in SUBSET Nat
    BY <1>2
  <2> HIDE DEF H
  <2> QED
    BY <1>1, <2>1, LeastOf
<1>4. h \in k + 1 .. b /\ lines[h].kind = "heading" /\ h \in Nat /\ h - 1 \in Nat
      /\ h \in DOMAIN lines
  <2>1. h \in k + 1 .. b /\ lines[h].kind = "heading"
    BY <1>3
  <2> QED
    BY <1>2, <2>1
<1> DEFINE J == {i \in k .. h - 1 : lines[i].kind # "blank"}
<1>5. PICK j \in J : \A i \in J : i <= j
  <2>1. J \in SUBSET Nat /\ \A i \in J : i <= h - 1
    BY <1>2, <1>4
  <2>2. k \in J
    BY <1>2, <1>4
  <2> HIDE DEF J
  <2> QED
    BY <1>4, <2>1, <2>2, GreatestOf
<1>6. j \in k .. h - 1 /\ lines[j].kind # "blank"
  BY <1>5
<1>7. lines[j].kind # "heading"
  <2>1. CASE j = k
    BY <2>1
  <2>2. CASE j # k
    <3>1. j \in k + 1 .. b /\ ~(h <= j)
      BY <1>2, <1>4, <1>6, <2>2
    <3>2. j \notin H
      BY <1>3, <3>1
    <3> QED
      BY <3>1, <3>2
  <2> QED
    BY <2>1, <2>2
<1>8. \A i \in j + 1 .. h - 1 : lines[i].kind = "blank"
  <2> SUFFICES ASSUME NEW i \in j + 1 .. h - 1, lines[i].kind # "blank" PROVE FALSE
    OBVIOUS
  <2>1. i \in k .. h - 1 /\ ~(i <= j)
    BY <1>2, <1>4, <1>6
  <2> QED
    BY <1>5, <2>1
<1>9. j \in 1 .. h - 1
  BY <1>2, <1>4, <1>6
<1> HIDE DEF H, J
<1>10. h - 1 \in SectionCuts(lines)
  <2>1. h \in OfKind(lines, {"heading"})
    BY <1>4 DEF OfKind
  <2>2. \E i \in 1 .. h - 1 : /\ lines[i].kind \notin {"heading", "blank"}
                              /\ \A m \in i + 1 .. h - 1 : lines[m].kind = "blank"
    BY <1>6, <1>7, <1>8, <1>9
  <2> QED
    BY <2>1, <2>2 DEF SectionCuts
<1>11. k <= h - 1 /\ h - 1 < b
  BY <1>2, <1>4
<1> QED
  BY <1>10, <1>11

\* A pair of rows is in a section or not, and what a stretch has of it is a pair.
LEMMA PairsAreWhole ==
  ASSUME NEW T, NEW lines \in Seq(T), NEW x, NEW y, TablePair(lines, x, y),
         NEW a \in 1 .. Len(lines), NEW b \in a .. Len(lines),
         a = 1 \/ a - 1 \in SectionCuts(lines),
         b = Len(lines) \/ b \in SectionCuts(lines)
  PROVE  LET sub == SubSeq(lines, a, b)
         IN  \/ x \notin Elements(sub) /\ y \notin Elements(sub)
             \/ TablePair(sub, x, y)
<1> DEFINE N == Len(lines)
           cuts == SectionCuts(lines)
           sub == SubSeq(lines, a, b)
<1>1. N \in Nat /\ DOMAIN lines = 1 .. N /\ a \in 1 .. N /\ b \in a .. N
  OBVIOUS
<1>2. PICK i \in 1 .. N - 1 : \A k \in DOMAIN lines : (lines[k] = x <=> k = i) /\ (lines[k] = y <=> k = i + 1)
  BY DEF TablePair
<1>3. x.kind = "row" /\ y.kind = "row"
  BY DEF TablePair
<1> HIDE DEF N
<1>15. i \in Nat /\ i # 0 /\ i + 1 <= N /\ i <= N
  BY <1>1
<1>4. i \in DOMAIN lines /\ i + 1 \in DOMAIN lines
  BY <1>1, <1>15
<1>5. i \notin cuts
  <2> SUFFICES ASSUME i \in cuts PROVE FALSE
    OBVIOUS
  <2>1. PICK h \in OfKind(lines, {"heading"}) : i = h - 1
    BY DEF SectionCuts
  <2>2. h \in DOMAIN lines /\ lines[h].kind = "heading"
    BY DEF OfKind
  <2>4. h \in Nat
    BY <1>1, <2>2
  <2>3. h = i + 1
    BY <2>1, <2>4
  <2> QED
    BY <1>2, <1>3, <1>4, <2>2, <2>3
<1>6. a = 1 \/ a - 1 \in cuts
  OBVIOUS
<1>7. b = N \/ b \in cuts
  BY DEF N
<1>8. Elements(sub) = {lines[k] : k \in a .. b}
  BY Stretch
<1>9. /\ DOMAIN sub = 1 .. b - a + 1 /\ Len(sub) = b - a + 1
      /\ \A k \in 1 .. b - a + 1 : sub[k] = lines[a + k - 1]
  <2>0. a \in Int /\ b \in Int /\ a <= b
    BY <1>1
  <2>5. \A k \in a .. b : k \in DOMAIN lines
    BY <1>1
  <2>1. a \in Int /\ b \in Int /\ a <= b /\ \A k \in a .. b : lines[k] \in T
    BY <2>0, <2>5
  <2>2. /\ sub \in Seq(T)
        /\ Len(sub) = IF a <= b THEN b - a + 1 ELSE 0
        /\ \A k \in 1 .. b - a + 1 : sub[k] = lines[a + k - 1]
    BY <2>1, SubSeqProperties
  <2> HIDE DEF sub
  <2>3. DOMAIN sub = 1 .. Len(sub)
    BY <2>2
  <2> QED
    BY <2>1, <2>2, <2>3
<1> HIDE DEF sub, cuts, N
<1>10. i # b
  <2>1. CASE b = N
    BY <1>1, <2>1
  <2>2. CASE b \in cuts
    BY <1>5, <2>2
  <2> QED
    BY <1>7, <2>1, <2>2
<1>11. i # a - 1
  <2>1. CASE a = 1
    BY <1>1, <2>1
  <2>2. CASE a - 1 \in cuts
    BY <1>5, <2>2
  <2> QED
    BY <1>6, <2>1, <2>2
<1>12. \A k \in a .. b : k \in DOMAIN lines
  BY <1>1
<1>13. CASE i \notin a .. b
  <2>1. i + 1 \notin a .. b
    BY <1>1, <1>11, <1>13
  <2> QED
    BY <1>2, <1>8, <1>12, <1>13, <2>1 DEF sub
<1>14. CASE i \in a .. b
  <2> DEFINE m == i - a + 1
             n == b - a + 1
  <2>1. m \in 1 .. n - 1 /\ n \in Nat /\ a + m - 1 = i
    BY <1>1, <1>10, <1>14
  <2>2. ASSUME NEW k \in DOMAIN sub PROVE (sub[k] = x <=> k = m) /\ (sub[k] = y <=> k = m + 1)
    <3>1. k \in 1 .. n /\ sub[k] = lines[a + k - 1]
      BY <1>9
    <3>2. a + k - 1 \in DOMAIN lines
      BY <1>1, <3>1
    <3>3. (sub[k] = x <=> a + k - 1 = i) /\ (sub[k] = y <=> a + k - 1 = i + 1)
      BY <1>2, <3>1, <3>2
    <3> QED
      BY <1>1, <2>1, <3>1, <3>3
  <2>3. m \in 1 .. Len(sub) - 1
    BY <1>9, <2>1
  <2> HIDE DEF m
  <2>4. TablePair(sub, x, y)
    BY <1>3, <2>2, <2>3 DEF TablePair
  <2> QED
    BY <2>4 DEF sub
<1> QED
  BY <1>13, <1>14

\* A chunk of a text: what it has is there, under its heading, and its tables are whole.
TrueChunk(piece, lines, page, before) ==
  /\ piece.lines # <<>> /\ piece.page = page
  /\ \A l \in Elements(piece.lines) : \E k \in DOMAIN lines :
       /\ lines[k] = l
       /\ l.kind \notin {"heading", "blank"} => HeadingOf(SubSeq(lines, 1, k), before) = piece.section
  /\ \A x, y : TablePair(lines, x, y) => (x \in Elements(piece.lines) <=> y \in Elements(piece.lines))

\* The chunks of a page have all of its words, its number and, above each word, their section.
LEMMA ChunkPageIs ==
  ASSUME DocumentsAssumption, NEW lines \in Seq(AnyLine), NEW page \in Nat,
         NEW before \in LineKey \cup {NoSection}
  PROVE  /\ ChunkPage(lines, page, before) \in Seq(AnyChunk(AnyLine))
         /\ Worded(lines) \subseteq TextIn(ChunkPage(lines, page, before))
         /\ \A c \in Elements(ChunkPage(lines, page, before)) : TrueChunk(c, lines, page, before)
<1> DEFINE T == AnyLine
           last == Len(lines)
           cuts == SectionCuts(lines)
           spans == Spans(last, cuts)
           texts(n) == ChunkMarkdown(SubSeq(lines, spans[n].from, spans[n].to))
           section(n) == HeadingOf(SubSeq(lines, 1, spans[n].to), before)
           made(n) == [t \in DOMAIN texts(n) |->
                           [lines |-> texts(n)[t], page |-> page, section |-> section(n)]]
           m == [n \in DOMAIN spans |-> made(n)]
           flat == FlattenSeq(m)
<1>1. ChunkPage(lines, page, before) = flat
  BY DEF ChunkPage
<1>2. last \in Nat /\ DOMAIN lines = 1 .. last /\ cuts \in SUBSET (1 .. last - 1)
  BY DEF SectionCuts, OfKind
<1> HIDE DEF T, cuts, last
<1>3. /\ \E n \in Nat : DOMAIN spans = 1 .. n
      /\ \A n \in DOMAIN spans :
           /\ spans[n].from \in 1 .. last /\ spans[n].to \in spans[n].from .. last
           /\ \A c \in cuts : ~(spans[n].from <= c /\ c < spans[n].to)
           /\ spans[n].from = 1 \/ spans[n].from - 1 \in cuts
           /\ spans[n].to = last \/ spans[n].to \in cuts
      /\ \A i \in 1 .. last : \E n \in DOMAIN spans : spans[n].from <= i /\ i <= spans[n].to
  BY <1>2, SpansAre
<1> HIDE DEF spans
<1> DEFINE S == AnyChunk(T)
           True(c) == TrueChunk(c, lines, page, before)
<1>4. ASSUME NEW n \in DOMAIN spans
      PROVE  /\ texts(n) \in Seq(Seq(T))
             /\ \A i \in spans[n].from .. spans[n].to :
                  lines[i].kind # "blank" => lines[i] \in AllOf(texts(n))
             /\ section(n) \in LineKey \cup {NoSection}
             /\ \A t \in DOMAIN texts(n) :
                  True([lines |-> texts(n)[t], page |-> page, section |-> section(n)])
  <2> DEFINE a == spans[n].from
             b == spans[n].to
             sub == SubSeq(lines, a, b)
             above == SubSeq(lines, 1, b)
             x == ChunkMarkdown(sub)
             W == Whole(sub, T)
             y == HeadingOf(above, before)
  <2>1. /\ a \in 1 .. Len(lines) /\ b \in a .. Len(lines) /\ 1 \in 1 .. Len(lines) /\ b \in 1 .. Len(lines)
        /\ Len(lines) \in Nat
    BY <1>2, <1>3 DEF last
  <2>0. /\ \A c \in cuts : ~(a <= c /\ c < b)
        /\ a = 1 \/ a - 1 \in cuts
        /\ b = Len(lines) \/ b \in cuts
    BY <1>3 DEF last
  <2> HIDE DEF a, b
  <2>2. /\ sub \in Seq(T) /\ Elements(sub) = {lines[i] : i \in a .. b}
        /\ above \in Seq(T)
    BY <2>1, Stretch DEF T
  <2>3. x \in Seq(W) /\ Worded(sub) \subseteq AllOf(x)
    <3> HIDE DEF sub
    <3> QED
      BY <2>2, ChunkMarkdownIs
  <2>4. y \in LineKey \cup {NoSection}
    <3> HIDE DEF above
    <3> QED
      BY <2>2, HeadingIs DEF T
  <2>5. \A i \in a .. b : lines[i].kind # "blank" => lines[i] \in Worded(sub)
    BY <2>2 DEF Worded
  <2>6. texts(n) = x /\ section(n) = y
    BY DEF a, b
  <2> HIDE DEF texts, section, sub, x, y, W
  <2>7. x \in Seq(Seq(T)) /\ DOMAIN x = 1 .. Len(x) /\ \A t \in DOMAIN x : x[t] \in W
    <3>1. W \subseteq Seq(T)
      BY DEF W, Whole
    <3> QED
      BY <2>3, <3>1, SeqOfMore
  <2>8. ASSUME NEW t \in DOMAIN x
        PROVE  True([lines |-> x[t], page |-> page, section |-> y])
    <3> DEFINE u == x[t]
               c == [lines |-> u, page |-> page, section |-> y]
    <3>1. /\ u # <<>> /\ Elements(u) \subseteq Elements(sub)
          /\ \A v, w : TablePair(sub, v, w) => (v \in Elements(u) <=> w \in Elements(u))
      BY <2>7 DEF W, Whole
    <3> HIDE DEF u
    <3>2. ASSUME NEW l \in Elements(u)
          PROVE  \E k \in DOMAIN lines :
                   /\ lines[k] = l
                   /\ l.kind \notin {"heading", "blank"} => HeadingOf(SubSeq(lines, 1, k), before) = y
      <4>1. PICK k \in a .. b : l = lines[k]
        BY <2>2, <3>1
      <4>2. k \in DOMAIN lines /\ k \in Nat /\ b \in k .. Len(lines) /\ a <= k
        BY <1>2, <2>1 DEF last
      <4>3. ASSUME l.kind \notin {"heading", "blank"}
            PROVE  HeadingOf(SubSeq(lines, 1, k), before) = y
        <5>1. \A d \in SectionCuts(lines) : ~(k <= d /\ d < b)
          <6>1. \A d \in cuts : d \in Nat
            BY <1>2
          <6>2. ASSUME NEW d \in cuts PROVE ~(k <= d /\ d < b)
            BY <2>0, <2>1, <4>2, <6>1
          <6> QED
            BY <6>2 DEF cuts
        <5>2. \A i \in k + 1 .. b : lines[i].kind # "heading"
          BY <4>1, <4>2, <4>3, <5>1, SectionsEnd DEF T
        <5>3. HeadingOf(SubSeq(lines, 1, k), before) = HeadingOf(SubSeq(lines, 1, b), before)
          BY <4>2, <5>2, HeadingStays DEF T
        <5> QED
          BY <5>3 DEF y
      <4> QED
        BY <4>1, <4>2, <4>3
    <3>3. ASSUME NEW v, NEW w, TablePair(lines, v, w) PROVE v \in Elements(u) <=> w \in Elements(u)
      <4>1. \/ v \notin Elements(sub) /\ w \notin Elements(sub)
            \/ TablePair(sub, v, w)
        BY <2>0, <2>1, <3>3, PairsAreWhole DEF T, sub, cuts
      <4> QED
        BY <3>1, <4>1
    <3>4. c.lines = u /\ c.page = page /\ c.section = y
      OBVIOUS
    <3> HIDE DEF c
    <3>5. True(c)
      BY <3>1, <3>2, <3>3, <3>4 DEF TrueChunk
    <3> QED
      BY <3>5 DEF c, u
  <2> HIDE DEF True
  <2> QED
    BY <2>3, <2>4, <2>5, <2>6, <2>7, <2>8 DEF a, b
<1> HIDE DEF texts, section, True
<1>5. ASSUME NEW n \in DOMAIN spans
      PROVE  made(n) \in Seq(S) /\ DOMAIN made(n) = DOMAIN texts(n)
             /\ \A t \in DOMAIN texts(n) : made(n)[t].lines = texts(n)[t] /\ True(made(n)[t])
  <2> DEFINE x == texts(n)
             y == made(n)
             c == section(n)
  <2>1. x \in Seq(Seq(T)) /\ c \in LineKey \cup {NoSection}
    BY <1>4
  <2>2. y = [t \in DOMAIN x |-> [lines |-> x[t], page |-> page, section |-> c]]
    OBVIOUS
  <2>7. \A t \in DOMAIN x : True([lines |-> x[t], page |-> page, section |-> c])
    BY <1>4
  <2> HIDE DEF x, y, c
  <2>3. ASSUME NEW t \in DOMAIN x PROVE y[t] \in S /\ y[t].lines = x[t] /\ True(y[t])
    <3>1. x[t] \in Seq(T)
      BY <2>1
    <3>2. y[t] = [lines |-> x[t], page |-> page, section |-> c]
      BY <2>2
    <3> QED
      BY <2>1, <2>7, <3>1, <3>2 DEF AnyChunk
  <2>4. DOMAIN y = DOMAIN x /\ DOMAIN x = 1 .. Len(x) /\ Len(x) \in Nat
    BY <2>1, <2>2
  <2> HIDE DEF S
  <2>5. y \in [1 .. Len(x) -> S]
    BY <2>2, <2>3, <2>4
  <2>6. y \in Seq(S)
    BY <2>4, <2>5
  <2> QED
    BY <2>3, <2>4, <2>6 DEF x, y
<1> HIDE DEF made, S
<1>6. m \in Seq(Seq(S)) /\ DOMAIN m = DOMAIN spans
  <2>1. PICK k \in Nat : DOMAIN spans = 1 .. k
    BY <1>3
  <2>2. m \in [1 .. k -> Seq(S)]
    BY <1>5, <2>1
  <2> HIDE DEF m
  <2> QED
    BY <2>1, <2>2
<1>7. \A n \in DOMAIN spans : n \in DOMAIN m /\ m[n] = made(n)
  OBVIOUS
<1> HIDE DEF m
<1>8. flat \in Seq(S) /\ Elements(flat) = AllOf(m)
  BY <1>6, ElementsOfFlat
<1> HIDE DEF flat
<1>9. ASSUME NEW l \in Worded(lines) PROVE l \in TextIn(flat)
  <2>1. PICK i \in 1 .. last : l = lines[i] /\ l.kind # "blank"
    BY <1>2 DEF Worded, Elements
  <2>2. PICK n \in DOMAIN spans : spans[n].from <= i /\ i <= spans[n].to
    BY <1>3
  <2>3. i \in spans[n].from .. spans[n].to
    BY <1>2, <1>3, <2>2
  <2>4. l \in AllOf(texts(n))
    BY <1>4, <2>1, <2>3
  <2>5. PICK t \in DOMAIN texts(n) : l \in Elements(texts(n)[t])
    BY <2>4, Zenon DEF AllOf
  <2>6. made(n)[t] \in Elements(m[n]) /\ made(n)[t].lines = texts(n)[t]
    BY <1>5, <1>7 DEF Elements
  <2>7. made(n)[t] \in Elements(flat)
    BY <1>7, <1>8, <2>6 DEF AllOf
  <2>8. PICK c \in DOMAIN flat : flat[c] = made(n)[t]
    BY <2>7 DEF Elements
  <2>9. l \in Elements(flat[c].lines)
    BY <2>5, <2>6, <2>8
  <2> QED
    BY <2>9 DEF TextIn
<1>10. ASSUME NEW c \in Elements(flat) PROVE True(c)
  <2>1. PICK n \in DOMAIN m : c \in Elements(m[n])
    BY <1>8, Zenon DEF AllOf
  <2>2. n \in DOMAIN spans /\ m[n] = made(n)
    BY <1>6, <1>7
  <2>3. PICK t \in DOMAIN m[n] : c = m[n][t]
    BY <2>1 DEF Elements
  <2> QED
    BY <1>5, <2>2, <2>3
<1> QED
  BY <1>1, <1>8, <1>9, <1>10 DEF S, T, True

PageTexts == Seq(Seq(AnyLine))

\* The number a page's chunks get, and the heading in force above it.
PageNumber(texts, p) == IF Len(texts) > 1 THEN p ELSE 0
HeadingAbove(texts, p) == HeadingOf(FlattenSeq(SubSeq(texts, 1, p - 1)), NoSection)

\* Nothing of a document is lost in its chunks, and each is true to one of its pages.
LEMMA IngestPagesIs ==
  ASSUME DocumentsAssumption, NEW texts \in PageTexts
  PROVE  /\ IngestPages(texts) \in Seq(AnyChunk(AnyLine))
         /\ \A p \in DOMAIN texts : Worded(texts[p]) \subseteq TextIn(IngestPages(texts))
         /\ \A c \in Elements(IngestPages(texts)) : \E p \in DOMAIN texts :
              TrueChunk(c, texts[p], PageNumber(texts, p), HeadingAbove(texts, p))
<1> DEFINE S == AnyChunk(AnyLine)
           number(p) == IF Len(texts) > 1 THEN p ELSE 0
           before(p) == HeadingOf(FlattenSeq(SubSeq(texts, 1, p - 1)), NoSection)
           m == [p \in DOMAIN texts |-> ChunkPage(texts[p], number(p), before(p))]
           flat == FlattenSeq(m)
<1>1. IngestPages(texts) = flat
  BY DEF IngestPages
<1>2. Len(texts) \in Nat /\ DOMAIN texts = 1 .. Len(texts)
  BY DEF PageTexts
<1>3. ASSUME NEW p \in DOMAIN texts
      PROVE  /\ m[p] \in Seq(S) /\ Worded(texts[p]) \subseteq TextIn(m[p])
             /\ \A c \in Elements(m[p]) :
                  TrueChunk(c, texts[p], PageNumber(texts, p), HeadingAbove(texts, p))
  <2>1. texts[p] \in Seq(AnyLine)
    BY DEF PageTexts
  <2>2. number(p) \in Nat
    BY <1>2
  <2>3. before(p) \in LineKey \cup {NoSection}
    <3> DEFINE sub == SubSeq(texts, 1, p - 1)
               above == FlattenSeq(sub)
    <3>1. sub \in Seq(Seq(AnyLine))
      <4>1. 1 \in Int /\ p - 1 \in Int
        BY <1>2
      <4>2. \A i \in 1 .. p - 1 : texts[i] \in Seq(AnyLine)
        <5>1. \A i \in 1 .. p - 1 : i \in DOMAIN texts
          BY <1>2
        <5> QED
          BY <5>1 DEF PageTexts
      <4> QED
        BY <4>1, <4>2, SubSeqProperties
    <3> HIDE DEF sub
    <3>2. above \in Seq(AnyLine)
      BY <3>1, ElementsOfFlat
    <3> HIDE DEF above
    <3>3. HeadingOf(above, NoSection) \in LineKey \cup {NoSection}
      BY <3>2, HeadingIs
    <3> QED
      BY <3>3 DEF above, sub
  <2> DEFINE ls == texts[p]
             k == number(p)
             b == before(p)
  <2>4. m[p] = ChunkPage(ls, k, b)
    OBVIOUS
  <2>6. k = PageNumber(texts, p) /\ b = HeadingAbove(texts, p)
    BY DEF PageNumber, HeadingAbove
  <2> HIDE DEF ls, k, b, m, number, before
  <2>5. /\ ChunkPage(ls, k, b) \in Seq(S) /\ Worded(ls) \subseteq TextIn(ChunkPage(ls, k, b))
        /\ \A c \in Elements(ChunkPage(ls, k, b)) : TrueChunk(c, ls, k, b)
    <3>1. ls \in Seq(AnyLine) /\ k \in Nat /\ b \in LineKey \cup {NoSection}
      BY <2>1, <2>2, <2>3 DEF ls, k, b
    <3> QED
      BY <3>1, ChunkPageIs
  <2> QED
    BY <2>4, <2>5, <2>6 DEF ls
<1> HIDE DEF S
<1>4. m \in Seq(Seq(S)) /\ DOMAIN m = DOMAIN texts
  <2>1. DOMAIN m = 1 .. Len(texts)
    BY <1>2
  <2> HIDE DEF m
  <2>2. \A p \in 1 .. Len(texts) : m[p] \in Seq(S)
    BY <1>2, <1>3
  <2>3. m = [p \in 1 .. Len(texts) |-> m[p]]
    BY <1>2 DEF m
  <2>4. m \in [1 .. Len(texts) -> Seq(S)]
    BY <2>2, <2>3
  <2> QED
    BY <1>2, <2>1, <2>4
<1> HIDE DEF m
<1>5. flat \in Seq(S) /\ Elements(flat) = AllOf(m)
  BY <1>4, ElementsOfFlat
<1> HIDE DEF flat
<1>6. ASSUME NEW p \in DOMAIN texts, NEW l \in Worded(texts[p]) PROVE l \in TextIn(flat)
  <2>1. PICK c \in DOMAIN m[p] : l \in Elements(m[p][c].lines)
    <3>1. l \in TextIn(m[p])
      BY <1>3
    <3> QED
      BY <3>1, Zenon DEF TextIn
  <2>2. m[p][c] \in Elements(m[p])
    BY DEF Elements
  <2>3. m[p][c] \in Elements(flat)
    BY <1>4, <1>5, <2>2 DEF AllOf
  <2>4. PICK d \in DOMAIN flat : flat[d] = m[p][c]
    BY <2>3 DEF Elements
  <2>5. l \in Elements(flat[d].lines)
    BY <2>1, <2>4
  <2> QED
    BY <2>5 DEF TextIn
<1>7. ASSUME NEW c \in Elements(flat)
      PROVE  \E p \in DOMAIN texts : TrueChunk(c, texts[p], PageNumber(texts, p), HeadingAbove(texts, p))
  <2>1. PICK p \in DOMAIN m : c \in Elements(m[p])
    BY <1>5, Zenon DEF AllOf
  <2> QED
    BY <1>3, <1>4, <2>1
<1> QED
  BY <1>1, <1>5, <1>6, <1>7 DEF S

-----------------------------------------------------------------------------
(* What is transcribed *)

\* Every transcription is in the text, whether the markers are as many or not.
LEMMA InjectIs ==
  ASSUME NEW lines \in Seq(AnyLine), NEW texts \in Seq(Seq(AnyLine))
  PROVE  /\ Inject(lines, texts) \in Seq(AnyLine)
         /\ \A l \in AllOf(texts) : l \in Elements(Inject(lines, texts))
         /\ \A l \in Elements(Inject(lines, texts)) : l = Blank \/ l \in Elements(lines) \/ l \in AllOf(texts)
<1> DEFINE T == AnyLine
           markers == OfKind(lines, {"image"})
           rest == Picked(lines, NotOfKind(lines, {"image"}))
           Spaced(text) == IF text = <<>> THEN <<Blank>> ELSE <<Blank>> \o text \o <<Blank>>
           inPlace == [i \in DOMAIN lines |-> IF i \in markers THEN Spaced(texts[Rank(markers, i)]) ELSE <<lines[i]>>]
           below == [i \in DOMAIN texts |-> IF texts[i] = <<>> THEN <<>> ELSE <<Blank>> \o texts[i]]
<1>1. Inject(lines, texts) = IF Cardinality(markers) = Len(texts) THEN FlattenSeq(inPlace)
                             ELSE rest \o FlattenSeq(below)
  BY DEF Inject
<1>2. DOMAIN lines = 1 .. Len(lines) /\ Len(lines) \in Nat /\ DOMAIN texts = 1 .. Len(texts) /\ Len(texts) \in Nat
  OBVIOUS
<1>3. Blank \in T /\ <<Blank>> \in Seq(T) /\ Elements(<<Blank>>) = {Blank}
  <2>1. Blank \in T
    BY DEF Blank, Line, AnyLine, ElementKinds
  <2> HIDE DEF T
  <2> QED
    BY <2>1 DEF Elements
<1>4. markers \in SUBSET DOMAIN lines /\ markers \in SUBSET Nat /\ IsFiniteSet(markers)
  <2>1. markers \subseteq DOMAIN lines
    BY DEF OfKind
  <2>2. IsFiniteSet(1 .. Len(lines))
    BY <1>2, CardinalityOfInterval
  <2> QED
    BY <1>2, <2>1, <2>2, FS_Subset
<1> HIDE DEF T, markers, Blank
<1>5. ASSUME NEW text \in Seq(T)
      PROVE  /\ <<Blank>> \o text \in Seq(T) /\ Elements(<<Blank>> \o text) = {Blank} \cup Elements(text)
             /\ Spaced(text) \in Seq(T) /\ Elements(Spaced(text)) = {Blank} \cup Elements(text)
  <2> DEFINE b == <<Blank>>
             bt == b \o text
  <2>0. b \in Seq(T) /\ Elements(b) = {Blank}
    BY <1>3
  <2> HIDE DEF b
  <2>1. bt \in Seq(T) /\ Elements(bt) = {Blank} \cup Elements(text)
    BY <2>0, ElementsOfConcat
  <2> HIDE DEF bt
  <2>2. bt \o b \in Seq(T) /\ Elements(bt \o b) = {Blank} \cup Elements(text)
    <3>1. bt \o b \in Seq(T) /\ Elements(bt \o b) = Elements(bt) \cup Elements(b)
      BY <2>0, <2>1, ElementsOfConcat
    <3> QED
      BY <2>0, <2>1, <3>1
  <2>3. text = <<>> => Elements(text) = {}
    BY DEF Elements
  <2>4. Spaced(text) = IF text = <<>> THEN b ELSE bt \o b
    BY DEF bt, b
  <2> HIDE DEF Spaced
  <2> QED
    BY <2>0, <2>1, <2>2, <2>3, <2>4 DEF b, bt
<1> HIDE DEF Spaced
<1>6. ASSUME NEW i \in DOMAIN texts PROVE texts[i] \in Seq(T) /\ Elements(texts[i]) \subseteq AllOf(texts)
  BY DEF T, AllOf
<1>7. ASSUME NEW l \in AllOf(texts) PROVE \E i \in DOMAIN texts : l \in Elements(texts[i])
  BY Zenon DEF AllOf
<1>8. CASE Cardinality(markers) = Len(texts)
  <2>1. ASSUME NEW i \in DOMAIN lines
        PROVE  /\ inPlace[i] \in Seq(T)
               /\ i \in markers => /\ Rank(markers, i) \in DOMAIN texts
                                   /\ Elements(inPlace[i]) = {Blank} \cup Elements(texts[Rank(markers, i)])
               /\ i \notin markers => Elements(inPlace[i]) = {lines[i]}
    <3>1. CASE i \in markers
      <4> DEFINE r == Rank(markers, i)
      <4>1. r \in DOMAIN texts
        BY <1>2, <1>4, <1>8, <3>1, RankOf
      <4> HIDE DEF r
      <4>2. texts[r] \in Seq(T)
        BY <1>6, <4>1
      <4>3. inPlace[i] = Spaced(texts[r])
        BY <3>1 DEF r
      <4> HIDE DEF inPlace
      <4> QED
        BY <1>5, <3>1, <4>1, <4>2, <4>3 DEF r
    <3>2. CASE i \notin markers
      <4>1. lines[i] \in T
        BY DEF T
      <4>2. inPlace[i] = <<lines[i]>>
        BY <3>2
      <4> HIDE DEF inPlace
      <4> QED
        BY <3>2, <4>1, <4>2 DEF Elements
    <3> QED
      BY <3>1, <3>2
  <2>2. inPlace \in Seq(Seq(T)) /\ DOMAIN inPlace = DOMAIN lines
    <3>1. DOMAIN inPlace = 1 .. Len(lines) /\ inPlace = [i \in 1 .. Len(lines) |-> inPlace[i]]
      BY <1>2
    <3> HIDE DEF inPlace
    <3>2. inPlace \in [1 .. Len(lines) -> Seq(T)]
      BY <1>2, <2>1, <3>1
    <3> QED
      BY <1>2, <3>1, <3>2
  <2> HIDE DEF inPlace
  <2>3. FlattenSeq(inPlace) \in Seq(T) /\ Elements(FlattenSeq(inPlace)) = AllOf(inPlace)
    BY <2>2, ElementsOfFlat
  <2>4. ASSUME NEW l \in AllOf(texts) PROVE l \in AllOf(inPlace)
    <3>1. PICK k \in DOMAIN texts : l \in Elements(texts[k])
      BY <1>7
    <3>2. k \in 1 .. Cardinality(markers)
      BY <1>2, <1>8
    <3>3. PICK i \in markers : Rank(markers, i) = k
      BY <1>4, <3>2, RankIsOnto
    <3>4. i \in DOMAIN inPlace /\ l \in Elements(inPlace[i])
      BY <1>4, <2>1, <2>2, <3>1, <3>3
    <3> QED
      BY <3>4 DEF AllOf
  <2>5. ASSUME NEW l \in AllOf(inPlace) PROVE l = Blank \/ l \in Elements(lines) \/ l \in AllOf(texts)
    <3>1. PICK i \in DOMAIN lines : l \in Elements(inPlace[i])
      BY <2>2, Zenon DEF AllOf
    <3>2. CASE i \in markers
      BY <1>6, <2>1, <3>1, <3>2
    <3>3. CASE i \notin markers
      BY <2>1, <3>1, <3>3 DEF Elements
    <3> QED
      BY <3>2, <3>3
  <2>6. Inject(lines, texts) = FlattenSeq(inPlace)
    BY <1>1, <1>8 DEF inPlace
  <2> QED
    BY <2>3, <2>4, <2>5, <2>6 DEF T
<1>9. CASE Cardinality(markers) # Len(texts)
  <2> DEFINE under == FlattenSeq(below)
  <2>1. rest \in Seq(T) /\ Elements(rest) \subseteq Elements(lines)
    <3> DEFINE I == NotOfKind(lines, {"image"})
    <3>1. I \in SUBSET DOMAIN lines
      BY DEF NotOfKind
    <3> HIDE DEF I
    <3>2. Picked(lines, I) \in Seq(AnyLine) /\ Elements(Picked(lines, I)) = {lines[i] : i \in I}
      BY <3>1, ElementsOfPicked
    <3> QED
      BY <3>1, <3>2 DEF I, T, Elements
  <2> HIDE DEF rest
  <2>2. ASSUME NEW i \in DOMAIN texts
        PROVE  below[i] \in Seq(T) /\ Elements(below[i]) \subseteq {Blank} \cup Elements(texts[i])
               /\ Elements(texts[i]) \subseteq Elements(below[i])
    <3>1. texts[i] \in Seq(T)
      BY <1>6
    <3>2. CASE texts[i] = <<>>
      <4>1. below[i] = <<>>
        BY <3>2
      <4>2. Elements(<<>>) = {} /\ <<>> \in Seq(T)
        BY DEF Elements
      <4> HIDE DEF below
      <4> QED
        BY <3>2, <4>1, <4>2
    <3>3. CASE texts[i] # <<>>
      <4> DEFINE t == texts[i]
      <4>1. below[i] = <<Blank>> \o t
        BY <3>3
      <4> HIDE DEF below, t
      <4>2. <<Blank>> \o t \in Seq(T) /\ Elements(<<Blank>> \o t) = {Blank} \cup Elements(t)
        BY <1>5, <3>1 DEF t
      <4> QED
        BY <4>1, <4>2 DEF t
    <3> QED
      BY <3>2, <3>3
  <2>3. below \in Seq(Seq(T)) /\ DOMAIN below = DOMAIN texts
    <3>1. DOMAIN below = 1 .. Len(texts) /\ below = [i \in 1 .. Len(texts) |-> below[i]]
      BY <1>2
    <3> HIDE DEF below
    <3>2. below \in [1 .. Len(texts) -> Seq(T)]
      BY <1>2, <2>2, <3>1
    <3> QED
      BY <1>2, <3>1, <3>2
  <2> HIDE DEF below
  <2>4. under \in Seq(T) /\ Elements(under) = AllOf(below)
    BY <2>3, ElementsOfFlat
  <2> HIDE DEF under
  <2>5. rest \o under \in Seq(T) /\ Elements(rest \o under) = Elements(rest) \cup Elements(under)
    BY <2>1, <2>4, ElementsOfConcat
  <2>6. ASSUME NEW l \in AllOf(texts) PROVE l \in AllOf(below)
    <3>1. PICK k \in DOMAIN texts : l \in Elements(texts[k])
      BY <1>7
    <3> QED
      BY <2>2, <2>3, <3>1 DEF AllOf
  <2>7. ASSUME NEW l \in AllOf(below) PROVE l = Blank \/ l \in AllOf(texts)
    <3>1. PICK k \in DOMAIN texts : l \in Elements(below[k])
      BY <2>3, Zenon DEF AllOf
    <3> QED
      BY <1>6, <2>2, <3>1
  <2>8. Inject(lines, texts) = rest \o under
    BY <1>1, <1>9 DEF rest, under, below
  <2> QED
    BY <2>1, <2>4, <2>5, <2>6, <2>7, <2>8 DEF T
<1> QED
  BY <1>8, <1>9

-----------------------------------------------------------------------------
(* What is printed, and what two readers make of it *)

Element == [kind : ElementKinds, key : Nat \X Nat \X {0}]

\* What is printed, by its pages.
LEMMA PrintedIs ==
  ASSUME DocumentsAssumption, NEW d \in Printed
  PROVE  d \in Seq(Seq(Element)) /\ d \in PageTexts
<1>1. d \in Seq(Seq(Element))
  BY DEF DocumentsAssumption, Element
<1>2. Element \subseteq AnyLine
  BY DEF Element, AnyLine
<1> HIDE DEF Element
<1>3. ASSUME NEW p \in DOMAIN d PROVE d[p] \in Seq(AnyLine)
  <2>1. d[p] \in Seq(Element)
    BY <1>1
  <2>2. DOMAIN d[p] = 1 .. Len(d[p]) /\ Len(d[p]) \in Nat /\ d[p] \in [1 .. Len(d[p]) -> Element]
    BY <2>1
  <2>3. d[p] \in [1 .. Len(d[p]) -> AnyLine]
    BY <1>2, <2>2
  <2> QED
    BY <2>2, <2>3, TableIsSeq
<1>4. d \in PageTexts
  <2>1. DOMAIN d = 1 .. Len(d) /\ Len(d) \in Nat /\ d = [p \in 1 .. Len(d) |-> d[p]]
    BY <1>1
  <2>2. d \in [1 .. Len(d) -> Seq(AnyLine)]
    BY <1>3, <2>1
  <2> QED
    BY <2>1, <2>2, TableIsSeq DEF PageTexts
<1> QED
  BY <1>1, <1>4

\* Of two elements with the same key none is a heading if the other is not.
LEMMA KeysAre ==
  ASSUME DocumentsAssumption, NEW d \in Printed,
         NEW e \in AllOf(d), NEW f \in AllOf(d), e.key = f.key
  PROVE  e.kind = f.kind
<1>0. d \in Seq(Seq(Element))
  BY PrintedIs
<1>1. PICK p \in DOMAIN d : \E i \in DOMAIN d[p] : e = d[p][i]
  BY PlaceOf
<1>2. PICK q \in DOMAIN d : \E i \in DOMAIN d[q] : f = d[q][i]
  BY PlaceOf
<1>3. PICK i \in DOMAIN d[p] : e = d[p][i]
  BY <1>1
<1>4. PICK j \in DOMAIN d[q] : f = d[q][j]
  BY <1>2
<1>5. /\ e.key = <<p, i, 0>> \/ (e.kind = "prose" /\ e.key[1] = 0)
      /\ f.key = <<q, j, 0>> \/ (f.kind = "prose" /\ f.key[1] = 0)
  BY <1>3, <1>4 DEF DocumentsAssumption
<1>6. p # 0 /\ q # 0
  BY <1>0, <1>1, <1>2, PlacesArePositive
<1>7. CASE e.key = <<p, i, 0>> /\ f.key = <<q, j, 0>>
  BY <1>3, <1>4, <1>7
<1>8. CASE e.key = <<p, i, 0>> /\ ~(f.key = <<q, j, 0>>)
  <2>1. e.key[1] = p /\ f.key[1] = 0
    BY <1>5, <1>8
  <2> QED
    BY <1>6, <2>1
<1>9. CASE ~(e.key = <<p, i, 0>>) /\ f.key = <<q, j, 0>>
  <2>1. f.key[1] = q /\ e.key[1] = 0
    BY <1>5, <1>9
  <2> QED
    BY <1>6, <2>1
<1>10. CASE ~(e.key = <<p, i, 0>>) /\ ~(f.key = <<q, j, 0>>)
  BY <1>5, <1>10
<1> QED
  BY <1>7, <1>8, <1>9, <1>10

\* What is in a picture has the picture's place.
LEMMA InsideIs ==
  ASSUME NEW e \in Element, NEW n \in Nat
  PROVE  Inside(e, n) = <<e.key[1], e.key[2], n>> /\ Inside(e, n) \in LineKey
<1>1. e.key \in Nat \X Nat \X {0}
  BY DEF Element
<1>2. PICK a \in Nat, b \in Nat : e.key = <<a, b, 0>>
  BY <1>1
<1>3. [<<a, b, 0>> EXCEPT ![3] = n] = <<a, b, n>>
  OBVIOUS
<1> QED
  BY <1>2, <1>3 DEF Inside, LineKey

\* The layout parse makes no blank line of anything else.
LEMMA ExportedIs ==
  ASSUME NEW elements \in Seq(Element)
  PROVE  /\ Exported(elements) \in Seq(AnyLine)
         /\ \A l \in Elements(Exported(elements)) : l.kind = "blank" => l \in Elements(elements)
<1> DEFINE f == [e \in Element |-> IF e.kind = "unmarked" THEN <<>>
                                   ELSE IF e.kind \in Figures THEN <<Line("image", Inside(e, 3))>>
                                   ELSE <<e>>]
<1>1. ASSUME NEW e \in Element
      PROVE f[e] \in Seq(AnyLine) /\ \A l \in Elements(f[e]) : l.kind = "blank" => l = e
  <2>1. f[e] = IF e.kind = "unmarked" THEN <<>>
               ELSE IF e.kind \in Figures THEN <<Line("image", Inside(e, 3))>> ELSE <<e>>
    OBVIOUS
  <2>2. e \in AnyLine
    BY DEF Element, AnyLine
  <2>3. Line("image", Inside(e, 3)) \in AnyLine /\ Line("image", Inside(e, 3)).kind = "image"
    BY InsideIs DEF Line, AnyLine, LineKey
  <2>4. Elements(<<>>) = {} /\ \A x : Elements(<<x>>) = {x}
    BY DEF Elements
  <2> DEFINE image == Line("image", Inside(e, 3))
  <2> HIDE DEF f, image
  <2> QED
    BY <2>1, <2>2, <2>3, <2>4 DEF image
<1>2. f \in [Element -> Seq(AnyLine)]
  BY <1>1
<1> DEFINE flat == Mapped(elements, f)
<1>3. Exported(elements) = flat
  <2>1. \A i \in DOMAIN elements : elements[i] \in Element
    OBVIOUS
  <2>2. \A i \in DOMAIN elements :
          f[elements[i]] = IF elements[i].kind = "unmarked" THEN <<>>
                           ELSE IF elements[i].kind \in Figures THEN <<Line("image", Inside(elements[i], 3))>>
                           ELSE <<elements[i]>>
    BY <2>1
  <2> HIDE DEF f
  <2>3. [i \in DOMAIN elements |-> f[elements[i]]] =
          [i \in DOMAIN elements |-> IF elements[i].kind = "unmarked" THEN <<>>
                           ELSE IF elements[i].kind \in Figures THEN <<Line("image", Inside(elements[i], 3))>>
                           ELSE <<elements[i]>>]
    BY <2>2, Zenon
  <2> QED
    BY <2>3 DEF Exported, Each, Mapped
<1> HIDE DEF f
<1>4. /\ flat \in Seq(AnyLine)
      /\ \A l \in Elements(flat) : \E e \in Elements(elements) : l \in Elements(f[e])
  BY <1>2, EachIs
<1> HIDE DEF flat
<1>5. Elements(elements) \subseteq Element
  BY DEF Elements
<1> QED
  BY <1>1, <1>3, <1>4, <1>5

\* The kind the text layer gives to a kind.
LayerKind(kind) ==
  CASE kind = "row" -> "number" [] kind \in {"heading"} \cup Figures -> "prose" [] OTHER -> kind

\* The text layer has the key of an element and its letters.
LEMMA TextLayerIs ==
  ASSUME NEW elements \in Seq(Element)
  PROVE  /\ TextLayer(elements) \in Seq(AnyLine)
         /\ \A l \in Elements(TextLayer(elements)) :
              \E e \in Elements(elements) : /\ l.key = e.key /\ l.kind = LayerKind(e.kind)
                                            /\ e.kind # "blank"
<1> DEFINE f == [e \in Element |-> CASE e.kind \in {"blank", "fence"} -> <<>>
                              [] e.kind = "row" -> <<Line("number", e.key)>>
                              [] e.kind \in {"heading"} \cup Figures -> <<Line("prose", e.key)>>
                              [] OTHER -> <<e>>]
<1>1. ASSUME NEW e \in Element
      PROVE  /\ f[e] \in Seq(AnyLine)
             /\ \A l \in Elements(f[e]) : l.key = e.key /\ l.kind = LayerKind(e.kind) /\ e.kind # "blank"
  <2>1. f[e] = CASE e.kind \in {"blank", "fence"} -> <<>>
                 [] e.kind = "row" -> <<Line("number", e.key)>>
                 [] e.kind \in {"heading"} \cup Figures -> <<Line("prose", e.key)>>
                 [] OTHER -> <<e>>
    OBVIOUS
  <2> DEFINE number == Line("number", e.key)
             prose == Line("prose", e.key)
  <2>2. e \in AnyLine /\ number \in AnyLine /\ prose \in AnyLine
    BY DEF Element, AnyLine, Line, ElementKinds
  <2>3. number.key = e.key /\ number.kind = "number" /\ prose.key = e.key /\ prose.kind = "prose"
    BY DEF Line
  <2>4. Elements(<<>>) = {} /\ \A x : Elements(<<x>>) = {x}
    BY DEF Elements
  <2> HIDE DEF f, number, prose
  <2>5. CASE e.kind \in {"blank", "fence"}
    <3>1. f[e] = <<>>
      BY <2>1, <2>5 DEF Figures
    <3> QED
      BY <2>4, <3>1
  <2>6. CASE e.kind = "row"
    <3>1. f[e] = <<number>>
      BY <2>1, <2>6 DEF number, Figures
    <3>2. LayerKind(e.kind) = "number"
      BY <2>6 DEF LayerKind, Figures
    <3> QED
      BY <2>2, <2>3, <2>4, <2>6, <3>1, <3>2
  <2>7. CASE e.kind \in {"heading"} \cup Figures
    <3>1. f[e] = <<prose>>
      BY <2>1, <2>7 DEF prose, Figures
    <3>2. LayerKind(e.kind) = "prose" /\ e.kind # "blank"
      BY <2>7 DEF LayerKind, Figures
    <3> QED
      BY <2>2, <2>3, <2>4, <3>1, <3>2
  <2>8. CASE e.kind \notin {"blank", "fence", "row", "heading"} \cup Figures
    <3>1. f[e] = <<e>>
      BY <2>1, <2>8
    <3>2. LayerKind(e.kind) = e.kind /\ e.kind # "blank"
      BY <2>8 DEF LayerKind
    <3> QED
      BY <2>2, <2>4, <3>1, <3>2
  <2> QED
    BY <2>5, <2>6, <2>7, <2>8
<1>2. f \in [Element -> Seq(AnyLine)]
  <2>1. f = [e \in Element |-> f[e]]
    OBVIOUS
  <2> HIDE DEF f
  <2> QED
    BY <1>1, <2>1
<1> DEFINE flat == Mapped(elements, f)
<1>3. TextLayer(elements) = flat
  <2> DEFINE of(e) == CASE e.kind \in {"blank", "fence"} -> <<>>
                        [] e.kind = "row" -> <<Line("number", e.key)>>
                        [] e.kind \in {"heading"} \cup Figures -> <<Line("prose", e.key)>>
                        [] OTHER -> <<e>>
  <2>1. \A i \in DOMAIN elements : f[elements[i]] = of(elements[i])
    OBVIOUS
  <2>2. TextLayer(elements) = FlattenSeq([i \in DOMAIN elements |-> of(elements[i])])
    BY DEF TextLayer, Each
  <2> HIDE DEF f, of
  <2>3. [i \in DOMAIN elements |-> f[elements[i]]] = [i \in DOMAIN elements |-> of(elements[i])]
    BY <2>1, Zenon
  <2> QED
    BY <2>2, <2>3 DEF Mapped
<1> HIDE DEF f
<1>4. /\ flat \in Seq(AnyLine)
      /\ \A l \in Elements(flat) : \E e \in Elements(elements) : l \in Elements(f[e])
  BY <1>2, EachIs
<1> HIDE DEF flat
<1>5. Elements(elements) \subseteq Element
  BY DEF Elements
<1> QED
  BY <1>1, <1>3, <1>4, <1>5

\* In the text layer a key has one kind.
LEMMA LayerKeysAre ==
  ASSUME DocumentsAssumption, printed \in Printed
  PROVE  /\ Flat \in PageTexts /\ Len(Flat) = Len(printed)
         /\ \A x \in AllOf(Flat) : \E e \in AllOf(printed) :
              x.key = e.key /\ x.kind = LayerKind(e.kind) /\ e.kind # "blank"
         /\ \A x, y \in AllOf(Flat) : x.key = y.key => x.kind = y.kind
<1> DEFINE n == Len(printed)
<1>1. printed \in Seq(Seq(Element)) /\ n \in Nat /\ DOMAIN printed = 1 .. n
  <2>1. printed \in Seq(Seq(Element))
    BY PrintedIs
  <2> QED
    BY <2>1
<1> DEFINE flat == Flat
<1>2. flat = [p \in 1 .. n |-> TextLayer(printed[p])]
  BY <1>1 DEF Flat
<1> HIDE DEF flat, n
<1>3. ASSUME NEW p \in 1 .. n
      PROVE  /\ flat[p] \in Seq(AnyLine)
             /\ \A l \in Elements(flat[p]) :
                  \E e \in Elements(printed[p]) : l.key = e.key /\ l.kind = LayerKind(e.kind) /\ e.kind # "blank"
  <2> DEFINE s == printed[p]
  <2>1. s \in Seq(Element)
    BY <1>1
  <2> HIDE DEF s
  <2>2. /\ TextLayer(s) \in Seq(AnyLine)
        /\ \A l \in Elements(TextLayer(s)) :
             \E e \in Elements(s) : l.key = e.key /\ l.kind = LayerKind(e.kind) /\ e.kind # "blank"
    BY <2>1, TextLayerIs
  <2>3. flat[p] = TextLayer(s)
    BY <1>2 DEF s
  <2> QED
    BY <2>2, <2>3 DEF s
<1>4. flat \in Seq(Seq(AnyLine)) /\ DOMAIN flat = 1 .. n /\ Len(flat) = n
  <2>1. flat = [p \in 1 .. n |-> flat[p]]
    BY <1>2
  <2>2. flat \in [1 .. n -> Seq(AnyLine)]
    BY <1>3, <2>1
  <2> QED
    BY <1>1, <2>2, TableIsSeq
<1>5. ASSUME NEW x \in AllOf(flat)
      PROVE  \E e \in AllOf(printed) : x.key = e.key /\ x.kind = LayerKind(e.kind) /\ e.kind # "blank"
  <2>1. PICK p \in 1 .. n : x \in Elements(flat[p])
    BY <1>4, Zenon DEF AllOf
  <2>2. PICK e \in Elements(printed[p]) : x.key = e.key /\ x.kind = LayerKind(e.kind) /\ e.kind # "blank"
    BY <1>3, <2>1
  <2>3. e \in AllOf(printed)
    BY <1>1, <2>2 DEF AllOf
  <2> QED
    BY <2>2, <2>3
<1>6. ASSUME NEW x \in AllOf(flat), NEW y \in AllOf(flat), x.key = y.key PROVE x.kind = y.kind
  <2>1. PICK e \in AllOf(printed) : x.key = e.key /\ x.kind = LayerKind(e.kind)
    BY <1>5
  <2>2. PICK f \in AllOf(printed) : y.key = f.key /\ y.kind = LayerKind(f.kind)
    BY <1>5
  <2>3. e.kind = f.kind
    BY <1>6, <2>1, <2>2, KeysAre
  <2> QED
    BY <2>1, <2>2, <2>3
<1> QED
  BY <1>4, <1>5, <1>6 DEF flat, n, PageTexts

-----------------------------------------------------------------------------
(* What is recovered *)

\* What the recovery adds are lines of letters of the text layer, and each one that
\* the parse lacks and that is no running header.
LEMMA DroppedIs ==
  ASSUME NEW lines \in Seq(AnyLine), NEW texts \in Seq(AnyLine), NEW headers,
         \A x, y \in Elements(texts) : x.key = y.key => x.kind = y.kind
  PROVE  /\ Dropped(lines, texts, headers) \in Seq(AnyLine)
         /\ \A l \in Elements(Dropped(lines, texts, headers)) : Lettered(l)
         /\ \A x \in Elements(texts) :
              Lettered(x) /\ x.key \notin headers =>
                \E l \in Elements(lines) \cup Elements(Dropped(lines, texts, headers)) : l.key = x.key
<1> DEFINE I == {i \in DOMAIN texts : /\ Lettered(texts[i])
                                      /\ texts[i].key \notin headers \cup Keys(lines)
                                      /\ \A j \in 1 .. i - 1 : texts[j].key # texts[i].key}
           dropped == Dropped(lines, texts, headers)
<1>1. dropped = Picked(texts, I) /\ I \in SUBSET DOMAIN texts
  BY DEF Dropped
<1>2. DOMAIN texts = 1 .. Len(texts) /\ Len(texts) \in Nat
  OBVIOUS
<1> HIDE DEF dropped
<1>3. ASSUME NEW i PROVE i \in I <=> /\ i \in DOMAIN texts /\ Lettered(texts[i])
                                     /\ texts[i].key \notin headers \cup Keys(lines)
                                     /\ \A j \in 1 .. i - 1 : texts[j].key # texts[i].key
  OBVIOUS
<1> HIDE DEF I
<1>4. dropped \in Seq(AnyLine) /\ Elements(dropped) = {texts[i] : i \in I}
  BY <1>1, ElementsOfPicked
<1>5. \A l \in Elements(dropped) : Lettered(l)
  BY <1>3, <1>4
<1>6. ASSUME NEW x \in Elements(texts), Lettered(x), x.key \notin headers
      PROVE  \E l \in Elements(lines) \cup Elements(dropped) : l.key = x.key
  <2>1. CASE x.key \in Keys(lines)
    <3>1. PICK i \in DOMAIN lines : x.key = lines[i].key
      BY <2>1 DEF Keys
    <3> QED
      BY <3>1 DEF Elements
  <2>2. CASE x.key \notin Keys(lines)
    <3> DEFINE same == {i \in DOMAIN texts : texts[i].key = x.key}
    <3>1. same \in SUBSET Nat
      BY <1>2
    <3>2. same # {}
      BY DEF Elements
    <3>3. PICK i \in same : \A j \in same : i <= j
      BY <3>1, <3>2, LeastOf
    <3>4. i \in DOMAIN texts /\ texts[i].key = x.key /\ i \in Nat
      BY <3>1, <3>3
    <3>5. \A j \in 1 .. i - 1 : texts[j].key # texts[i].key
      <4> SUFFICES ASSUME NEW j \in 1 .. i - 1, texts[j].key = texts[i].key PROVE FALSE
        OBVIOUS
      <4>1. j \in DOMAIN texts /\ j < i /\ j \in Nat
        BY <1>2, <3>4
      <4>2. j \in same
        BY <3>4, <4>1
      <4> QED
        BY <3>3, <3>4, <4>1, <4>2
    <3>6. Lettered(texts[i])
      <4>1. texts[i] \in Elements(texts)
        BY <3>4 DEF Elements
      <4>2. texts[i].kind = x.kind
        BY <3>4, <4>1
      <4> QED
        BY <1>6, <4>2 DEF Lettered
    <3>7. i \in I
      BY <1>3, <1>6, <2>2, <3>4, <3>5, <3>6
    <3> QED
      BY <1>4, <3>4, <3>7
  <2> QED
    BY <2>1, <2>2
<1> QED
  BY <1>4, <1>5, <1>6 DEF dropped

\* Recovered lines follow those of the parse.
LEMMA Append2Is ==
  ASSUME NEW lines \in Seq(AnyLine), NEW extra \in Seq(AnyLine)
  PROVE  /\ Append2(lines, extra) \in Seq(AnyLine)
         /\ Elements(lines) \cup Elements(extra) \subseteq Elements(Append2(lines, extra))
         /\ Elements(Append2(lines, extra)) \subseteq Elements(lines) \cup Elements(extra) \cup {Blank}
<1>1. CASE extra = <<>>
  <2>1. Elements(extra) = {} /\ Append2(lines, extra) = lines
    BY <1>1 DEF Elements, Append2
  <2> QED
    BY <2>1
<1>2. CASE extra # <<>>
  <2> DEFINE b == <<Blank>>
             lb == lines \o b
  <2>1. b \in Seq(AnyLine) /\ Elements(b) = {Blank}
    <3>1. Blank \in AnyLine
      BY DEF Blank, Line, AnyLine, ElementKinds
    <3> QED
      BY <3>1 DEF Elements
  <2>2. Append2(lines, extra) = lb \o extra
    BY <1>2 DEF Append2
  <2> HIDE DEF b
  <2>3. lb \in Seq(AnyLine) /\ Elements(lb) = Elements(lines) \cup Elements(b)
    BY <2>1, ElementsOfConcat
  <2> HIDE DEF lb
  <2>4. lb \o extra \in Seq(AnyLine) /\ Elements(lb \o extra) = Elements(lb) \cup Elements(extra)
    BY <2>3, ElementsOfConcat
  <2> QED
    BY <2>1, <2>2, <2>3, <2>4
<1> QED
  BY <1>1, <1>2

\* With or without the same number of pages, all letters of the text layer are in the text
\* but for running headers, and nothing that was there is gone.
LEMMA RecoveredIs ==
  ASSUME NEW parsed \in PageTexts, NEW layer \in PageTexts,
         parsed # <<>> \/ Len(parsed) = Len(layer),
         \A x, y \in AllOf(layer) : x.key = y.key => x.kind = y.kind
  PROVE  /\ Recovered(parsed, layer) \in PageTexts
         /\ AllOf(parsed) \subseteq AllOf(Recovered(parsed, layer))
         /\ \A l \in AllOf(Recovered(parsed, layer)) : l = Blank \/ l \in AllOf(parsed) \/ Lettered(l)
         /\ \A x \in AllOf(layer) :
              Lettered(x) /\ x.key \notin Repeated(layer) =>
                \E l \in AllOf(Recovered(parsed, layer)) : l.key = x.key
<1> DEFINE n == Len(parsed)
           recovered == Recovered(parsed, layer)
<1>1. n \in Nat /\ DOMAIN parsed = 1 .. n /\ \A p \in DOMAIN parsed : parsed[p] \in Seq(AnyLine)
  BY DEF PageTexts
<1>2. \A p \in DOMAIN layer : layer[p] \in Seq(AnyLine)
  BY DEF PageTexts
<1>3. CASE n = Len(layer)
  <2> DEFINE headers == Repeated(layer)
             extra(p) == Dropped(parsed[p], layer[p], headers)
  <2>1. recovered = [p \in 1 .. n |-> Append2(parsed[p], extra(p))]
    BY <1>1, <1>3 DEF Recovered
  <2>2. DOMAIN layer = 1 .. n
    BY <1>3 DEF PageTexts
  <2> HIDE DEF recovered, headers, n
  <2>3. ASSUME NEW p \in 1 .. n
        PROVE  /\ extra(p) \in Seq(AnyLine)
               /\ \A l \in Elements(extra(p)) : Lettered(l)
               /\ \A x \in Elements(layer[p]) :
                    Lettered(x) /\ x.key \notin headers =>
                      \E l \in Elements(parsed[p]) \cup Elements(extra(p)) : l.key = x.key
    <3> DEFINE a == parsed[p]
               b == layer[p]
    <3>1. a \in Seq(AnyLine) /\ b \in Seq(AnyLine)
      BY <1>1, <1>2, <2>2
    <3>2. \A x \in Elements(b) : x \in AllOf(layer)
      BY <2>2 DEF AllOf
    <3>3. \A x, y \in Elements(b) : x.key = y.key => x.kind = y.kind
      BY <3>2
    <3> HIDE DEF a, b
    <3>4. /\ Dropped(a, b, headers) \in Seq(AnyLine)
          /\ \A l \in Elements(Dropped(a, b, headers)) : Lettered(l)
          /\ \A x \in Elements(b) :
               Lettered(x) /\ x.key \notin headers =>
                 \E l \in Elements(a) \cup Elements(Dropped(a, b, headers)) : l.key = x.key
      BY <3>1, <3>3, DroppedIs
    <3> QED
      BY <3>4 DEF a, b
  <2> HIDE DEF extra
  <2>4. ASSUME NEW p \in 1 .. n
        PROVE  /\ recovered[p] \in Seq(AnyLine)
               /\ Elements(parsed[p]) \cup Elements(extra(p)) \subseteq Elements(recovered[p])
               /\ Elements(recovered[p]) \subseteq Elements(parsed[p]) \cup Elements(extra(p)) \cup {Blank}
    <3>1. parsed[p] \in Seq(AnyLine) /\ extra(p) \in Seq(AnyLine) /\ recovered[p] = Append2(parsed[p], extra(p))
      BY <1>1, <2>1, <2>3
    <3> QED
      BY <3>1, Append2Is
  <2>5. recovered \in PageTexts /\ DOMAIN recovered = 1 .. n
    <3>1. recovered = [p \in 1 .. n |-> recovered[p]]
      BY <2>1
    <3>2. recovered \in [1 .. n -> Seq(AnyLine)]
      BY <2>4, <3>1
    <3> QED
      BY <1>1, <3>2, TableIsSeq DEF PageTexts
  <2>6. ASSUME NEW l \in AllOf(parsed) PROVE l \in AllOf(recovered)
    <3>1. PICK p \in 1 .. n : l \in Elements(parsed[p])
      BY <1>1, Zenon DEF AllOf
    <3> QED
      BY <2>4, <2>5, <3>1 DEF AllOf
  <2>7. ASSUME NEW l \in AllOf(recovered) PROVE l = Blank \/ l \in AllOf(parsed) \/ Lettered(l)
    <3>1. PICK p \in 1 .. n : l \in Elements(recovered[p])
      BY <2>5, Zenon DEF AllOf
    <3>2. l \in Elements(parsed[p]) => l \in AllOf(parsed)
      BY <1>1 DEF AllOf
    <3> QED
      BY <2>3, <2>4, <3>1, <3>2
  <2>8. ASSUME NEW x \in AllOf(layer), Lettered(x), x.key \notin headers
        PROVE  \E l \in AllOf(recovered) : l.key = x.key
    <3>1. PICK p \in 1 .. n : x \in Elements(layer[p])
      BY <2>2, Zenon DEF AllOf
    <3>2. PICK l \in Elements(parsed[p]) \cup Elements(extra(p)) : l.key = x.key
      BY <2>3, <2>8, <3>1
    <3>3. l \in AllOf(recovered)
      BY <2>4, <2>5, <3>2 DEF AllOf
    <3> QED
      BY <3>2, <3>3
  <2> QED
    BY <2>5, <2>6, <2>7, <2>8 DEF recovered, headers
<1>4. CASE n # Len(layer)
  <2> DEFINE all == FlattenSeq(parsed)
             allLayer == FlattenSeq(layer)
             extra == Dropped(all, allLayer, {})
             end == Append2(parsed[n], extra)
  <2>1. recovered = [parsed EXCEPT ![n] = end]
    BY <1>4 DEF Recovered
  <2>2. n \in 1 .. n
    BY <1>1, <1>4, EmptySeq
  <2>3. /\ all \in Seq(AnyLine) /\ Elements(all) = AllOf(parsed)
        /\ allLayer \in Seq(AnyLine) /\ Elements(allLayer) = AllOf(layer)
    BY ElementsOfFlat DEF PageTexts
  <2> HIDE DEF recovered, n, all, allLayer
  <2>4. /\ extra \in Seq(AnyLine)
        /\ \A l \in Elements(extra) : Lettered(l)
        /\ \A x \in AllOf(layer) :
             Lettered(x) => \E l \in AllOf(parsed) \cup Elements(extra) : l.key = x.key
    <3>1. \A x, y \in Elements(allLayer) : x.key = y.key => x.kind = y.kind
      BY <2>3
    <3>2. /\ extra \in Seq(AnyLine)
          /\ \A l \in Elements(extra) : Lettered(l)
          /\ \A x \in Elements(allLayer) :
               Lettered(x) /\ x.key \notin {} => \E l \in Elements(all) \cup Elements(extra) : l.key = x.key
      BY <2>3, <3>1, DroppedIs
    <3> QED
      BY <2>3, <3>2
  <2> HIDE DEF extra
  <2>5. /\ end \in Seq(AnyLine)
        /\ Elements(parsed[n]) \cup Elements(extra) \subseteq Elements(end)
        /\ Elements(end) \subseteq Elements(parsed[n]) \cup Elements(extra) \cup {Blank}
    <3>1. parsed[n] \in Seq(AnyLine)
      BY <1>1, <2>2
    <3> QED
      BY <2>4, <3>1, Append2Is
  <2> HIDE DEF end
  <2>6. recovered \in PageTexts /\ DOMAIN recovered = 1 .. n
        /\ \A p \in 1 .. n : recovered[p] = IF p = n THEN end ELSE parsed[p]
    <3>1. DOMAIN recovered = 1 .. n /\ \A p \in 1 .. n : recovered[p] = IF p = n THEN end ELSE parsed[p]
      BY <1>1, <2>1
    <3>2. recovered = [p \in 1 .. n |-> recovered[p]]
      BY <1>1, <2>1
    <3>3. \A p \in 1 .. n : recovered[p] \in Seq(AnyLine)
      BY <1>1, <2>5, <3>1
    <3>4. recovered \in [1 .. n -> Seq(AnyLine)]
      BY <3>2, <3>3
    <3> QED
      BY <1>1, <3>1, <3>4, TableIsSeq DEF PageTexts
  <2>7. ASSUME NEW l \in AllOf(parsed) PROVE l \in AllOf(recovered)
    <3>1. PICK p \in 1 .. n : l \in Elements(parsed[p])
      BY <1>1, Zenon DEF AllOf
    <3>2. l \in Elements(recovered[p])
      BY <2>5, <2>6, <3>1
    <3> QED
      BY <2>6, <3>2 DEF AllOf
  <2>8. ASSUME NEW l \in AllOf(recovered) PROVE l = Blank \/ l \in AllOf(parsed) \/ Lettered(l)
    <3>1. PICK p \in 1 .. n : l \in Elements(recovered[p])
      BY <2>6, Zenon DEF AllOf
    <3>2. l \in Elements(parsed[p]) => l \in AllOf(parsed)
      BY <1>1 DEF AllOf
    <3> QED
      BY <2>4, <2>5, <2>6, <3>1, <3>2
  <2>9. \A l \in Elements(extra) : l \in AllOf(recovered)
    <3>1. \A l \in Elements(extra) : l \in Elements(recovered[n])
      BY <2>2, <2>5, <2>6
    <3> QED
      BY <2>2, <2>6, <3>1 DEF AllOf
  <2>10. ASSUME NEW x \in AllOf(layer), Lettered(x)
         PROVE  \E l \in AllOf(recovered) : l.key = x.key
    <3>1. PICK l \in AllOf(parsed) \cup Elements(extra) : l.key = x.key
      BY <2>4, <2>10
    <3> QED
      BY <2>7, <2>9, <3>1
  <2> QED
    BY <2>6, <2>7, <2>8, <2>10 DEF recovered
<1> QED
  BY <1>3, <1>4

-----------------------------------------------------------------------------
(* The inductive invariant *)

\* Lines that are not blank.
Words == {l \in AnyLine : l.kind # "blank"}

\* What is known of a picture, and of one dealt with.
Picture == [page : DOMAIN printed, figure : Element]
Slot == [page : DOMAIN printed, figure : Element, text : Seq(Words)]

\* A transcription is on a page once the pages are made; the recovery finds every line of
\* letters; and once indexed the words of the pages are in the chunks.
DocumentsIInv ==
  /\ printed \in Printed
  /\ slots \in Seq(Slot)
  /\ pages \in PageTexts
  /\ parsing = "load" => slots = <<>>
  /\ parsing \notin {"load", "figures", "export"} =>
       \A n \in DOMAIN slots : Elements(slots[n].text) \subseteq AllOf(pages)
  /\ parsing \in {"recover", "chunk recovered", "indexed recovered"} =>
       \A l \in AllOf(pages) : l.kind = "blank" => l = Blank \/ l \in AllOf(printed)
  /\ parsing = "recover" => pages # <<>> \/ Len(pages) = Len(printed)
  /\ parsing \in {"chunk recovered", "indexed recovered"} =>
       \A x \in AllOf(Flat) : Lettered(x) /\ x.key \notin Repeated(Flat) =>
         \E l \in AllOf(pages) : l.key = x.key
  /\ DocumentsDone => \A p \in DOMAIN pages : Worded(pages[p]) \subseteq TextIn(indexed)

\* Pages of words are pages of lines.
LEMMA TextsAreLines ==
  ASSUME NEW texts \in Seq(Seq(Words))
  PROVE  texts \in Seq(Seq(AnyLine)) /\ \A l \in AllOf(texts) : l.kind # "blank"
<1>1. Words \subseteq AnyLine
  BY DEF Words
<1>2. Seq(Words) \subseteq Seq(AnyLine)
  BY <1>1, SeqOfMore
<1>3. texts \in Seq(Seq(AnyLine))
  <2> DEFINE S == Seq(Words)
             T == Seq(AnyLine)
  <2>1. S \subseteq T /\ texts \in Seq(S)
    BY <1>2
  <2> HIDE DEF S, T
  <2>2. texts \in Seq(T)
    BY <2>1, SeqOfMore
  <2> QED
    BY <2>2 DEF T
<1>4. ASSUME NEW l \in AllOf(texts) PROVE l.kind # "blank"
  <2>1. PICK p \in DOMAIN texts : l \in Elements(texts[p])
    BY Zenon DEF AllOf
  <2>2. l \in Words
    BY <2>1 DEF Elements
  <2> QED
    BY <2>2 DEF Words
<1> QED
  BY <1>3, <1>4

\* The pictures are figures that are printed, on their page.
LEMMA PicturesAre ==
  ASSUME DocumentsAssumption, printed \in Printed
  PROVE  Pictures \in Seq(Picture)
<1> DEFINE n == Len(printed)
           T == Picture
           of(p, e) == IF e.kind \in Figures THEN <<[page |-> p, figure |-> e]>> ELSE <<>>
           m == [p \in DOMAIN printed |-> FlattenSeq([i \in DOMAIN printed[p] |-> of(p, printed[p][i])])]
<1>1. printed \in Seq(Seq(Element))
  BY PrintedIs
<1>2. n \in Nat /\ DOMAIN printed = 1 .. n
  BY <1>1
<1>3. Pictures = FlattenSeq(m)
  BY DEF Pictures, Each
<1>4. ASSUME NEW p \in DOMAIN printed PROVE m[p] \in Seq(T)
  <2> DEFINE s == printed[p]
             f == [e \in Element |-> of(p, e)]
  <2>1. s \in Seq(Element)
    BY <1>1
  <2>2. ASSUME NEW e \in Element PROVE of(p, e) \in Seq(T)
    <3>1. [page |-> p, figure |-> e] \in T
      BY DEF Picture
    <3> DEFINE r == [page |-> p, figure |-> e]
    <3> HIDE DEF r, T
    <3>2. <<r>> \in Seq(T) /\ <<>> \in Seq(T)
      BY <3>1 DEF r
    <3> QED
      BY <3>2 DEF r
  <2> HIDE DEF T, of
  <2>3. f \in [Element -> Seq(T)]
    BY <2>2
  <2>4. m[p] = FlattenSeq([i \in DOMAIN s |-> of(p, s[i])])
    OBVIOUS
  <2> HIDE DEF s, m
  <2>5. \A i \in DOMAIN s : f[s[i]] = of(p, s[i])
    <3>1. \A i \in DOMAIN s : s[i] \in Element
      BY <2>1
    <3> QED
      BY <3>1
  <2> HIDE DEF f
  <2>6. [i \in DOMAIN s |-> f[s[i]]] = [i \in DOMAIN s |-> of(p, s[i])]
    BY <2>5, Zenon
  <2>7. Mapped(s, f) \in Seq(T)
    BY <2>1, <2>3, EachIs
  <2> QED
    BY <2>4, <2>6, <2>7 DEF Mapped
<1>5. m = [p \in 1 .. n |-> m[p]]
  BY <1>2
<1> HIDE DEF m, T, n
<1>6. m \in [1 .. n -> Seq(T)]
  BY <1>2, <1>4, <1>5
<1>7. m \in Seq(Seq(T))
  BY <1>2, <1>6, TableIsSeq
<1> QED
  BY <1>3, <1>7, ElementsOfFlat DEF T

\* A transcription is words only, none without a key.
LEMMA TranscriptionIs ==
  ASSUME NEW e \in Element
  PROVE  Transcription(e) \in Seq(Words)
<1>1. Inside(e, 1) \in LineKey /\ Inside(e, 2) \in LineKey
  BY InsideIs
<1>2. \A k \in LineKey : Line("row", k) \in Words /\ Line("prose", k) \in Words
  BY DEF Line, Words, AnyLine, ElementKinds, LineKey
<1> DEFINE a == Line("row", Inside(e, 1))
           b == Line("row", Inside(e, 2))
           c == Line("prose", Inside(e, 1))
<1>3. a \in Words /\ b \in Words /\ c \in Words
  BY <1>1, <1>2
<1>4. Transcription(e) = IF e.kind = "chart" THEN <<a, b>> ELSE <<c>>
  BY DEF Transcription
<1> HIDE DEF a, b, c
<1>5. <<a, b>> \in Seq(Words) /\ <<c>> \in Seq(Words)
  BY <1>3
<1> QED
  BY <1>4, <1>5

\* Every slot's text is among those of its page.
LEMMA TextsOfIs ==
  ASSUME slots \in Seq(Slot), NEW p
  PROVE  /\ TextsOf(p) \in Seq(Seq(Words))
         /\ \A n \in DOMAIN slots : slots[n].page = p => Elements(slots[n].text) \subseteq AllOf(TextsOf(p))
<1> DEFINE I == {n \in DOMAIN slots : slots[n].page = p}
           own == Picked(slots, I)
           texts == TextsOf(p)
           T == Slot
<1>1. texts = [k \in DOMAIN own |-> own[k].text]
  BY DEF TextsOf
<1>2. I \in SUBSET DOMAIN slots /\ \A n \in DOMAIN slots : n \in I <=> slots[n].page = p
  OBVIOUS
<1> HIDE DEF I, texts, T
<1>3. own \in Seq(T) /\ Elements(own) = {slots[n] : n \in I}
  BY <1>2, ElementsOfPicked DEF T
<1> HIDE DEF own
<1>4. DOMAIN own = 1 .. Len(own) /\ Len(own) \in Nat /\ \A k \in DOMAIN own : own[k] \in T
  BY <1>3
<1>5. texts \in [1 .. Len(own) -> Seq(Words)]
  <2>1. \A k \in DOMAIN own : own[k].text \in Seq(Words)
    BY <1>4 DEF T, Slot
  <2> QED
    BY <1>1, <1>4, <2>1
<1>6. texts \in Seq(Seq(Words)) /\ DOMAIN texts = DOMAIN own
  BY <1>4, <1>5, TableIsSeq
<1>7. ASSUME NEW n \in DOMAIN slots, slots[n].page = p, NEW l \in Elements(slots[n].text)
      PROVE  l \in AllOf(texts)
  <2>1. slots[n] \in Elements(own)
    BY <1>2, <1>3, <1>7
  <2>2. PICK k \in DOMAIN own : own[k] = slots[n]
    BY <2>1 DEF Elements
  <2>3. k \in DOMAIN texts /\ texts[k] = slots[n].text
    BY <1>1, <1>6, <2>2
  <2> QED
    BY <1>7, <2>3 DEF AllOf
<1> QED
  BY <1>6, <1>7 DEF texts

\* A page with the transcriptions of its figures, if it has any.
WithFigures(lines, texts) == IF texts = <<>> THEN lines ELSE Inject(lines, texts)

\* It has its own words and all those transcribed.
LEMMA WithFiguresIs ==
  ASSUME NEW elements \in Seq(Element), NEW texts \in Seq(Seq(Words))
  PROVE  LET page == WithFigures(Exported(elements), texts)
         IN  /\ page \in Seq(AnyLine)
             /\ AllOf(texts) \subseteq Elements(page)
             /\ \A l \in Elements(page) : l.kind = "blank" => l = Blank \/ l \in Elements(elements)
<1> DEFINE lines == Exported(elements)
           page == WithFigures(lines, texts)
<1>1. lines \in Seq(AnyLine) /\ \A l \in Elements(lines) : l.kind = "blank" => l \in Elements(elements)
  BY ExportedIs
<1>2. texts \in Seq(Seq(AnyLine)) /\ \A l \in AllOf(texts) : l.kind # "blank"
  BY TextsAreLines
<1> HIDE DEF lines
<1>3. CASE texts = <<>>
  <2>1. AllOf(texts) = {}
    BY <1>3 DEF AllOf
  <2> QED
    BY <1>1, <1>3, <2>1 DEF WithFigures, lines
<1>4. CASE texts # <<>>
  <2>1. /\ Inject(lines, texts) \in Seq(AnyLine)
        /\ \A l \in AllOf(texts) : l \in Elements(Inject(lines, texts))
        /\ \A l \in Elements(Inject(lines, texts)) : l = Blank \/ l \in Elements(lines) \/ l \in AllOf(texts)
    BY <1>1, <1>2, InjectIs
  <2>2. page = Inject(lines, texts)
    BY <1>4 DEF WithFigures
  <2> HIDE DEF page
  <2>3. /\ page \in Seq(AnyLine)
        /\ AllOf(texts) \subseteq Elements(page)
        /\ \A l \in Elements(page) : l.kind = "blank" => l = Blank \/ l \in Elements(elements)
    BY <1>1, <1>2, <2>1, <2>2
  <2> QED
    BY <2>3 DEF page, lines
<1> QED
  BY <1>3, <1>4

\* The inductive invariant holds at first.
LEMMA InitDocuments ==
  ASSUME DocumentsAssumption, DocumentsInit
  PROVE  DocumentsIInv
<1>1. slots = <<>> /\ pages = <<>> /\ parsing = "load" /\ printed \in Printed
  BY DEF DocumentsInit
<1>2. <<>> \in Seq(Slot) /\ <<>> \in PageTexts
  BY DEF PageTexts
<1> HIDE DEF PageTexts
<1> QED
  BY <1>1, <1>2 DEF DocumentsIInv, DocumentsDone

\* A page with its figures.
LEMMA ExportIs ==
  ASSUME DocumentsAssumption, DocumentsIInv, Export
  PROVE  /\ pages' \in PageTexts
         /\ \A n \in DOMAIN slots : Elements(slots[n].text) \subseteq AllOf(pages')
         /\ \A l \in AllOf(pages') : l.kind = "blank" => l = Blank \/ l \in AllOf(printed)
         /\ pages' # <<>> \/ Len(pages') = Len(printed)
<1>1. printed \in Seq(Seq(Element)) /\ slots \in Seq(Slot)
  BY PrintedIs DEF DocumentsIInv
<1>2. ASSUME NEW n \in DOMAIN slots PROVE slots[n] \in Slot
  <2> DEFINE T == Slot
  <2>1. slots \in Seq(T)
    BY <1>1
  <2> HIDE DEF T
  <2> QED
    BY <2>1 DEF T
<1>3. CASE paginated
  <2> DEFINE k == Len(printed)
             of(p) == WithFigures(Exported(printed[p]), TextsOf(p))
  <2>1. pages' = [p \in DOMAIN printed |-> of(p)]
    BY <1>3 DEF Export, WithFigures
  <2>2. k \in Nat /\ DOMAIN printed = 1 .. k
    BY <1>1
  <2> HIDE DEF k
  <2>3. ASSUME NEW p \in DOMAIN printed
        PROVE  /\ of(p) \in Seq(AnyLine)
               /\ AllOf(TextsOf(p)) \subseteq Elements(of(p))
               /\ \A l \in Elements(of(p)) : l.kind = "blank" => l = Blank \/ l \in AllOf(printed)
    <3> DEFINE s == printed[p]
               t == TextsOf(p)
    <3>1. s \in Seq(Element) /\ Elements(s) \subseteq AllOf(printed)
      BY <1>1 DEF AllOf
    <3>2. t \in Seq(Seq(Words))
      BY <1>1, TextsOfIs
    <3> HIDE DEF s, t
    <3>3. /\ WithFigures(Exported(s), t) \in Seq(AnyLine)
          /\ AllOf(t) \subseteq Elements(WithFigures(Exported(s), t))
          /\ \A l \in Elements(WithFigures(Exported(s), t)) : l.kind = "blank" => l = Blank \/ l \in Elements(s)
      BY <3>1, <3>2, WithFiguresIs
    <3> QED
      BY <3>1, <3>3 DEF s, t
  <2> HIDE DEF of
  <2>4. DOMAIN pages' = DOMAIN printed /\ \A p \in DOMAIN printed : pages'[p] = of(p)
    BY <2>1
  <2>5. pages' \in Seq(Seq(AnyLine)) /\ Len(pages') = k
    <3>1. pages' \in [1 .. k -> Seq(AnyLine)]
      BY <2>1, <2>2, <2>3
    <3> QED
      BY <2>2, <3>1, TableIsSeq
  <2>6. ASSUME NEW n \in DOMAIN slots, NEW l \in Elements(slots[n].text) PROVE l \in AllOf(pages')
    <3> DEFINE p == slots[n].page
    <3>1. p \in DOMAIN printed
      BY <1>2 DEF Slot
    <3>2. l \in AllOf(TextsOf(p))
      BY <1>1, <2>6, TextsOfIs
    <3> HIDE DEF p
    <3>3. l \in Elements(pages'[p])
      BY <2>3, <2>4, <3>1, <3>2
    <3> QED
      BY <2>4, <3>1, <3>3 DEF AllOf
  <2>7. ASSUME NEW l \in AllOf(pages'), l.kind = "blank" PROVE l = Blank \/ l \in AllOf(printed)
    <3>1. PICK p \in DOMAIN printed : l \in Elements(pages'[p])
      BY <2>4, Zenon DEF AllOf
    <3> QED
      BY <2>3, <2>4, <2>7, <3>1
  <2> QED
    BY <2>5, <2>6, <2>7 DEF PageTexts, k
<1>4. CASE ~paginated
  <2> DEFINE s == FlattenSeq(printed)
             t == [n \in DOMAIN slots |-> slots[n].text]
             page == WithFigures(Exported(s), t)
  <2>1. pages' = <<page>>
    BY <1>4 DEF Export, WithFigures
  <2>2. s \in Seq(Element) /\ Elements(s) = AllOf(printed)
    BY <1>1, ElementsOfFlat
  <2>3. t \in Seq(Seq(Words)) /\ DOMAIN t = DOMAIN slots
    <3>1. DOMAIN slots = 1 .. Len(slots) /\ Len(slots) \in Nat
      BY <1>1
    <3>2. \A n \in DOMAIN slots : slots[n].text \in Seq(Words)
      BY <1>2 DEF Slot
    <3>3. t \in [1 .. Len(slots) -> Seq(Words)]
      BY <3>1, <3>2
    <3> QED
      BY <3>1, <3>3, TableIsSeq
  <2>4. \A n \in DOMAIN slots : t[n] = slots[n].text
    OBVIOUS
  <2> HIDE DEF s, t
  <2>5. /\ page \in Seq(AnyLine)
        /\ AllOf(t) \subseteq Elements(page)
        /\ \A l \in Elements(page) : l.kind = "blank" => l = Blank \/ l \in AllOf(printed)
    BY <2>2, <2>3, WithFiguresIs
  <2> HIDE DEF page
  <2>6. pages' \in Seq(Seq(AnyLine)) /\ pages' # <<>> /\ DOMAIN pages' = {1} /\ pages'[1] = page
    BY <2>1, <2>5
  <2>7. AllOf(pages') = Elements(page)
    BY <2>6 DEF AllOf
  <2>8. \A n \in DOMAIN slots : Elements(slots[n].text) \subseteq AllOf(t)
    BY <2>3, <2>4 DEF AllOf
  <2> QED
    BY <2>5, <2>6, <2>7, <2>8 DEF PageTexts
<1> QED
  BY <1>3, <1>4

\* Every step keeps it.
LEMMA StepDocuments ==
  ASSUME DocumentsAssumption, DocumentsIInv, [DocumentsNext]_documentVars
  PROVE  DocumentsIInv'
<1>0. printed \in Printed /\ slots \in Seq(Slot) /\ pages \in PageTexts
  BY DEF DocumentsIInv
<1>a. /\ Flat \in PageTexts /\ Len(Flat) = Len(printed)
      /\ \A x, y \in AllOf(Flat) : x.key = y.key => x.kind = y.kind
  BY <1>0, LayerKeysAre
<1>b. printed \in PageTexts
  BY <1>0, PrintedIs
<1>c. printed' = printed => Slot' = Slot /\ Flat' = Flat /\ AllOf(printed)' = AllOf(printed)
  BY DEF Slot, Flat
<1>1. CASE LoadText
  <2>1. /\ printed' = printed /\ slots' = slots /\ slots = <<>>
        /\ pages' = <<FlattenSeq(printed)>> /\ parsing' = "chunk"
    BY <1>1 DEF LoadText, settingVars, DocumentsIInv
  <2> DEFINE flat == FlattenSeq(printed)
  <2>2. flat \in Seq(AnyLine)
    BY <1>b, ElementsOfFlat DEF PageTexts
  <2> HIDE DEF flat
  <2>3. pages' \in PageTexts
    BY <2>1, <2>2 DEF PageTexts, flat
  <2>4. ~DocumentsDone' /\ DOMAIN slots' = {}
    BY <2>1 DEF DocumentsDone
  <2> QED
    BY <1>0, <1>c, <2>1, <2>3, <2>4 DEF DocumentsIInv
<1>2. CASE LoadFlat
  <2>1. printed' = printed /\ slots' = slots /\ slots = <<>> /\ pages' = Flat /\ parsing' = "chunk"
    BY <1>2 DEF LoadFlat, settingVars, DocumentsIInv
  <2>2. ~DocumentsDone' /\ DOMAIN slots' = {}
    BY <2>1 DEF DocumentsDone
  <2> QED
    BY <1>0, <1>a, <1>c, <2>1, <2>2 DEF DocumentsIInv
<1>3. CASE Convert
  <2>1. printed' = printed /\ slots' = slots /\ pages' = pages /\ parsing' \in {"figures", "export"}
    BY <1>3 DEF Convert, settingVars
  <2>2. ~DocumentsDone'
    BY <2>1 DEF DocumentsDone
  <2> QED
    BY <1>0, <1>c, <2>1, <2>2 DEF DocumentsIInv
<1>4. CASE Annotate
  <2> DEFINE n == Len(slots) + 1
             pic == Pictures[n]
  <2>1. printed' = printed /\ pages' = pages /\ parsing' = parsing /\ parsing = "figures" /\ n <= Len(Pictures)
    BY <1>4 DEF Annotate, settingVars
  <2>2. PICK text \in {<<>>} \cup (IF Selected(n) THEN {Transcription(pic.figure)} ELSE {}) :
          slots' = Append(slots, [page |-> pic.page, figure |-> pic.figure, text |-> text])
    BY <1>4 DEF Annotate
  <2>3. pic \in Picture
    <3>1. Pictures \in Seq(Picture)
      BY <1>0, PicturesAre
    <3> DEFINE T == Picture
               s == Pictures
    <3> HIDE DEF T, s
    <3>2. s \in Seq(T) /\ n <= Len(s) /\ Len(slots) \in Nat
      BY <1>0, <2>1, <3>1 DEF T, s
    <3> HIDE DEF n
    <3>3. n \in Nat \ {0}
      BY <3>2 DEF n
    <3>4. n \in DOMAIN s
      BY <3>2, <3>3
    <3> QED
      BY <3>2, <3>4 DEF T, s
  <2> HIDE DEF pic, n
  <2>4. text \in Seq(Words)
    <3>1. pic.figure \in Element
      BY <2>3 DEF Picture
    <3>2. Transcription(pic.figure) \in Seq(Words) /\ <<>> \in Seq(Words)
      BY <3>1, TranscriptionIs
    <3> QED
      BY <2>2, <3>2
  <2>5. [page |-> pic.page, figure |-> pic.figure, text |-> text] \in Slot
    BY <2>3, <2>4 DEF Picture, Slot
  <2> DEFINE slot == [page |-> pic.page, figure |-> pic.figure, text |-> text]
             T == Slot
  <2>6. slots' \in Seq(T)
    <3>1. slot \in T /\ slots \in Seq(T) /\ slots' = Append(slots, slot)
      BY <1>0, <2>2, <2>5
    <3> HIDE DEF slot, T
    <3> QED
      BY <3>1
  <2>7. ~DocumentsDone'
    BY <2>1 DEF DocumentsDone
  <2> QED
    BY <1>0, <1>c, <2>1, <2>6, <2>7 DEF DocumentsIInv
<1>5. CASE Export
  <2>1. printed' = printed /\ slots' = slots /\ parsing' \in {"recover", "chunk"}
    BY <1>5 DEF Export, settingVars
  <2>2. /\ pages' \in PageTexts
        /\ \A n \in DOMAIN slots : Elements(slots[n].text) \subseteq AllOf(pages')
        /\ \A l \in AllOf(pages') : l.kind = "blank" => l = Blank \/ l \in AllOf(printed)
        /\ pages' # <<>> \/ Len(pages') = Len(printed)
    BY <1>5, ExportIs
  <2>3. ~DocumentsDone'
    BY <2>1 DEF DocumentsDone
  <2> QED
    BY <1>0, <1>c, <2>1, <2>2, <2>3 DEF DocumentsIInv
<1>6. CASE Recover
  <2>1. /\ printed' = printed /\ slots' = slots /\ pages' = Recovered(pages, Flat)
        /\ parsing = "recover" /\ parsing' = "chunk recovered"
    BY <1>6 DEF Recover, settingVars
  <2>2. /\ \A n \in DOMAIN slots : Elements(slots[n].text) \subseteq AllOf(pages)
        /\ \A l \in AllOf(pages) : l.kind = "blank" => l = Blank \/ l \in AllOf(printed)
        /\ pages # <<>> \/ Len(pages) = Len(Flat)
    BY <1>a, <2>1 DEF DocumentsIInv
  <2> DEFINE flat == Flat
             recovered == Recovered(pages, flat)
  <2> HIDE DEF flat
  <2>3. /\ recovered \in PageTexts
        /\ AllOf(pages) \subseteq AllOf(recovered)
        /\ \A l \in AllOf(recovered) : l = Blank \/ l \in AllOf(pages) \/ Lettered(l)
        /\ \A x \in AllOf(flat) :
             Lettered(x) /\ x.key \notin Repeated(flat) => \E l \in AllOf(recovered) : l.key = x.key
    <3>1. /\ flat \in PageTexts
          /\ pages # <<>> \/ Len(pages) = Len(flat)
          /\ \A x, y \in AllOf(flat) : x.key = y.key => x.kind = y.kind
      BY <1>a, <2>2 DEF flat
    <3> QED
      BY <1>0, <3>1, RecoveredIs
  <2> HIDE DEF recovered
  <2>4. pages' = recovered
    BY <2>1 DEF recovered, flat
  <2>5. \A l \in AllOf(recovered) : l.kind = "blank" => l = Blank \/ l \in AllOf(printed)
    BY <2>2, <2>3 DEF Lettered
  <2>6. ~DocumentsDone' /\ Flat' = flat
    BY <1>c, <2>1 DEF DocumentsDone, flat
  <2> QED
    BY <1>0, <1>c, <2>1, <2>2, <2>3, <2>4, <2>5, <2>6 DEF DocumentsIInv
<1>7. CASE RecoverFails
  <2>1. printed' = printed /\ slots' = slots /\ pages' = pages /\ parsing = "recover" /\ parsing' = "chunk"
    BY <1>7 DEF RecoverFails, settingVars
  <2>2. ~DocumentsDone'
    BY <2>1 DEF DocumentsDone
  <2> QED
    BY <1>0, <1>c, <2>1, <2>2 DEF DocumentsIInv
<1>8. CASE Index
  <2>1. /\ printed' = printed /\ slots' = slots /\ pages' = pages /\ indexed' = IngestPages(pages)
        /\ parsing \in {"chunk", "chunk recovered"}
        /\ parsing' = IF parsing = "chunk" THEN "indexed" ELSE "indexed recovered"
    BY <1>8 DEF Index, settingVars
  <2>2. \A p \in DOMAIN pages : Worded(pages[p]) \subseteq TextIn(IngestPages(pages))
    BY <1>0, IngestPagesIs
  <2>3. \A p \in DOMAIN pages' : Worded(pages'[p]) \subseteq TextIn(indexed)'
    BY <2>1, <2>2
  <2>4. (parsing = "chunk" /\ parsing' = "indexed") \/ (parsing = "chunk recovered" /\ parsing' = "indexed recovered")
    BY <2>1
  <2> QED
    BY <1>0, <1>c, <2>1, <2>3, <2>4 DEF DocumentsIInv
<1>9. CASE UNCHANGED documentVars
  <2>1. /\ printed' = printed /\ slots' = slots /\ pages' = pages /\ indexed' = indexed /\ parsing' = parsing
    BY <1>9 DEF documentVars, settingVars
  <2>2. DocumentsDone' = DocumentsDone /\ TextIn(indexed)' = TextIn(indexed)
    BY <2>1 DEF DocumentsDone
  <2> QED
    BY <1>0, <1>c, <2>1, <2>2 DEF DocumentsIInv
<1>10. CASE LoadFails
  <2>1. printed' = printed /\ slots' = slots /\ slots = <<>> /\ pages' = pages /\ parsing' = "failed"
    BY <1>10 DEF LoadFails, settingVars, DocumentsIInv
  <2>2. ~DocumentsDone' /\ DOMAIN slots' = {}
    BY <2>1 DEF DocumentsDone
  <2> QED
    BY <1>0, <1>c, <2>1, <2>2 DEF DocumentsIInv
<1> QED
  BY <1>1, <1>2, <1>3, <1>4, <1>5, <1>6, <1>7, <1>8, <1>9, <1>10 DEF DocumentsNext

\* The keys of lines are those of their elements.
LEMMA KeysOf ==
  ASSUME NEW lines, NEW l \in Elements(lines)
  PROVE  l.key \in Keys(lines)
BY DEF Elements, Keys

\* The inductive invariant says what NothingIsLost asks.
LEMMA NothingIsLostFollows ==
  ASSUME DocumentsAssumption, DocumentsIInv
  PROVE  NothingIsLost
<1> SUFFICES ASSUME DocumentsDone PROVE NothingIsLost
  BY DEF NothingIsLost
<1>1. /\ printed \in Printed /\ slots \in Seq(Slot) /\ pages \in PageTexts
      /\ \A p \in DOMAIN pages : Worded(pages[p]) \subseteq TextIn(indexed)
      /\ \A n \in DOMAIN slots : Elements(slots[n].text) \subseteq AllOf(pages)
      /\ parsing \in {"indexed", "indexed recovered"}
  BY DEF DocumentsIInv, DocumentsDone
<1>2. ASSUME NEW l \in TextIn(indexed) PROVE l.key \in KeysIndexed
  <2>1. PICK c \in DOMAIN indexed : l \in Elements(indexed[c].lines)
    BY Zenon DEF TextIn
  <2>2. l.key \in Keys(indexed[c].lines)
    BY <2>1, KeysOf
  <2> QED
    BY <2>2, Zenon DEF KeysIndexed
<1>3. ASSUME NEW l \in AllOf(pages), l.kind # "blank" PROVE l.key \in KeysIndexed
  <2>1. PICK p \in DOMAIN pages : l \in Elements(pages[p])
    BY Zenon DEF AllOf
  <2>2. l \in Worded(pages[p])
    BY <1>3, <2>1 DEF Worded
  <2> QED
    BY <1>1, <1>2, <2>2
<1>4. ASSUME NEW p \in DOMAIN pages, NEW i \in NotOfKind(pages[p], {"blank"})
      PROVE  pages[p][i].key \in KeysIndexed
  <2>1. i \in DOMAIN pages[p] /\ pages[p][i].kind # "blank"
    BY DEF NotOfKind, OfKind
  <2>2. pages[p][i] \in AllOf(pages)
    BY <2>1 DEF AllOf, Elements
  <2> QED
    BY <1>3, <2>1, <2>2
<1>5. ASSUME parsing = "indexed recovered", NEW k \in LetteredOf(Flat), k \notin Repeated(Flat)
      PROVE  k \in KeysIndexed
  <2> DEFINE flat == Flat
  <2>0. /\ \A x \in AllOf(flat) : \E e \in AllOf(printed) :
             x.key = e.key /\ x.kind = LayerKind(e.kind) /\ e.kind # "blank"
        /\ \A x \in AllOf(flat) : Lettered(x) /\ x.key \notin Repeated(flat) =>
             \E l \in AllOf(pages) : l.key = x.key
        /\ \A l \in AllOf(pages) : l.kind = "blank" => l = Blank \/ l \in AllOf(printed)
    BY <1>1, <1>5, LayerKeysAre DEF DocumentsIInv
  <2>1. \E x \in AllOf(flat) : Lettered(x) /\ x.key = k
    <3>1. k \in LetteredOf(flat)
      BY <1>5
    <3> HIDE DEF flat
    <3>2. PICK p \in DOMAIN flat : k \in {flat[p][i].key : i \in {i \in DOMAIN flat[p] : Lettered(flat[p][i])}}
      BY <3>1, Zenon DEF LetteredOf
    <3>3. PICK i \in DOMAIN flat[p] : Lettered(flat[p][i]) /\ k = flat[p][i].key
      BY <3>2
    <3>4. flat[p][i] \in AllOf(flat)
      BY DEF AllOf, Elements
    <3> QED
      BY <3>3, <3>4
  <2>2. k \notin Repeated(flat)
    BY <1>5
  <2> HIDE DEF flat
  <2>3. PICK x \in AllOf(flat) : Lettered(x) /\ x.key = k
    BY <2>1
  <2>4. PICK e \in AllOf(printed) : k = e.key /\ e.kind # "blank"
    BY <2>0, <2>3
  <2>5. PICK l \in AllOf(pages) : l.key = k
    BY <2>0, <2>2, <2>3
  <2>6. l.kind # "blank"
    <3> SUFFICES ASSUME l.kind = "blank" PROVE FALSE
      OBVIOUS
    <3>1. CASE l = Blank
      <4>1. e.key = <<0, 0, 9>>
        BY <2>4, <2>5, <3>1 DEF Blank, Line
      <4>2. e.key \in Nat \X Nat \X {0}
        <5>1. PICK p \in DOMAIN printed : \E i \in DOMAIN printed[p] : e = printed[p][i]
          BY PlaceOf
        <5>2. PICK i \in DOMAIN printed[p] : e = printed[p][i]
          BY <5>1
        <5>3. printed \in Seq(Seq(Element))
          BY <1>1, PrintedIs
        <5>4. e \in Element
          BY <5>2, <5>3
        <5> QED
          BY <5>4 DEF Element
      <4> QED
        BY <4>1, <4>2
    <3>2. CASE l # Blank
      <4>1. l \in AllOf(printed)
        BY <2>0, <3>2
      <4>2. l.kind = e.kind
        <5>1. l.key = e.key /\ printed \in Printed
          BY <1>1, <2>4, <2>5
        <5> QED
          BY <4>1, <5>1, KeysAre
      <4> QED
        BY <2>4, <4>2
    <3> QED
      BY <3>1, <3>2
  <2> QED
    BY <1>3, <2>5, <2>6
<1>6. ASSUME NEW n \in DOMAIN slots, NEW k \in Keys(slots[n].text) PROVE k \in KeysIndexed
  <2> DEFINE T == Slot
  <2>1. slots \in Seq(T)
    BY <1>1
  <2> HIDE DEF T
  <2>2. slots[n] \in T
    BY <2>1
  <2>3. slots[n].text \in Seq(Words)
    BY <2>2 DEF T, Slot
  <2>4. PICK i \in DOMAIN slots[n].text : k = slots[n].text[i].key
    BY DEF Keys
  <2> DEFINE text == slots[n].text
  <2>5. text[i] \in Words /\ text[i] \in AllOf(pages)
    <3>1. text \in Seq(Words) /\ Elements(text) \subseteq AllOf(pages) /\ i \in DOMAIN text
      BY <1>1, <2>3, <2>4
    <3> HIDE DEF text
    <3>2. text[i] \in Elements(text)
      BY <3>1 DEF Elements
    <3> QED
      BY <3>1, <3>2
  <2> QED
    BY <1>3, <2>4, <2>5 DEF Words
<1> QED
  BY <1>4, <1>5, <1>6 DEF NothingIsLost

\* From a file to the index no text is lost: every line of a page is in a chunk, with the
\* recovery every line of letters but for running headers, and every transcription that
\* was paid for.  For every document, chunk size, overlap and floor (loaders.py,
\* figure_vlm.py, chunking.py).
THEOREM NothingGetsLost == DocumentsSpec => []NothingIsLost
<1>1. DocumentsInit => DocumentsIInv
  BY DocumentsAssumption, InitDocuments
<1>2. DocumentsIInv /\ [DocumentsNext]_documentVars => DocumentsIInv'
  BY DocumentsAssumption, StepDocuments
<1>3. DocumentsIInv => NothingIsLost
  BY DocumentsAssumption, NothingIsLostFollows
<1> QED
  BY <1>1, <1>2, <1>3, PTL DEF DocumentsSpec

-----------------------------------------------------------------------------
(* Documents: places, rows and the order of a page *)

\* Rows are on one line each.
RowsOnce(lines) ==
  \A i, j \in DOMAIN lines : lines[i].kind = "row" /\ lines[j].key = lines[i].key => i = j

\* No row is on two lines of the texts.
RowsApart(texts) ==
  \A i, j \in DOMAIN texts : \A x \in DOMAIN texts[i] : \A y \in DOMAIN texts[j] :
    texts[i][x].kind = "row" /\ texts[j][y].key = texts[i][x].key => i = j /\ x = y

\* Texts that share no row have each on one line when they follow one another.
LEMMA FlatRowsOnce ==
  ASSUME NEW T, NEW s \in Seq(Seq(T)), RowsApart(s)
  PROVE  RowsOnce(FlattenSeq(s))
<1> DEFINE flat == FlattenSeq(s)
<1>1. \A k, l \in DOMAIN flat : k < l =>
        \E i, j \in DOMAIN s : \E x \in DOMAIN s[i] : \E y \in DOMAIN s[j] :
          /\ flat[k] = s[i][x] /\ flat[l] = s[j][y]
          /\ i < j \/ (i = j /\ x < y)
  BY FlattenOrder
<1>2. flat \in Seq(T)
  BY ElementsOfFlat
<1> HIDE DEF flat
<1>3. DOMAIN flat \subseteq Nat
  BY <1>2
<1>4. ASSUME NEW k \in DOMAIN flat, NEW l \in DOMAIN flat, k < l, flat[k].key = flat[l].key
      PROVE  flat[k].kind # "row" /\ flat[l].kind # "row"
  <2>1. PICK i \in DOMAIN s, j \in DOMAIN s : \E x \in DOMAIN s[i] : \E y \in DOMAIN s[j] :
          /\ flat[k] = s[i][x] /\ flat[l] = s[j][y]
          /\ i < j \/ (i = j /\ x < y)
    BY <1>1, <1>4
  <2>2. PICK x \in DOMAIN s[i], y \in DOMAIN s[j] :
          /\ flat[k] = s[i][x] /\ flat[l] = s[j][y]
          /\ i < j \/ (i = j /\ x < y)
    BY <2>1
  <2>3. i \in Nat /\ j \in Nat
    OBVIOUS
  <2>4. x \in Nat /\ y \in Nat
    <3> DEFINE S == Seq(T)
    <3>1. s \in Seq(S)
      OBVIOUS
    <3>2. s[i] \in S /\ s[j] \in S
      <4> HIDE DEF S
      <4> QED
        BY <3>1
    <3> QED
      BY <3>2
  <2>5. ~(i = j /\ x = y) /\ ~(j = i /\ y = x)
    BY <2>2, <2>3, <2>4
  <2> QED
    BY <1>4, <2>2, <2>5 DEF RowsApart
<1>5. ASSUME NEW k \in DOMAIN flat, NEW l \in DOMAIN flat, flat[k].kind = "row", flat[l].key = flat[k].key
      PROVE  k = l
  <2>1. k < l \/ l < k \/ k = l
    BY <1>3
  <2> QED
    BY <1>4, <1>5, <2>1
<1> QED
  BY <1>5 DEF RowsOnce, flat

\* Lines in the order they are printed in, as far as they are printed on the page.
InOrder(lines) ==
  \A i, j \in DOMAIN lines :
    LET k == lines[i].key  l == lines[j].key
    IN i < j /\ k[1] # 0 /\ l[1] # 0 => k[2] < l[2] \/ (k[2] = l[2] /\ k[3] <= l[3])

\* The i-th text is of what is printed i-th on its page.
InTurn(texts) ==
  \A i \in DOMAIN texts : \A x \in DOMAIN texts[i] : texts[i][x].key[1] # 0 =>
    /\ texts[i][x].key[2] = i
    /\ \A y \in DOMAIN texts[i] :
         x < y /\ texts[i][y].key[1] # 0 => texts[i][x].key[3] <= texts[i][y].key[3]

\* Texts of the elements of a page, one after another, are in the order of the page.
LEMMA FlatInOrder ==
  ASSUME NEW T, NEW s \in Seq(Seq(T)), InTurn(s)
  PROVE  InOrder(FlattenSeq(s))
<1> DEFINE flat == FlattenSeq(s)
<1>1. \A k, l \in DOMAIN flat : k < l =>
        \E i, j \in DOMAIN s : \E x \in DOMAIN s[i] : \E y \in DOMAIN s[j] :
          /\ flat[k] = s[i][x] /\ flat[l] = s[j][y]
          /\ i < j \/ (i = j /\ x < y)
  BY FlattenOrder
<1> HIDE DEF flat
<1>2. ASSUME NEW k \in DOMAIN flat, NEW l \in DOMAIN flat, k < l,
             flat[k].key[1] # 0, flat[l].key[1] # 0
      PROVE  \/ flat[k].key[2] < flat[l].key[2]
             \/ flat[k].key[2] = flat[l].key[2] /\ flat[k].key[3] <= flat[l].key[3]
  <2>1. PICK i \in DOMAIN s, j \in DOMAIN s : \E x \in DOMAIN s[i] : \E y \in DOMAIN s[j] :
          /\ flat[k] = s[i][x] /\ flat[l] = s[j][y]
          /\ i < j \/ (i = j /\ x < y)
    BY <1>1, <1>2
  <2>2. PICK x \in DOMAIN s[i], y \in DOMAIN s[j] :
          /\ flat[k] = s[i][x] /\ flat[l] = s[j][y]
          /\ i < j \/ (i = j /\ x < y)
    BY <2>1
  <2>3. flat[k].key[2] = i /\ flat[l].key[2] = j
    BY <1>2, <2>2 DEF InTurn
  <2>4. i = j /\ x < y => flat[k].key[3] <= flat[l].key[3]
    BY <1>2, <2>2 DEF InTurn
  <2> QED
    BY <2>2, <2>3, <2>4
<1> QED
  BY <1>2 DEF InOrder, flat

\* A printed element: its key is where it is, but for running headers.
LEMMA PlaceOfPrinted ==
  ASSUME DocumentsAssumption, NEW d \in Printed, NEW p \in DOMAIN d, NEW i \in DOMAIN d[p]
  PROVE  /\ d[p][i] \in Element
         /\ p \in Nat \ {0} /\ i \in Nat \ {0}
         /\ d[p][i].key \in LineKey /\ d[p][i].key[3] = 0
         /\ d[p][i].key = <<p, i, 0>> \/ (d[p][i].kind = "prose" /\ d[p][i].key[1] = 0)
<1> DEFINE S == Seq(Element)
<1>1. d \in Seq(S)
  BY PrintedIs
<1>2. d[p] \in S /\ p \in Nat \ {0}
  <2> HIDE DEF S
  <2> QED
    BY <1>1, PlacesArePositive
<1> DEFINE s == d[p]
           T == Element
<1>3. s[i] \in T /\ i \in Nat \ {0}
  <2>1. s \in Seq(T) /\ i \in DOMAIN s
    BY <1>2
  <2> HIDE DEF T, s
  <2> QED
    BY <2>1, PlacesArePositive
<1>4. s[i].key = <<p, i, 0>> \/ (s[i].kind = "prose" /\ s[i].key[1] = 0)
  BY DEF DocumentsAssumption
<1>5. s[i].key \in Nat \X Nat \X {0}
  BY <1>3 DEF Element
<1> HIDE DEF s
<1>6. s[i].key \in LineKey /\ s[i].key[3] = 0
  BY SMTT(20), <1>5 DEF LineKey
<1> QED
  BY <1>2, <1>3, <1>4, <1>6 DEF s

\* Rows of a document are on one line each, page by page and altogether.
LEMMA PrintedOnce ==
  ASSUME DocumentsAssumption, NEW d \in Printed
  PROVE  /\ \A p \in DOMAIN d : RowsOnce(d[p])
         /\ RowsOnce(FlattenSeq(d))
<1>0. \A q \in DOMAIN d : \A j \in DOMAIN d[q] :
        d[q][j].key = <<q, j, 0>> \/ (d[q][j].kind = "prose" /\ d[q][j].key[1] = 0)
  BY Zenon, PlaceOfPrinted
<1>1. ASSUME NEW p \in DOMAIN d, NEW q \in DOMAIN d, NEW i \in DOMAIN d[p], NEW j \in DOMAIN d[q],
             d[p][i].kind = "row", d[q][j].key = d[p][i].key
      PROVE  p = q /\ i = j
  <2>1. d[p][i].key = <<p, i, 0>> /\ p # 0
    BY <1>1, PlaceOfPrinted
  <2>2. d[q][j].key = <<q, j, 0>> \/ (d[q][j].kind = "prose" /\ d[q][j].key[1] = 0)
    BY <1>0
  <2> QED
    BY <1>1, <2>1, <2>2
<1>2. d \in Seq(Seq(Element))
  BY PrintedIs
<1>3. RowsApart(d)
  BY <1>1 DEF RowsApart
<1> QED
  BY <1>1, <1>2, <1>3, FlatRowsOnce DEF RowsOnce

\* What the layout parse makes of an element.
ExportedAs(e) ==
  IF e.kind = "unmarked" THEN <<>>
  ELSE IF e.kind \in Figures THEN <<Line("image", Inside(e, 3))>> ELSE <<e>>

\* What the layout parse makes of an element.
LEMMA ExportedAsIs ==
  ASSUME NEW e \in Element
  PROVE  /\ ExportedAs(e) \in Seq(AnyLine)
         /\ e.kind # "unmarked" => Len(ExportedAs(e)) = 1
         /\ \A x \in DOMAIN ExportedAs(e) : /\ x = 1
                                            /\ e.kind \notin Figures => ExportedAs(e)[x] = e
                                            /\ e.kind \in Figures => ExportedAs(e)[x] = Line("image", Inside(e, 3))
         /\ e.kind \notin Figures => 1 \in DOMAIN ExportedAs(e)
<1> DEFINE image == Line("image", Inside(e, 3))
           a == ExportedAs(e)
<1>1. a = IF e.kind = "unmarked" THEN <<>> ELSE IF e.kind \in Figures THEN <<image>> ELSE <<e>>
  BY DEF ExportedAs
<1>2. e \in AnyLine
  BY DEF Element, AnyLine
<1>3. image \in AnyLine
  BY InsideIs DEF Line, AnyLine, LineKey
<1>4. e.kind = "unmarked" => e.kind \in Figures
  BY DEF Figures
<1> HIDE DEF image, a
<1>5. a \in Seq(AnyLine)
  BY <1>1, <1>2, <1>3
<1>6. CASE e.kind = "unmarked"
  BY <1>1, <1>4, <1>5, <1>6 DEF a, image
<1>7. CASE e.kind # "unmarked" /\ e.kind \in Figures
  <2>1. a = <<image>>
    BY <1>1, <1>7
  <2>2. Len(a) = 1 /\ DOMAIN a = {1} /\ a[1] = image
    BY <2>1
  <2> QED
    BY <1>5, <1>7, <2>2 DEF a, image
<1>8. CASE e.kind \notin Figures
  <2>1. a = <<e>>
    BY <1>1, <1>4, <1>8
  <2>2. Len(a) = 1 /\ DOMAIN a = {1} /\ a[1] = e
    BY <2>1
  <2> QED
    BY <1>5, <1>8, <2>2 DEF a, image
<1> QED
  BY <1>6, <1>7, <1>8

\* The layout parse of a page, element by element.
LEMMA ExportedTable ==
  ASSUME NEW elements \in Seq(Element)
  PROVE  LET m == [i \in DOMAIN elements |-> ExportedAs(elements[i])]
         IN  /\ Exported(elements) = FlattenSeq(m)
             /\ m \in Seq(Seq(AnyLine)) /\ DOMAIN m = DOMAIN elements
<1> DEFINE m == [i \in DOMAIN elements |-> ExportedAs(elements[i])]
           n == Len(elements)
<1>1. Exported(elements) = FlattenSeq(m)
  BY DEF Exported, Each, ExportedAs
<1>2. n \in Nat /\ DOMAIN elements = 1 .. n /\ \A i \in DOMAIN elements : elements[i] \in Element
  OBVIOUS
<1> HIDE DEF n
<1>3. m \in [1 .. n -> Seq(AnyLine)]
  BY <1>2, ExportedAsIs
<1>4. m \in Seq(Seq(AnyLine)) /\ DOMAIN m = DOMAIN elements
  BY <1>2, <1>3, TableIsSeq
<1> QED
  BY <1>1, <1>4

\* Every line of the layout parse is an element or the marker of a figure, every element
\* but the figures has its line, rows stay on one line each, and a marker stands where its
\* figure does if all have one.
LEMMA ExportedPlaces ==
  ASSUME NEW elements \in Seq(Element)
  PROVE  LET lines == Exported(elements)
         IN  /\ \A l \in Elements(lines) : \E e \in Elements(elements) :
                  IF e.kind \in Figures THEN l = Line("image", Inside(e, 3)) ELSE l = e
             /\ \A e \in Elements(elements) : e.kind \notin Figures => e \in Elements(lines)
             /\ RowsOnce(elements) => RowsOnce(lines)
             /\ (\A i \in DOMAIN elements : elements[i].kind # "unmarked") =>
                  /\ DOMAIN lines = DOMAIN elements
                  /\ \A i \in DOMAIN elements :
                       lines[i] = IF elements[i].kind \in Figures THEN Line("image", Inside(elements[i], 3))
                                  ELSE elements[i]
<1> DEFINE m == [i \in DOMAIN elements |-> ExportedAs(elements[i])]
           lines == Exported(elements)
<1>1. lines = FlattenSeq(m) /\ m \in Seq(Seq(AnyLine)) /\ DOMAIN m = DOMAIN elements
  BY ExportedTable
<1>2. \A i \in DOMAIN elements : m[i] = ExportedAs(elements[i])
  OBVIOUS
<1> HIDE DEF m, lines
<1>3. \A i \in DOMAIN elements : elements[i] \in Element /\ elements[i] \in Elements(elements)
  BY DEF Elements
<1>4. ASSUME NEW i \in DOMAIN elements, NEW x \in DOMAIN m[i]
      PROVE  x = 1 /\ m[i][x] = IF elements[i].kind \in Figures THEN Line("image", Inside(elements[i], 3))
                                ELSE elements[i]
  BY <1>2, <1>3, ExportedAsIs
<1>5. Elements(lines) = AllOf(m)
  BY <1>1, ElementsOfFlat
<1>6. ASSUME NEW l \in Elements(lines)
      PROVE  \E e \in Elements(elements) : IF e.kind \in Figures THEN l = Line("image", Inside(e, 3)) ELSE l = e
  <2>1. PICK i \in DOMAIN m : l \in Elements(m[i])
    BY <1>5, Zenon DEF AllOf
  <2>2. PICK x \in DOMAIN m[i] : l = m[i][x]
    BY <2>1 DEF Elements
  <2> QED
    BY <1>1, <1>3, <1>4, <2>1, <2>2
<1>7. ASSUME NEW e \in Elements(elements), e.kind \notin Figures PROVE e \in Elements(lines)
  <2>1. PICK i \in DOMAIN elements : e = elements[i]
    BY DEF Elements
  <2>2. 1 \in DOMAIN m[i]
    BY <1>2, <1>3, <1>7, <2>1, ExportedAsIs
  <2>3. m[i][1] = e
    BY <1>4, <1>7, <2>1, <2>2
  <2>4. e \in Elements(m[i])
    BY <2>2, <2>3 DEF Elements
  <2> QED
    BY <1>1, <1>5, <2>4 DEF AllOf
<1>8. ASSUME RowsOnce(elements) PROVE RowsOnce(lines)
  <2>1. ASSUME NEW i \in DOMAIN m, NEW j \in DOMAIN m, NEW x \in DOMAIN m[i], NEW y \in DOMAIN m[j],
               m[i][x].kind = "row", m[j][y].key = m[i][x].key
        PROVE  i = j /\ x = y
    <3> DEFINE d == elements[i]
               e == elements[j]
    <3>1. i \in DOMAIN elements /\ j \in DOMAIN elements /\ x = 1 /\ y = 1
      BY <1>1, <1>4
    <3>2. /\ m[i][x] = IF d.kind \in Figures THEN Line("image", Inside(d, 3)) ELSE d
          /\ m[j][y] = IF e.kind \in Figures THEN Line("image", Inside(e, 3)) ELSE e
      BY <1>1, <1>4
    <3>3. d \in Element /\ e \in Element
      BY <1>3, <3>1
    <3>4. d.key[3] = 0 /\ Inside(e, 3)[3] = 3
      <4>1. d.key \in Nat \X Nat \X {0}
        BY <3>3 DEF Element
      <4>2. Inside(e, 3) = <<e.key[1], e.key[2], 3>>
        BY <3>3, InsideIs
      <4> HIDE DEF d, e
      <4> QED
        BY <4>1, <4>2
    <3> HIDE DEF d, e
    <3>5. m[i][x] = d
      <4>1. Line("image", Inside(d, 3)).kind = "image"
        BY DEF Line
      <4> QED
        BY <2>1, <3>2, <4>1
    <3>6. m[j][y] = e
      <4>1. Line("image", Inside(e, 3)).key = Inside(e, 3)
        BY DEF Line
      <4>2. m[j][y].key[3] = 0
        BY <2>1, <3>4, <3>5
      <4> QED
        BY <3>2, <3>4, <4>1, <4>2
    <3>7. i = j
      BY <1>8, <2>1, <3>1, <3>5, <3>6 DEF RowsOnce, d, e
    <3> QED
      BY <3>1, <3>7
  <2>2. RowsApart(m)
    BY <2>1 DEF RowsApart
  <2> QED
    BY <1>1, <2>2, FlatRowsOnce
<1>9. ASSUME \A i \in DOMAIN elements : elements[i].kind # "unmarked"
      PROVE  /\ DOMAIN lines = DOMAIN elements
             /\ \A i \in DOMAIN elements :
                  lines[i] = IF elements[i].kind \in Figures THEN Line("image", Inside(elements[i], 3))
                             ELSE elements[i]
  <2>1. \A i \in DOMAIN m : Len(m[i]) = 1
    BY <1>1, <1>2, <1>3, <1>9, ExportedAsIs
  <2>2. DOMAIN lines = DOMAIN m /\ \A i \in DOMAIN m : lines[i] = m[i][1]
    BY <1>1, <2>1, FlatSingles
  <2>3. \A i \in DOMAIN m : 1 \in DOMAIN m[i]
    <3> DEFINE S == Seq(AnyLine)
    <3>1. \A i \in DOMAIN m : m[i] \in S
      <4>1. m \in Seq(S)
        BY <1>1
      <4> HIDE DEF S
      <4> QED
        BY <4>1
    <3> QED
      BY <2>1, <3>1
  <2> QED
    BY <1>1, <1>4, <2>2, <2>3
<1> QED
  BY <1>6, <1>7, <1>8, <1>9 DEF lines

\* A text after and before one more line.
LEMMA SpacedOut ==
  ASSUME NEW T, NEW b \in T, NEW text \in Seq(T)
  PROVE  /\ <<b>> \o text \in Seq(T)
         /\ \A x \in DOMAIN (<<b>> \o text) :
              \/ (<<b>> \o text)[x] = b
              \/ x - 1 \in DOMAIN text /\ (<<b>> \o text)[x] = text[x - 1]
         /\ <<b>> \o text \o <<b>> \in Seq(T)
         /\ \A x \in DOMAIN (<<b>> \o text \o <<b>>) :
              \/ (<<b>> \o text \o <<b>>)[x] = b
              \/ x - 1 \in DOMAIN text /\ (<<b>> \o text \o <<b>>)[x] = text[x - 1]
<1> DEFINE one == <<b>>
           s == one \o text
           t == s \o one
<1>1. one \in Seq(T) /\ Len(one) = 1 /\ DOMAIN one = {1} /\ one[1] = b
  OBVIOUS
<1> HIDE DEF one
<1>2. /\ s \in Seq(T) /\ Len(s) = Len(text) + 1 /\ DOMAIN s = 1 .. Len(text) + 1
      /\ \A x \in DOMAIN s : s[x] = IF x <= 1 THEN one[x] ELSE text[x - 1]
  <2>1. /\ s \in Seq(T) /\ Len(s) = Len(one) + Len(text)
        /\ \A x \in 1 .. Len(one) + Len(text) : s[x] = IF x <= Len(one) THEN one[x] ELSE text[x - Len(one)]
    BY <1>1, ConcatProperties
  <2>2. Len(text) \in Nat
    OBVIOUS
  <2> HIDE DEF s
  <2>3. Len(one) + Len(text) = Len(text) + 1 /\ DOMAIN s = 1 .. Len(s)
    BY <1>1, <2>1, <2>2
  <2> QED
    BY <1>1, <2>1, <2>3
<1>3. Len(text) \in Nat /\ DOMAIN text = 1 .. Len(text)
  OBVIOUS
<1>4. ASSUME NEW x \in DOMAIN s PROVE s[x] = b \/ (x - 1 \in DOMAIN text /\ s[x] = text[x - 1])
  <2>1. CASE x <= 1
    <3>1. x = 1
      BY <1>2, <1>3, <2>1
    <3> QED
      BY <1>1, <1>2, <3>1
  <2>2. CASE ~(x <= 1)
    <3>1. x - 1 \in 1 .. Len(text)
      BY <1>2, <1>3, <2>2
    <3> QED
      BY <1>2, <1>3, <2>2, <3>1
  <2> QED
    BY <2>1, <2>2
<1> HIDE DEF s
<1>5. /\ t \in Seq(T) /\ Len(t) = Len(s) + 1 /\ DOMAIN t = 1 .. Len(s) + 1
      /\ \A x \in DOMAIN t : t[x] = IF x <= Len(s) THEN s[x] ELSE one[x - Len(s)]
  <2>1. /\ t \in Seq(T) /\ Len(t) = Len(s) + Len(one)
        /\ \A x \in 1 .. Len(s) + Len(one) : t[x] = IF x <= Len(s) THEN s[x] ELSE one[x - Len(s)]
    BY ZenonT(40), <1>1, <1>2, ConcatProperties
  <2> HIDE DEF t
  <2>2. DOMAIN t = 1 .. Len(t)
    BY <2>1
  <2> QED
    BY <1>1, <2>1, <2>2
<1>6. ASSUME NEW x \in DOMAIN t PROVE t[x] = b \/ (x - 1 \in DOMAIN text /\ t[x] = text[x - 1])
  <2>1. CASE x <= Len(s)
    <3>1. x \in DOMAIN s
      BY <1>2, <1>3, <1>5, <2>1
    <3> QED
      BY <1>4, <1>5, <2>1, <3>1
  <2>2. CASE ~(x <= Len(s))
    <3>1. x - Len(s) = 1
      BY <1>2, <1>3, <1>5, <2>2
    <3> QED
      BY <1>1, <1>5, <2>2, <3>1
  <2> QED
    BY <2>1, <2>2
<1> QED
  BY <1>2, <1>4, <1>5, <1>6 DEF s, one

\* A page with as many texts as markers, piece by piece.
Replaced(m, lines, texts) ==
  LET markers == OfKind(lines, {"image"})
  IN  /\ m \in Seq(Seq(AnyLine)) /\ DOMAIN m = DOMAIN lines
      /\ \A i \in DOMAIN m \ markers : /\ 1 \in DOMAIN m[i]
                                       /\ \A x \in DOMAIN m[i] : x = 1 /\ m[i][x] = lines[i]
      /\ \A i \in markers :
           /\ Rank(markers, i) \in DOMAIN texts
           /\ \A x \in DOMAIN m[i] :
                \/ m[i][x] = Blank
                \/ /\ x - 1 \in DOMAIN texts[Rank(markers, i)]
                   /\ m[i][x] = texts[Rank(markers, i)][x - 1]

\* The lines of a kind are places of the text.
LEMMA MarkersAre ==
  ASSUME NEW T, NEW lines \in Seq(T), NEW kinds
  PROVE  /\ OfKind(lines, kinds) \in SUBSET DOMAIN lines /\ OfKind(lines, kinds) \in SUBSET Nat
         /\ IsFiniteSet(OfKind(lines, kinds))
<1>1. OfKind(lines, kinds) \subseteq DOMAIN lines
  BY DEF OfKind
<1>2. DOMAIN lines = 1 .. Len(lines) /\ Len(lines) \in Nat
  OBVIOUS
<1>3. IsFiniteSet(1 .. Len(lines))
  BY <1>2, CardinalityOfInterval
<1> QED
  BY <1>1, <1>2, <1>3, FS_Subset

\* With as many texts as markers each text replaces a marker.
LEMMA InjectInPlace ==
  ASSUME NEW lines \in Seq(AnyLine), NEW texts \in Seq(Seq(AnyLine)),
         Cardinality(OfKind(lines, {"image"})) = Len(texts)
  PROVE  \E m : Replaced(m, lines, texts) /\ Inject(lines, texts) = FlattenSeq(m)
<1> DEFINE T == AnyLine
           markers == OfKind(lines, {"image"})
           Spaced(text) == IF text = <<>> THEN <<Blank>> ELSE <<Blank>> \o text \o <<Blank>>
           m == [i \in DOMAIN lines |-> IF i \in markers THEN Spaced(texts[Rank(markers, i)]) ELSE <<lines[i]>>]
<1>1. Inject(lines, texts) = FlattenSeq(m)
  BY DEF Inject
<1>2. DOMAIN lines = 1 .. Len(lines) /\ Len(lines) \in Nat /\ DOMAIN texts = 1 .. Len(texts) /\ Len(texts) \in Nat
  OBVIOUS
<1>3. Blank \in T /\ \A i \in DOMAIN lines : lines[i] \in T
  <2>1. Blank \in T
    BY DEF Blank, Line, AnyLine, ElementKinds
  <2>2. lines \in Seq(T)
    OBVIOUS
  <2> HIDE DEF T
  <2> QED
    BY <2>1, <2>2
<1>4. markers \in SUBSET DOMAIN lines /\ markers \in SUBSET Nat /\ IsFiniteSet(markers)
  BY MarkersAre
<1>5. ASSUME NEW i \in DOMAIN texts PROVE texts[i] \in Seq(T)
  OBVIOUS
<1>6. Cardinality(markers) = Len(texts)
  OBVIOUS
<1> HIDE DEF T, markers, Blank
<1>7. ASSUME NEW text \in Seq(T)
      PROVE  /\ Spaced(text) \in Seq(T)
             /\ \A x \in DOMAIN Spaced(text) :
                  Spaced(text)[x] = Blank \/ (x - 1 \in DOMAIN text /\ Spaced(text)[x] = text[x - 1])
  <2> DEFINE b == Blank
             s == <<b>> \o text \o <<b>>
             one == <<b>>
  <2>1. s \in Seq(T) /\ \A x \in DOMAIN s : s[x] = b \/ (x - 1 \in DOMAIN text /\ s[x] = text[x - 1])
    BY <1>3, SpacedOut
  <2>2. one \in Seq(T) /\ \A x \in DOMAIN one : one[x] = b
    <3>1. b \in T
      BY <1>3
    <3> HIDE DEF b
    <3> QED
      BY <3>1
  <2>3. Spaced(text) = IF text = <<>> THEN one ELSE s
    OBVIOUS
  <2> HIDE DEF b, s, one, Spaced
  <2> QED
    BY <2>1, <2>2, <2>3 DEF b
<1> HIDE DEF Spaced
<1>8. ASSUME NEW i \in DOMAIN lines
      PROVE  /\ m[i] \in Seq(T)
             /\ i \notin markers => 1 \in DOMAIN m[i] /\ \A x \in DOMAIN m[i] : x = 1 /\ m[i][x] = lines[i]
             /\ i \in markers =>
                  /\ Rank(markers, i) \in DOMAIN texts
                  /\ \A x \in DOMAIN m[i] :
                       \/ m[i][x] = Blank
                       \/ /\ x - 1 \in DOMAIN texts[Rank(markers, i)]
                          /\ m[i][x] = texts[Rank(markers, i)][x - 1]
  <2>1. CASE i \in markers
    <3> DEFINE r == Rank(markers, i)
    <3>1. r \in DOMAIN texts
      BY <1>2, <1>4, <1>6, <2>1, RankOf
    <3>2. m[i] = Spaced(texts[r])
      BY <2>1
    <3> HIDE DEF m, r
    <3>3. texts[r] \in Seq(T)
      BY <1>5, <3>1
    <3>4. /\ m[i] \in Seq(T)
          /\ \A x \in DOMAIN m[i] : m[i][x] = Blank \/ (x - 1 \in DOMAIN texts[r] /\ m[i][x] = texts[r][x - 1])
      BY <1>7, <3>2, <3>3
    <3> QED
      BY <2>1, <3>1, <3>4 DEF r
  <2>2. CASE i \notin markers
    <3>1. m[i] = <<lines[i]>>
      BY <2>2
    <3> HIDE DEF m
    <3>2. m[i] \in Seq(T) /\ 1 \in DOMAIN m[i] /\ \A x \in DOMAIN m[i] : x = 1 /\ m[i][x] = lines[i]
      BY <1>3, <3>1
    <3> QED
      BY <2>2, <3>2
  <2> QED
    BY <2>1, <2>2
<1>9. m \in Seq(Seq(T)) /\ DOMAIN m = DOMAIN lines
  <2>1. DOMAIN m = 1 .. Len(lines) /\ m = [i \in 1 .. Len(lines) |-> m[i]]
    BY <1>2
  <2> HIDE DEF m
  <2>2. m \in [1 .. Len(lines) -> Seq(T)]
    BY <1>2, <1>8, <2>1
  <2> QED
    BY <1>2, <2>1, <2>2
<1> HIDE DEF m
<1>10. \A i \in markers : i \in DOMAIN lines
  BY <1>4
<1>11. Replaced(m, lines, texts)
  BY <1>8, <1>9, <1>10 DEF Replaced, T, markers
<1> QED
  BY <1>1, <1>11 DEF m

\* Texts of figures: their keys are of the inside of pictures, their rows on one line each.
InsideTexts(texts) ==
  /\ texts \in Seq(Seq(Words))
  /\ RowsApart(texts)
  /\ \A l \in AllOf(texts) : l.key[3] \in {1, 2}

\* Replacing markers by texts puts no row on two lines.
LEMMA InPlaceOnce ==
  ASSUME NEW lines \in Seq(AnyLine), NEW texts, InsideTexts(texts), RowsOnce(lines),
         \A i \in DOMAIN lines : lines[i].key[3] \in {0, 3} /\ (lines[i].kind = "row" => lines[i].key[3] = 0),
         NEW m, Replaced(m, lines, texts)
  PROVE  RowsOnce(FlattenSeq(m))
<1> DEFINE markers == OfKind(lines, {"image"})
<1>1. m \in Seq(Seq(AnyLine)) /\ DOMAIN m = DOMAIN lines
  BY DEF Replaced
<1>2. markers \in SUBSET DOMAIN lines /\ markers \in SUBSET Nat /\ IsFiniteSet(markers)
  BY MarkersAre
<1>3. /\ \A i \in DOMAIN m \ markers : \A x \in DOMAIN m[i] : x = 1 /\ m[i][x] = lines[i]
      /\ \A i \in markers :
           /\ Rank(markers, i) \in DOMAIN texts
           /\ \A x \in DOMAIN m[i] :
                \/ m[i][x] = Blank
                \/ /\ x - 1 \in DOMAIN texts[Rank(markers, i)]
                   /\ m[i][x] = texts[Rank(markers, i)][x - 1]
  BY DEF Replaced
<1>4. Blank.kind = "blank" /\ Blank.key = <<0, 0, 9>> /\ Blank.key[3] = 9
  BY DEF Blank, Line
<1> HIDE DEF markers
<1>5. ASSUME NEW i \in DOMAIN m, NEW x \in DOMAIN m[i]
      PROVE  \/ i \notin markers /\ x = 1 /\ m[i][x] = lines[i] /\ m[i][x].key[3] \in {0, 3}
                /\ (m[i][x].kind = "row" => m[i][x].key[3] = 0)
             \/ i \in markers /\ m[i][x].kind = "blank" /\ m[i][x].key[3] = 9
             \/ /\ i \in markers
                /\ Rank(markers, i) \in DOMAIN texts
                /\ x - 1 \in DOMAIN texts[Rank(markers, i)]
                /\ m[i][x] = texts[Rank(markers, i)][x - 1] /\ m[i][x].key[3] \in {1, 2}
  <2>1. CASE i \notin markers
    BY <1>1, <1>3, <2>1
  <2>2. CASE i \in markers /\ m[i][x] = Blank
    BY <1>4, <2>2
  <2>3. CASE i \in markers /\ m[i][x] # Blank
    <3> DEFINE r == Rank(markers, i)
    <3>1. r \in DOMAIN texts /\ x - 1 \in DOMAIN texts[r] /\ m[i][x] = texts[r][x - 1]
      BY <1>3, <2>3
    <3> HIDE DEF r
    <3>2. texts[r][x - 1] \in AllOf(texts)
      BY <3>1, OfAll
    <3>3. texts[r][x - 1].key[3] \in {1, 2}
      BY <3>2 DEF InsideTexts
    <3> QED
      BY <2>3, <3>1, <3>3 DEF r
  <2> QED
    BY <2>1, <2>2, <2>3
<1>6. ASSUME NEW i \in DOMAIN m, NEW j \in DOMAIN m, NEW x \in DOMAIN m[i], NEW y \in DOMAIN m[j],
             m[i][x].kind = "row", m[j][y].key = m[i][x].key
      PROVE  i = j /\ x = y
  <2> DEFINE u == m[i][x]
             v == m[j][y]
             r == Rank(markers, i)
             q == Rank(markers, j)
  <2>1. u.key[3] = v.key[3] /\ u.kind = "row"
    BY <1>6
  <2>2. \/ i \notin markers /\ x = 1 /\ u = lines[i] /\ u.key[3] \in {0, 3} /\ (u.kind = "row" => u.key[3] = 0)
        \/ i \in markers /\ u.kind = "blank" /\ u.key[3] = 9
        \/ i \in markers /\ r \in DOMAIN texts /\ x - 1 \in DOMAIN texts[r] /\ u = texts[r][x - 1] /\ u.key[3] \in {1, 2}
    BY <1>5
  <2>3. \/ j \notin markers /\ y = 1 /\ v = lines[j] /\ v.key[3] \in {0, 3} /\ (v.kind = "row" => v.key[3] = 0)
        \/ j \in markers /\ v.kind = "blank" /\ v.key[3] = 9
        \/ j \in markers /\ q \in DOMAIN texts /\ y - 1 \in DOMAIN texts[q] /\ v = texts[q][y - 1] /\ v.key[3] \in {1, 2}
    BY <1>5
  <2>4. u.key = v.key
    BY <1>6
  <2> HIDE DEF u, v, r, q
  <2>5. CASE i \notin markers /\ x = 1 /\ u = lines[i] /\ u.key[3] = 0
    <3>1. j \notin markers /\ y = 1 /\ v = lines[j]
      BY <2>1, <2>3, <2>5
    <3> QED
      BY <1>1, <2>1, <2>4, <2>5, <3>1 DEF RowsOnce
  <2>6. CASE i \in markers /\ r \in DOMAIN texts /\ x - 1 \in DOMAIN texts[r] /\ u = texts[r][x - 1] /\ u.key[3] \in {1, 2}
    <3>1. j \in markers /\ q \in DOMAIN texts /\ y - 1 \in DOMAIN texts[q] /\ v = texts[q][y - 1]
      BY <2>1, <2>3, <2>6
    <3>2. r = q /\ x - 1 = y - 1
      BY <2>1, <2>4, <2>6, <3>1 DEF InsideTexts, RowsApart
    <3>3. x \in Nat /\ y \in Nat
      <4> DEFINE S == Seq(AnyLine)
      <4>1. m \in Seq(S)
        BY <1>1
      <4>2. m[i] \in S /\ m[j] \in S
        <5> HIDE DEF S
        <5> QED
          BY <4>1
      <4> QED
        BY <4>2
    <3>4. x = y
      BY <3>2, <3>3
    <3>5. ~(i < j) /\ ~(j < i)
      <4>1. i < j => r < q
        BY <1>2, <2>6, <3>1, RankGrows DEF r, q
      <4>2. j < i => q < r
        BY <1>2, <2>6, <3>1, RankGrows DEF r, q
      <4>3. r \in Nat /\ q \in Nat
        BY <2>6, <3>1 DEF InsideTexts
      <4> QED
        BY <3>2, <4>1, <4>2, <4>3
    <3>6. i \in Nat /\ j \in Nat
      BY <1>2, <2>6, <3>1
    <3> QED
      BY <3>4, <3>5, <3>6
  <2> QED
    BY <2>1, <2>2, <2>5, <2>6
<1>7. RowsApart(m)
  BY <1>6 DEF RowsApart
<1> QED
  BY <1>1, <1>7, FlatRowsOnce

\* The pieces of a page are in the order of the page.
LEMMA InPlaceInOrder ==
  ASSUME NEW lines \in Seq(AnyLine), NEW texts \in Seq(Seq(Words)), NEW m, Replaced(m, lines, texts),
         \A i \in DOMAIN lines : lines[i].kind # "image" /\ lines[i].key[1] # 0 => lines[i].key[2] = i,
         \A i \in OfKind(lines, {"image"}) :
           LET text == texts[Rank(OfKind(lines, {"image"}), i)]
           IN  \A x \in DOMAIN text : /\ text[x].key[2] = i
                                      /\ \A y \in DOMAIN text : x < y => text[x].key[3] <= text[y].key[3]
  PROVE  InOrder(FlattenSeq(m))
<1> DEFINE markers == OfKind(lines, {"image"})
           text(i) == texts[Rank(markers, i)]
<1>1. m \in Seq(Seq(AnyLine)) /\ DOMAIN m = DOMAIN lines
  BY DEF Replaced
<1>2. /\ \A i \in DOMAIN m \ markers : \A x \in DOMAIN m[i] : x = 1 /\ m[i][x] = lines[i]
      /\ \A i \in markers : \A x \in DOMAIN m[i] :
           m[i][x] = Blank \/ (x - 1 \in DOMAIN text(i) /\ m[i][x] = text(i)[x - 1])
  BY DEF Replaced
<1>3. Blank.key[1] = 0
  BY DEF Blank, Line
<1>4. \A i \in DOMAIN lines : i \in markers \/ lines[i].kind # "image"
  BY DEF OfKind
<1>5. \A i \in markers : \A x \in DOMAIN text(i) :
        text(i)[x].key[2] = i /\ \A y \in DOMAIN text(i) : x < y => text(i)[x].key[3] <= text(i)[y].key[3]
  OBVIOUS
<1>6. \A i \in DOMAIN lines : lines[i].kind # "image" /\ lines[i].key[1] # 0 => lines[i].key[2] = i
  OBVIOUS
<1>7. ASSUME NEW i \in DOMAIN m, NEW x \in DOMAIN m[i] PROVE x \in Nat
  <2> DEFINE S == Seq(AnyLine)
  <2>1. m \in Seq(S)
    BY <1>1
  <2>2. m[i] \in S
    <3> HIDE DEF S
    <3> QED
      BY <2>1
  <2> QED
    BY <2>2
<1> HIDE DEF markers, text
<1>8. ASSUME NEW i \in DOMAIN m, NEW x \in DOMAIN m[i], m[i][x].key[1] # 0
      PROVE  /\ m[i][x].key[2] = i
             /\ \A y \in DOMAIN m[i] : x < y /\ m[i][y].key[1] # 0 => m[i][x].key[3] <= m[i][y].key[3]
  <2>1. CASE i \notin markers
    <3>1. m[i][x].key[2] = i
      BY <1>1, <1>2, <1>4, <1>6, <1>8, <2>1
    <3>2. \A y \in DOMAIN m[i] : y = 1 /\ x = 1
      BY <1>2, <2>1
    <3>3. \A y \in DOMAIN m[i] : ~(x < y)
      BY <3>2
    <3> QED
      BY <3>1, <3>3
  <2>2. CASE i \in markers
    <3>1. x - 1 \in DOMAIN text(i) /\ m[i][x] = text(i)[x - 1]
      BY <1>2, <1>3, <1>8, <2>2
    <3>2. m[i][x].key[2] = i
      BY <1>5, <2>2, <3>1
    <3>3. ASSUME NEW y \in DOMAIN m[i], x < y, m[i][y].key[1] # 0 PROVE m[i][x].key[3] <= m[i][y].key[3]
      <4>1. y - 1 \in DOMAIN text(i) /\ m[i][y] = text(i)[y - 1]
        BY <1>2, <1>3, <2>2, <3>3
      <4>2. x - 1 < y - 1
        BY <1>7, <3>3
      <4> QED
        BY <1>5, <2>2, <3>1, <4>1, <4>2
    <3> QED
      BY <3>2, <3>3
  <2> QED
    BY <2>1, <2>2
<1>9. InTurn(m)
  BY <1>8 DEF InTurn
<1> QED
  BY <1>1, <1>9, FlatInOrder

\* Leaving lines out puts no row on two lines.
LEMMA PickedOnce ==
  ASSUME NEW T, NEW s \in Seq(T), NEW V \in SUBSET DOMAIN s, RowsOnce(s)
  PROVE  RowsOnce(Picked(s, V))
<1> DEFINE t == Picked(s, V)
<1>1. /\ IsFiniteSet(V) /\ V \in SUBSET Nat /\ Cardinality(V) \in Nat
      /\ DOMAIN t = 1 .. Cardinality(V)
      /\ \A i \in 1 .. Cardinality(V) : Ith(V, i) \in V /\ t[i] = s[Ith(V, i)]
  BY PickedIsSeq
<1> HIDE DEF t
<1>2. \A i \in 1 .. Cardinality(V) : Rank(V, Ith(V, i)) = i
  BY <1>1, IthOf
<1>3. ASSUME NEW i \in DOMAIN t, NEW j \in DOMAIN t, t[i].kind = "row", t[j].key = t[i].key PROVE i = j
  <2>1. Ith(V, i) = Ith(V, j)
    BY <1>1, <1>3 DEF RowsOnce
  <2> QED
    BY <1>1, <1>2, <2>1
<1> QED
  BY <1>3 DEF RowsOnce, t

\* Nor does one text after another that shares no row with it.
LEMMA ConcatOnce ==
  ASSUME NEW T, NEW s \in Seq(T), NEW t \in Seq(T), RowsOnce(s), RowsOnce(t),
         \A k \in Elements(s), l \in Elements(t) : k.key = l.key => k.kind # "row" /\ l.kind # "row"
  PROVE  RowsOnce(s \o t)
<1> DEFINE c == s \o t
<1>1. /\ c \in Seq(T) /\ Len(c) = Len(s) + Len(t)
      /\ \A i \in 1 .. Len(s) + Len(t) : c[i] = IF i <= Len(s) THEN s[i] ELSE t[i - Len(s)]
  BY ConcatProperties
<1>2. /\ Len(s) \in Nat /\ Len(t) \in Nat /\ DOMAIN s = 1 .. Len(s) /\ DOMAIN t = 1 .. Len(t)
  OBVIOUS
<1> HIDE DEF c
<1>3. DOMAIN c = 1 .. Len(s) + Len(t)
  BY <1>1
<1>4. ASSUME NEW i \in DOMAIN c
      PROVE  \/ i \in DOMAIN s /\ c[i] = s[i] /\ c[i] \in Elements(s)
             \/ i \notin DOMAIN s /\ i - Len(s) \in DOMAIN t /\ c[i] = t[i - Len(s)] /\ c[i] \in Elements(t)
  <2>1. CASE i <= Len(s)
    <3>1. i \in DOMAIN s /\ c[i] = s[i]
      BY <1>1, <1>2, <1>3, <2>1
    <3> QED
      BY <3>1 DEF Elements
  <2>2. CASE ~(i <= Len(s))
    <3> DEFINE j == i - Len(s)
    <3>1. i \notin DOMAIN s /\ j \in DOMAIN t /\ c[i] = t[j]
      BY <1>1, <1>2, <1>3, <2>2
    <3> HIDE DEF j
    <3>2. c[i] \in Elements(t)
      BY <3>1 DEF Elements
    <3> QED
      BY <3>1, <3>2 DEF j
  <2> QED
    BY <2>1, <2>2
<1>5. ASSUME NEW i \in DOMAIN c, NEW j \in DOMAIN c, c[i].kind = "row", c[j].key = c[i].key PROVE i = j
  <2>1. CASE i \in DOMAIN s
    <3>1. j \in DOMAIN s
      BY <1>4, <1>5, <2>1
    <3> QED
      BY <1>4, <1>5, <2>1, <3>1 DEF RowsOnce
  <2>2. CASE i \notin DOMAIN s
    <3>1. j \notin DOMAIN s
      BY <1>4, <1>5, <2>2
    <3> DEFINE k == i - Len(s)
               l == j - Len(s)
    <3>2. k \in DOMAIN t /\ l \in DOMAIN t /\ c[i] = t[k] /\ c[j] = t[l]
      BY <1>4, <2>2, <3>1
    <3> HIDE DEF k, l
    <3>3. k = l
      BY <1>5, <3>2 DEF RowsOnce
    <3>4. i \in Nat /\ j \in Nat
      BY <1>2, <1>3
    <3> QED
      BY <1>2, <3>3, <3>4 DEF k, l
  <2> QED
    BY <2>1, <2>2
<1> QED
  BY <1>5 DEF RowsOnce, c

\* The lines of a layout: elements and markers.
LayoutOnly(lines) ==
  \A l \in Elements(lines) : l.key[3] \in {0, 3} /\ (l.kind = "row" => l.key[3] = 0)

\* A page with its texts has each row on one line, and has all its lines but the markers.
LEMMA InjectOnce ==
  ASSUME NEW lines \in Seq(AnyLine), NEW texts, InsideTexts(texts), RowsOnce(lines), LayoutOnly(lines)
  PROVE  /\ RowsOnce(Inject(lines, texts))
         /\ \A l \in Elements(lines) : l.kind # "image" => l \in Elements(Inject(lines, texts))
<1> DEFINE T == AnyLine
           markers == OfKind(lines, {"image"})
           page == Inject(lines, texts)
<1>1. texts \in Seq(Seq(T)) /\ \A l \in AllOf(texts) : l.kind # "blank" /\ l.key[3] \in {1, 2}
  BY TextsAreLines DEF InsideTexts
<1>2. \A i \in DOMAIN lines : lines[i].key[3] \in {0, 3} /\ (lines[i].kind = "row" => lines[i].key[3] = 0)
  BY DEF LayoutOnly, Elements
<1>3. markers \in SUBSET DOMAIN lines
  BY MarkersAre
<1>4. \A i \in DOMAIN lines : i \in markers <=> lines[i].kind = "image"
  BY DEF OfKind
<1>5. CASE Cardinality(markers) = Len(texts)
  <2>1. PICK m : Replaced(m, lines, texts) /\ page = FlattenSeq(m)
    BY <1>1, <1>5, InjectInPlace
  <2> HIDE DEF page
  <2>2. RowsOnce(page)
    BY <1>2, <2>1, InPlaceOnce
  <2>3. ASSUME NEW l \in Elements(lines), l.kind # "image" PROVE l \in Elements(page)
    <3>1. PICK i \in DOMAIN lines : l = lines[i]
      BY DEF Elements
    <3>2. i \notin markers
      BY <1>4, <2>3, <3>1
    <3>3. m \in Seq(Seq(T)) /\ DOMAIN m = DOMAIN lines /\ 1 \in DOMAIN m[i] /\ m[i][1] = lines[i]
      BY <2>1, <3>1, <3>2 DEF Replaced
    <3>4. l \in AllOf(m)
      BY <3>1, <3>3, OfAll
    <3> QED
      BY <2>1, <3>3, <3>4, ElementsOfFlat
  <2> QED
    BY <2>2, <2>3 DEF page
<1>6. CASE Cardinality(markers) # Len(texts)
  <2> DEFINE others == NotOfKind(lines, {"image"})
             rest == Picked(lines, others)
             below == [i \in DOMAIN texts |-> IF texts[i] = <<>> THEN <<>> ELSE <<Blank>> \o texts[i]]
             tail == FlattenSeq(below)
  <2>1. page = rest \o tail
    BY <1>6 DEF Inject
  <2>2. others \in SUBSET DOMAIN lines /\ \A i \in DOMAIN lines : i \in others <=> lines[i].kind # "image"
    BY DEF NotOfKind, OfKind
  <2> HIDE DEF others
  <2>3. rest \in Seq(T) /\ Elements(rest) = {lines[i] : i \in others} /\ RowsOnce(rest)
    BY <2>2, ElementsOfPicked, PickedOnce
  <2>4. Blank \in T /\ Blank.kind = "blank" /\ Blank.key[3] = 9
    BY DEF Blank, Line, AnyLine, ElementKinds
  <2>5. DOMAIN texts = 1 .. Len(texts) /\ Len(texts) \in Nat /\ \A i \in DOMAIN texts : texts[i] \in Seq(T)
    BY <1>1
  <2> HIDE DEF T, Blank
  <2>6. ASSUME NEW i \in DOMAIN texts
        PROVE  /\ below[i] \in Seq(T)
               /\ \A x \in DOMAIN below[i] :
                    below[i][x] = Blank \/ (x - 1 \in DOMAIN texts[i] /\ below[i][x] = texts[i][x - 1])
    <3> DEFINE t == <<Blank>> \o texts[i]
    <3>1. /\ t \in Seq(T)
          /\ \A x \in DOMAIN t : t[x] = Blank \/ (x - 1 \in DOMAIN texts[i] /\ t[x] = texts[i][x - 1])
      BY <2>4, <2>5, SpacedOut
    <3>2. below[i] = IF texts[i] = <<>> THEN <<>> ELSE t
      OBVIOUS
    <3> HIDE DEF t, below
    <3> QED
      BY <3>1, <3>2
  <2>7. below \in Seq(Seq(T)) /\ DOMAIN below = DOMAIN texts
    <3>1. DOMAIN below = 1 .. Len(texts) /\ below = [i \in 1 .. Len(texts) |-> below[i]]
      BY <2>5
    <3> HIDE DEF below
    <3>2. below \in [1 .. Len(texts) -> Seq(T)]
      BY <2>5, <2>6, <3>1
    <3> QED
      BY <2>5, <3>1, <3>2
  <2> HIDE DEF below
  <2>8. ASSUME NEW i \in DOMAIN below, NEW x \in DOMAIN below[i]
        PROVE  \/ below[i][x].kind = "blank" /\ below[i][x].key[3] = 9
               \/ /\ x - 1 \in DOMAIN texts[i] /\ below[i][x] = texts[i][x - 1]
                  /\ below[i][x].key[3] \in {1, 2}
    <3>1. CASE below[i][x] = Blank
      BY <2>4, <3>1
    <3>2. CASE below[i][x] # Blank
      <4>1. x - 1 \in DOMAIN texts[i] /\ below[i][x] = texts[i][x - 1]
        BY <2>6, <2>7, <3>2
      <4>2. texts[i][x - 1] \in AllOf(texts)
        BY <2>7, <4>1, OfAll
      <4> QED
        BY <1>1, <4>1, <4>2
    <3> QED
      BY <3>1, <3>2
  <2>9. ASSUME NEW i \in DOMAIN below, NEW x \in DOMAIN below[i] PROVE x \in Nat
    <3> DEFINE S == Seq(T)
    <3>1. below \in Seq(S)
      BY <2>7
    <3>2. below[i] \in S
      <4> HIDE DEF S
      <4> QED
        BY <3>1
    <3> QED
      BY <3>2
  <2>10. RowsApart(below)
    <3>1. ASSUME NEW i \in DOMAIN below, NEW j \in DOMAIN below,
                 NEW x \in DOMAIN below[i], NEW y \in DOMAIN below[j],
                 below[i][x].kind = "row", below[j][y].key = below[i][x].key
          PROVE  i = j /\ x = y
      <4>1. x - 1 \in DOMAIN texts[i] /\ below[i][x] = texts[i][x - 1] /\ below[i][x].key[3] \in {1, 2}
        BY <2>8, <3>1
      <4>2. y - 1 \in DOMAIN texts[j] /\ below[j][y] = texts[j][y - 1]
        BY <2>8, <3>1, <4>1
      <4>3. i = j /\ x - 1 = y - 1
        BY <2>7, <3>1, <4>1, <4>2 DEF InsideTexts, RowsApart
      <4>4. x \in Nat /\ y \in Nat
        BY <2>9
      <4> QED
        BY <4>3, <4>4
    <3> QED
      BY <3>1 DEF RowsApart
  <2>11. tail \in Seq(T) /\ Elements(tail) = AllOf(below) /\ RowsOnce(tail)
    BY <2>7, <2>10, ElementsOfFlat, FlatRowsOnce
  <2>12. ASSUME NEW l \in Elements(tail) PROVE l.key[3] \in {9, 1, 2}
    <3>1. PICK i \in DOMAIN below : l \in Elements(below[i])
      BY <2>11, Zenon DEF AllOf
    <3>2. PICK x \in DOMAIN below[i] : l = below[i][x]
      BY <3>1 DEF Elements
    <3> QED
      BY <2>8, <3>2
  <2>13. \A l \in Elements(rest) : l.key[3] \in {0, 3}
    BY <1>2, <2>2, <2>3
  <2> HIDE DEF rest, tail
  <2>14. \A k \in Elements(rest), l \in Elements(tail) : k.key = l.key => k.kind # "row" /\ l.kind # "row"
    BY <2>12, <2>13
  <2>15. RowsOnce(rest \o tail)
    BY <2>3, <2>11, <2>14, ConcatOnce
  <2>16. Elements(rest \o tail) = Elements(rest) \cup Elements(tail)
    BY <2>3, <2>11, ElementsOfConcat
  <2>17. \A l \in Elements(lines) : l.kind # "image" => l \in Elements(rest)
    BY <2>2, <2>3 DEF Elements
  <2> HIDE DEF page
  <2>18. RowsOnce(page) /\ \A l \in Elements(lines) : l.kind # "image" => l \in Elements(page)
    BY <2>1, <2>15, <2>16, <2>17
  <2> QED
    BY <2>18 DEF page
<1> QED
  BY <1>5, <1>6

\* A picture with the page and the place it is printed at.
PictureAt(r) ==
  LET i == r.figure.key[2]
  IN  /\ r.page \in DOMAIN printed /\ i \in DOMAIN printed[r.page]
      /\ r.figure = printed[r.page][i] /\ r.figure.kind \in Figures
      /\ r.figure.key = <<r.page, i, 0>>

\* The pictures of a page, as Pictures has them.
PictureOf(p, e) == IF e.kind \in Figures THEN <<[page |-> p, figure |-> e]>> ELSE <<>>
PagePictures(p) == FlattenSeq([i \in DOMAIN printed[p] |-> PictureOf(p, printed[p][i])])

\* They are the figures of the page, in its order.
LEMMA PagePicturesAre ==
  ASSUME DocumentsAssumption, printed \in Printed, NEW p \in DOMAIN printed
  PROVE  LET s == PagePictures(p)
         IN  /\ s \in Seq(Picture)
             /\ \A k \in DOMAIN s : PictureAt(s[k]) /\ s[k].page = p
             /\ \A k, l \in DOMAIN s : k < l => s[k].figure.key[2] < s[l].figure.key[2]
             /\ \A i \in DOMAIN printed[p] : printed[p][i].kind \in Figures =>
                  \E k \in DOMAIN s : s[k] = [page |-> p, figure |-> printed[p][i]]
<1> DEFINE T == Picture
           page == printed[p]
           m == [i \in DOMAIN page |-> PictureOf(p, page[i])]
           s == PagePictures(p)
<1>0. /\ \A q \in DOMAIN printed : \A j \in DOMAIN printed[q] : printed[q][j] \in Element
      /\ \A q \in DOMAIN printed : \A j \in DOMAIN printed[q] :
           printed[q][j].key = <<q, j, 0>> \/ (printed[q][j].kind = "prose" /\ printed[q][j].key[1] = 0)
  <2> DEFINE d == printed
  <2>1. d \in Printed
    OBVIOUS
  <2> HIDE DEF d
  <2>2. \A q \in DOMAIN d : \A j \in DOMAIN d[q] : d[q][j] \in Element
    BY <2>1, Zenon, PlaceOfPrinted
  <2>3. \A q \in DOMAIN d : \A j \in DOMAIN d[q] :
          d[q][j].key = <<q, j, 0>> \/ (d[q][j].kind = "prose" /\ d[q][j].key[1] = 0)
    BY <2>1, Zenon, PlaceOfPrinted
  <2> QED
    BY <2>2, <2>3 DEF d
<1>1. s = FlattenSeq(m)
  BY DEF PagePictures
<1>2. page \in Seq(Element) /\ DOMAIN page = 1 .. Len(page) /\ Len(page) \in Nat
  <2> DEFINE S == Seq(Element)
  <2>1. printed \in Seq(S)
    BY PrintedIs
  <2>2. page \in S
    <3> HIDE DEF S
    <3> QED
      BY <2>1
  <2> HIDE DEF page
  <2> QED
    BY <2>2
<1>3. ASSUME NEW i \in DOMAIN page
      PROVE  page[i] \in Element /\ (page[i].kind \in Figures => page[i].key = <<p, i, 0>>)
  <2>1. page[i] \in Element /\ (page[i].key = <<p, i, 0>> \/ page[i].kind = "prose")
    BY <1>0
  <2>2. page[i].kind = "prose" => page[i].kind \notin Figures
    BY DEF Figures
  <2> QED
    BY <2>1, <2>2
<1>4. ASSUME NEW i \in DOMAIN page
      PROVE  /\ m[i] \in Seq(T)
             /\ \A x \in DOMAIN m[i] : /\ x = 1 /\ m[i][x] = [page |-> p, figure |-> page[i]]
                                       /\ page[i].kind \in Figures
             /\ page[i].kind \in Figures => 1 \in DOMAIN m[i]
  <2> DEFINE r == [page |-> p, figure |-> page[i]]
  <2>1. r \in T
    BY <1>3 DEF Picture
  <2>2. m[i] = IF page[i].kind \in Figures THEN <<r>> ELSE <<>>
    BY DEF PictureOf
  <2> HIDE DEF m, r, T, page
  <2>3. CASE page[i].kind \in Figures
    <3>1. m[i] = <<r>>
      BY <2>2, <2>3
    <3>2. DOMAIN m[i] = {1} /\ m[i][1] = r /\ m[i] \in Seq(T)
      BY <2>1, <3>1
    <3> QED
      BY <2>3, <3>2 DEF r
  <2>4. CASE page[i].kind \notin Figures
    <3>1. m[i] = <<>>
      BY <2>2, <2>4
    <3>2. DOMAIN m[i] = {} /\ m[i] \in Seq(T)
      BY <3>1
    <3> QED
      BY <2>4, <3>2
  <2> QED
    BY <2>3, <2>4
<1>5. m \in Seq(Seq(T)) /\ DOMAIN m = DOMAIN page
  <2>1. DOMAIN m = 1 .. Len(page) /\ m = [i \in 1 .. Len(page) |-> m[i]]
    BY <1>2
  <2> HIDE DEF m, T, page
  <2>2. m \in [1 .. Len(page) -> Seq(T)]
    BY <1>2, <1>4, <2>1
  <2> QED
    BY <1>2, <2>1, <2>2, TableIsSeq
<1> HIDE DEF m, s, T
<1>6. s \in Seq(T) /\ Elements(s) = AllOf(m)
  BY <1>1, <1>5, ElementsOfFlat
<1>7. \A k, l \in DOMAIN s : k < l =>
        \E i, j \in DOMAIN m : \E x \in DOMAIN m[i] : \E y \in DOMAIN m[j] :
          /\ s[k] = m[i][x] /\ s[l] = m[j][y]
          /\ i < j \/ (i = j /\ x < y)
  BY <1>1, <1>5, FlattenOrder
<1>8. ASSUME NEW k \in DOMAIN s PROVE PictureAt(s[k]) /\ s[k].page = p
  <2>1. s[k] \in AllOf(m)
    BY <1>6 DEF Elements
  <2>2. PICK i \in DOMAIN m : \E x \in DOMAIN m[i] : s[k] = m[i][x]
    BY <2>1, PlaceOf
  <2>3. s[k] = [page |-> p, figure |-> page[i]] /\ page[i].kind \in Figures /\ i \in DOMAIN page
    BY <1>4, <1>5, <2>2
  <2>4. s[k].page = p /\ s[k].figure = page[i] /\ page[i].key = <<p, i, 0>>
    BY <1>3, <2>3
  <2>5. s[k].figure.key[2] = i
    BY <2>4
  <2> QED
    BY <2>3, <2>4, <2>5 DEF PictureAt
<1>9. ASSUME NEW k \in DOMAIN s, NEW l \in DOMAIN s, k < l
      PROVE  s[k].figure.key[2] < s[l].figure.key[2]
  <2>1. PICK i \in DOMAIN m, j \in DOMAIN m : \E x \in DOMAIN m[i] : \E y \in DOMAIN m[j] :
          /\ s[k] = m[i][x] /\ s[l] = m[j][y]
          /\ i < j \/ (i = j /\ x < y)
    BY <1>7, <1>9
  <2>2. PICK x \in DOMAIN m[i], y \in DOMAIN m[j] :
          /\ s[k] = m[i][x] /\ s[l] = m[j][y]
          /\ i < j \/ (i = j /\ x < y)
    BY <2>1
  <2>3. x = 1 /\ y = 1 /\ s[k].figure = page[i] /\ page[i].kind \in Figures
        /\ s[l].figure = page[j] /\ page[j].kind \in Figures
    <3>1. i \in DOMAIN page /\ j \in DOMAIN page
      BY <1>5
    <3>2. x = 1 /\ m[i][x] = [page |-> p, figure |-> page[i]] /\ page[i].kind \in Figures
      BY <1>4, <2>2, <3>1
    <3>3. y = 1 /\ m[j][y] = [page |-> p, figure |-> page[j]] /\ page[j].kind \in Figures
      BY <1>4, <2>2, <3>1
    <3> HIDE DEF page
    <3> QED
      BY <2>2, <3>2, <3>3
  <2>4. page[i].key = <<p, i, 0>> /\ page[j].key = <<p, j, 0>>
    BY <1>3, <1>5, <2>3
  <2>5. i < j
    BY <2>2, <2>3
  <2> QED
    BY <2>3, <2>4, <2>5
<1>10. ASSUME NEW i \in DOMAIN page, page[i].kind \in Figures
       PROVE  \E k \in DOMAIN s : s[k] = [page |-> p, figure |-> page[i]]
  <2>1. 1 \in DOMAIN m[i] /\ m[i][1] = [page |-> p, figure |-> page[i]]
    BY <1>4, <1>10
  <2>2. m[i][1] \in Elements(s)
    BY <1>5, <1>6, <2>1, OfAll
  <2> QED
    BY <2>1, <2>2 DEF Elements
<1> QED
  BY <1>6, <1>8, <1>9, <1>10 DEF s, T

\* The pictures of a document are in reading order, and are all its figures.
LEMMA PicturesInOrder ==
  ASSUME DocumentsAssumption, printed \in Printed
  PROVE  /\ \A n \in DOMAIN Pictures : PictureAt(Pictures[n])
         /\ \A k, l \in DOMAIN Pictures : k < l =>
              \/ Pictures[k].page < Pictures[l].page
              \/ /\ Pictures[k].page = Pictures[l].page
                 /\ Pictures[k].figure.key[2] < Pictures[l].figure.key[2]
         /\ \A p \in DOMAIN printed : \A i \in DOMAIN printed[p] : printed[p][i].kind \in Figures =>
              \E k \in DOMAIN Pictures : Pictures[k] = [page |-> p, figure |-> printed[p][i]]
<1> DEFINE T == Picture
           m == [p \in DOMAIN printed |-> PagePictures(p)]
           s == Pictures
<1>1. s = FlattenSeq(m)
  BY DEF Pictures, Each, PagePictures, PictureOf
<1>2. DOMAIN printed = 1 .. Len(printed) /\ Len(printed) \in Nat
  BY PrintedIs
<1>3. \A p \in DOMAIN printed : m[p] = PagePictures(p)
  OBVIOUS
<1>4. m = [p \in 1 .. Len(printed) |-> m[p]]
  BY <1>2
<1> HIDE DEF m, s, T
<1>5. ASSUME NEW p \in DOMAIN printed
      PROVE  /\ m[p] \in Seq(T)
             /\ \A k \in DOMAIN m[p] : PictureAt(m[p][k]) /\ m[p][k].page = p
             /\ \A k, l \in DOMAIN m[p] : k < l => m[p][k].figure.key[2] < m[p][l].figure.key[2]
             /\ \A i \in DOMAIN printed[p] : printed[p][i].kind \in Figures =>
                  \E k \in DOMAIN m[p] : m[p][k] = [page |-> p, figure |-> printed[p][i]]
  <2> DEFINE q == PagePictures(p)
  <2>1. /\ q \in Seq(T)
        /\ \A k \in DOMAIN q : PictureAt(q[k]) /\ q[k].page = p
        /\ \A k, l \in DOMAIN q : k < l => q[k].figure.key[2] < q[l].figure.key[2]
        /\ \A i \in DOMAIN printed[p] : printed[p][i].kind \in Figures =>
             \E k \in DOMAIN q : q[k] = [page |-> p, figure |-> printed[p][i]]
    BY Zenon, PagePicturesAre DEF T
  <2>2. m[p] = q
    BY <1>3
  <2> HIDE DEF q
  <2> QED
    BY <2>1, <2>2, Zenon
<1>6. m \in Seq(Seq(T)) /\ DOMAIN m = DOMAIN printed
  <2>1. m \in [1 .. Len(printed) -> Seq(T)]
    BY <1>2, <1>4, <1>5
  <2> QED
    BY <1>2, <2>1, TableIsSeq
<1>7. s \in Seq(T) /\ Elements(s) = AllOf(m)
  BY <1>1, <1>6, ElementsOfFlat
<1>8. \A k, l \in DOMAIN s : k < l =>
        \E i, j \in DOMAIN m : \E x \in DOMAIN m[i] : \E y \in DOMAIN m[j] :
          /\ s[k] = m[i][x] /\ s[l] = m[j][y]
          /\ i < j \/ (i = j /\ x < y)
  BY <1>1, <1>6, FlattenOrder
<1>9. ASSUME NEW n \in DOMAIN s PROVE PictureAt(s[n])
  <2>1. s[n] \in AllOf(m)
    BY <1>7 DEF Elements
  <2>2. PICK i \in DOMAIN m : \E x \in DOMAIN m[i] : s[n] = m[i][x]
    BY <2>1, PlaceOf
  <2> QED
    BY <1>5, <1>6, <2>2
<1>10. ASSUME NEW k \in DOMAIN s, NEW l \in DOMAIN s, k < l
       PROVE  s[k].page < s[l].page \/ (s[k].page = s[l].page /\ s[k].figure.key[2] < s[l].figure.key[2])
  <2>1. PICK i \in DOMAIN m, j \in DOMAIN m : \E x \in DOMAIN m[i] : \E y \in DOMAIN m[j] :
          /\ s[k] = m[i][x] /\ s[l] = m[j][y]
          /\ i < j \/ (i = j /\ x < y)
    BY <1>8, <1>10
  <2>2. PICK x \in DOMAIN m[i], y \in DOMAIN m[j] :
          /\ s[k] = m[i][x] /\ s[l] = m[j][y]
          /\ i < j \/ (i = j /\ x < y)
    BY <2>1
  <2>3. s[k].page = i /\ s[l].page = j
    BY <1>5, <1>6, <2>2
  <2>4. i = j /\ x < y => s[k].figure.key[2] < s[l].figure.key[2]
    BY <1>5, <1>6, <2>2
  <2> QED
    BY <2>2, <2>3, <2>4
<1>11. ASSUME NEW p \in DOMAIN printed, NEW i \in DOMAIN printed[p], printed[p][i].kind \in Figures
       PROVE  \E k \in DOMAIN s : s[k] = [page |-> p, figure |-> printed[p][i]]
  <2>1. PICK x \in DOMAIN m[p] : m[p][x] = [page |-> p, figure |-> printed[p][i]]
    BY <1>5, <1>11
  <2>2. m[p][x] \in Elements(s)
    BY <1>6, <1>7, <2>1, OfAll
  <2> QED
    BY <2>1, <2>2 DEF Elements
<1> QED
  BY <1>9, <1>10, <1>11 DEF s

\* The figures dealt with are the first pictures.
SlotsTrue ==
  /\ Len(slots) <= Len(Pictures)
  /\ \A n \in DOMAIN slots : /\ slots[n].page = Pictures[n].page /\ slots[n].figure = Pictures[n].figure
                             /\ slots[n].text \in {<<>>, Transcription(slots[n].figure)}

\* The lines of a transcription are numbered inside their picture.
LEMMA TranscriptionHas ==
  ASSUME NEW e \in Element, NEW x \in DOMAIN Transcription(e)
  PROVE  /\ x \in {1, 2}
         /\ Transcription(e)[x].key = <<e.key[1], e.key[2], x>>
         /\ Transcription(e)[x].kind \in {"row", "prose"}
<1> DEFINE a == Line("row", Inside(e, 1))
           b == Line("row", Inside(e, 2))
           c == Line("prose", Inside(e, 1))
           t == Transcription(e)
<1>1. t = IF e.kind = "chart" THEN <<a, b>> ELSE <<c>>
  BY DEF Transcription
<1>2. /\ a.key = <<e.key[1], e.key[2], 1>> /\ a.kind = "row"
      /\ b.key = <<e.key[1], e.key[2], 2>> /\ b.kind = "row"
      /\ c.key = <<e.key[1], e.key[2], 1>> /\ c.kind = "prose"
  BY InsideIs DEF Line
<1> HIDE DEF a, b, c, t
<1>3. x \in DOMAIN t
  BY DEF t
<1>4. CASE e.kind = "chart"
  <2>1. t = <<a, b>>
    BY <1>1, <1>4
  <2>2. (x = 1 /\ t[x] = a) \/ (x = 2 /\ t[x] = b)
    BY <1>3, <2>1
  <2> QED
    BY <1>2, <2>2 DEF t
<1>5. CASE e.kind # "chart"
  <2>1. t = <<c>>
    BY <1>1, <1>5
  <2>2. x = 1 /\ t[x] = c
    BY <1>3, <2>1
  <2> QED
    BY <1>2, <2>2 DEF t
<1> QED
  BY <1>4, <1>5

\* The figures dealt with stand where they are printed, in the order of the document, and
\* so do the lines of their transcriptions.
LEMMA SlotsAre ==
  ASSUME DocumentsAssumption, printed \in Printed, slots \in Seq(Slot), SlotsTrue
  PROVE  /\ \A n \in DOMAIN slots : /\ slots[n] \in Slot /\ PictureAt(slots[n])
                                    /\ \A x \in DOMAIN slots[n].text :
                                         /\ slots[n].text[x].key = <<slots[n].page, slots[n].figure.key[2], x>>
                                         /\ x \in {1, 2} /\ slots[n].text[x].kind \in {"row", "prose"}
         /\ \A k, l \in DOMAIN slots : k < l =>
              \/ slots[k].page < slots[l].page
              \/ /\ slots[k].page = slots[l].page
                 /\ slots[k].figure.key[2] < slots[l].figure.key[2]
<1>1. ASSUME NEW n \in DOMAIN slots PROVE slots[n] \in Slot
  <2> DEFINE T == Slot
  <2>1. slots \in Seq(T)
    OBVIOUS
  <2> HIDE DEF T
  <2> QED
    BY <2>1 DEF T
<1>2. DOMAIN slots \subseteq DOMAIN Pictures
  <2>1. Pictures \in Seq(Picture)
    BY PicturesAre
  <2>2. Len(slots) \in Nat /\ Len(Pictures) \in Nat /\ DOMAIN slots = 1 .. Len(slots)
        /\ DOMAIN Pictures = 1 .. Len(Pictures)
    BY <2>1
  <2> QED
    BY <2>2 DEF SlotsTrue
<1>3. ASSUME NEW n \in DOMAIN slots PROVE PictureAt(slots[n])
  <2>1. PictureAt(Pictures[n])
    BY <1>2, PicturesInOrder
  <2> QED
    BY <2>1 DEF SlotsTrue, PictureAt
<1>4. ASSUME NEW n \in DOMAIN slots, NEW x \in DOMAIN slots[n].text
      PROVE  /\ slots[n].text[x].key = <<slots[n].page, slots[n].figure.key[2], x>>
             /\ x \in {1, 2} /\ slots[n].text[x].kind \in {"row", "prose"}
  <2> DEFINE e == slots[n].figure
             text == slots[n].text
  <2>0. slots[n] \in Slot /\ PictureAt(slots[n])
    BY <1>1, <1>3
  <2>1. e \in Element /\ e.key[1] = slots[n].page
    <3>1. e \in Element
      BY <2>0 DEF Slot
    <3>2. \E i : e.key = <<slots[n].page, i, 0>>
      BY <2>0 DEF PictureAt
    <3> QED
      BY <3>1, <3>2
  <2>2. text \in {<<>>, Transcription(e)}
    BY DEF SlotsTrue
  <2>3. x \in DOMAIN text
    OBVIOUS
  <2> HIDE DEF text, e
  <2>4. text = Transcription(e)
    BY <2>2, <2>3
  <2>5. text[x].key = <<e.key[1], e.key[2], x>> /\ x \in {1, 2} /\ text[x].kind \in {"row", "prose"}
    BY <2>1, <2>3, <2>4, TranscriptionHas
  <2> QED
    BY <2>1, <2>5 DEF text, e
<1>5. ASSUME NEW k \in DOMAIN slots, NEW l \in DOMAIN slots, k < l
      PROVE  \/ slots[k].page < slots[l].page
             \/ slots[k].page = slots[l].page /\ slots[k].figure.key[2] < slots[l].figure.key[2]
  <2>1. k \in DOMAIN Pictures /\ l \in DOMAIN Pictures
    BY <1>2
  <2>2. \/ Pictures[k].page < Pictures[l].page
        \/ /\ Pictures[k].page = Pictures[l].page
           /\ Pictures[k].figure.key[2] < Pictures[l].figure.key[2]
    BY <1>5, <2>1, PicturesInOrder
  <2>3. /\ slots[k].page = Pictures[k].page /\ slots[k].figure = Pictures[k].figure
        /\ slots[l].page = Pictures[l].page /\ slots[l].figure = Pictures[l].figure
    BY DEF SlotsTrue
  <2> QED
    BY <2>2, <2>3
<1> QED
  BY <1>1, <1>3, <1>4, <1>5

\* The texts of some of the figures, each once.
LEMMA TextsAreInside ==
  ASSUME DocumentsAssumption, printed \in Printed, slots \in Seq(Slot), SlotsTrue,
         NEW texts \in Seq(Seq(Words)), NEW g \in [DOMAIN texts -> DOMAIN slots],
         \A k \in DOMAIN texts : texts[k] = slots[g[k]].text,
         \A k, l \in DOMAIN texts : g[k] = g[l] => k = l
  PROVE  InsideTexts(texts)
<1>1. ASSUME NEW i \in DOMAIN texts, NEW x \in DOMAIN texts[i]
      PROVE  /\ texts[i][x].key = <<slots[g[i]].page, slots[g[i]].figure.key[2], x>> /\ x \in {1, 2}
  <2> DEFINE n == g[i]
  <2>1. x \in DOMAIN slots[n].text /\ n \in DOMAIN slots /\ texts[i] = slots[n].text
    OBVIOUS
  <2> HIDE DEF n
  <2>2. slots[n].text[x].key = <<slots[n].page, slots[n].figure.key[2], x>> /\ x \in {1, 2}
    BY <2>1, SlotsAre
  <2> QED
    BY <2>1, <2>2 DEF n
<1>2. ASSUME NEW i \in DOMAIN texts, NEW j \in DOMAIN texts, NEW x \in DOMAIN texts[i], NEW y \in DOMAIN texts[j],
             texts[j][y].key = texts[i][x].key
      PROVE  i = j /\ x = y
  <2> DEFINE n == g[i]
             m == g[j]
  <2>1. n \in DOMAIN slots /\ m \in DOMAIN slots
    OBVIOUS
  <2>2. /\ texts[i][x].key = <<slots[n].page, slots[n].figure.key[2], x>>
        /\ texts[j][y].key = <<slots[m].page, slots[m].figure.key[2], y>>
    BY <1>1
  <2> HIDE DEF n, m
  <2>3. slots[n].page = slots[m].page /\ slots[n].figure.key[2] = slots[m].figure.key[2] /\ x = y
    BY <1>2, <2>2
  <2>4. \A q \in DOMAIN slots : slots[q].page \in Nat /\ slots[q].figure.key[2] \in Nat
    <3> SUFFICES ASSUME NEW q \in DOMAIN slots PROVE slots[q].page \in Nat /\ slots[q].figure.key[2] \in Nat
      OBVIOUS
    <3>1. slots[q] \in Slot
      BY SlotsAre
    <3>2. slots[q].page \in DOMAIN printed /\ slots[q].figure.key \in Nat \X Nat \X {0}
      BY <3>1 DEF Slot, Element
    <3>3. printed \in Seq(Seq(Element))
      BY PrintedIs
    <3>4. \A u \in DOMAIN printed : u \in Nat
      BY SMTT(20), <3>3
    <3> DEFINE v == slots[q].figure.key
    <3>5. v \in Nat \X Nat \X {0}
      BY <3>2
    <3> HIDE DEF v
    <3>6. v[2] \in Nat
      BY <3>5
    <3> QED
      BY <3>2, <3>4, <3>6 DEF v
  <2>5. ~(n < m) /\ ~(m < n)
    <3>1. n < m => slots[n].page < slots[m].page \/ slots[n].figure.key[2] < slots[m].figure.key[2]
      BY <2>1, SlotsAre
    <3>2. m < n => slots[m].page < slots[n].page \/ slots[m].figure.key[2] < slots[n].figure.key[2]
      BY <2>1, SlotsAre
    <3>3. \A u \in Nat : ~(u < u)
      OBVIOUS
    <3> QED
      BY <2>1, <2>3, <2>4, <3>1, <3>2, <3>3
  <2>6. n \in Nat /\ m \in Nat
    BY <2>1
  <2>7. n = m
    BY <2>5, <2>6
  <2> QED
    BY <2>3, <2>7 DEF n, m
<1>3. ASSUME NEW l \in AllOf(texts) PROVE l.key[3] \in {1, 2}
  <2>1. PICK i \in DOMAIN texts : \E x \in DOMAIN texts[i] : l = texts[i][x]
    BY PlaceOf
  <2> QED
    BY <1>1, <2>1
<1> QED
  BY <1>2, <1>3 DEF InsideTexts, RowsApart

\* The figures dealt with on a page.
Own(p) == {n \in DOMAIN slots : slots[n].page = p}

\* The k-th text of a page is that of its k-th figure.
LEMMA TextsOfPlaces ==
  ASSUME slots \in Seq(Slot), NEW p
  PROVE  /\ Own(p) \in SUBSET DOMAIN slots /\ Own(p) \in SUBSET Nat /\ IsFiniteSet(Own(p))
         /\ Cardinality(Own(p)) \in Nat /\ DOMAIN TextsOf(p) = 1 .. Cardinality(Own(p))
         /\ \A k \in DOMAIN TextsOf(p) : /\ Ith(Own(p), k) \in Own(p) /\ Rank(Own(p), Ith(Own(p), k)) = k
                                         /\ TextsOf(p)[k] = slots[Ith(Own(p), k)].text
<1> DEFINE I == Own(p)
           own == Picked(slots, I)
           texts == TextsOf(p)
           T == Slot
<1>1. texts = [k \in DOMAIN own |-> own[k].text]
  BY DEF TextsOf, Own
<1>2. I \in SUBSET DOMAIN slots
  BY DEF Own
<1> HIDE DEF I, texts, T
<1>3. /\ IsFiniteSet(I) /\ I \in SUBSET Nat /\ Cardinality(I) \in Nat
      /\ DOMAIN own = 1 .. Cardinality(I)
      /\ \A i \in 1 .. Cardinality(I) : Ith(I, i) \in I /\ own[i] = slots[Ith(I, i)]
  BY <1>2, PickedIsSeq DEF T
<1> HIDE DEF own
<1>4. \A k \in 1 .. Cardinality(I) : Rank(I, Ith(I, k)) = k
  BY <1>3, IthOf
<1>5. DOMAIN texts = 1 .. Cardinality(I) /\ \A k \in DOMAIN texts : texts[k] = slots[Ith(I, k)].text
  BY <1>1, <1>3
<1> QED
  BY <1>2, <1>3, <1>4, <1>5 DEF I, texts

\* The texts of a page are those of different pictures.
LEMMA TextsOfInside ==
  ASSUME DocumentsAssumption, printed \in Printed, slots \in Seq(Slot), SlotsTrue, NEW p
  PROVE  InsideTexts(TextsOf(p))
<1> DEFINE texts == TextsOf(p)
           I == Own(p)
           g == [k \in DOMAIN texts |-> Ith(I, k)]
<1>1. /\ I \in SUBSET DOMAIN slots
      /\ \A k \in DOMAIN texts : Ith(I, k) \in I /\ Rank(I, Ith(I, k)) = k /\ texts[k] = slots[Ith(I, k)].text
  BY TextsOfPlaces
<1>2. texts \in Seq(Seq(Words))
  BY TextsOfIs
<1> HIDE DEF texts, I
<1>3. g \in [DOMAIN texts -> DOMAIN slots] /\ \A k \in DOMAIN texts : g[k] = Ith(I, k)
  BY <1>1
<1> HIDE DEF g
<1>4. /\ \A k \in DOMAIN texts : texts[k] = slots[g[k]].text
      /\ \A k, l \in DOMAIN texts : g[k] = g[l] => k = l
  BY <1>1, <1>3
<1>5. InsideTexts(texts)
  BY <1>2, <1>3, <1>4, TextsAreInside
<1> QED
  BY <1>5 DEF texts

\* So are those of the document.
LEMMA AllTextsInside ==
  ASSUME DocumentsAssumption, printed \in Printed, slots \in Seq(Slot), SlotsTrue
  PROVE  InsideTexts([n \in DOMAIN slots |-> slots[n].text])
<1> DEFINE texts == [n \in DOMAIN slots |-> slots[n].text]
           g == [k \in DOMAIN texts |-> k]
<1>1. texts \in Seq(Seq(Words))
  <2>1. DOMAIN slots = 1 .. Len(slots) /\ Len(slots) \in Nat
    OBVIOUS
  <2>2. \A n \in DOMAIN slots : slots[n] \in Slot
    BY SlotsAre
  <2>3. \A n \in DOMAIN slots : slots[n].text \in Seq(Words)
    BY <2>2 DEF Slot
  <2>4. texts \in [1 .. Len(slots) -> Seq(Words)]
    BY <2>1, <2>3
  <2> QED
    BY <2>1, <2>4, TableIsSeq
<1>2. DOMAIN texts = DOMAIN slots /\ \A n \in DOMAIN slots : texts[n] = slots[n].text
  OBVIOUS
<1> HIDE DEF texts
<1>3. g \in [DOMAIN texts -> DOMAIN slots] /\ \A k \in DOMAIN texts : g[k] = k
  BY <1>2
<1> HIDE DEF g
<1>4. /\ \A k \in DOMAIN texts : texts[k] = slots[g[k]].text
      /\ \A k, l \in DOMAIN texts : g[k] = g[l] => k = l
  BY <1>2, <1>3
<1>5. InsideTexts(texts)
  BY <1>1, <1>3, <1>4, TextsAreInside
<1> QED
  BY <1>5 DEF texts

\* With a slot for every picture, those of a page are its figures, in their order.
LEMMA OwnFigures ==
  ASSUME DocumentsAssumption, printed \in Printed, slots \in Seq(Slot), SlotsTrue,
         Len(slots) = Len(Pictures), NEW p \in DOMAIN printed
  PROVE  /\ Cardinality(OfKind(printed[p], Figures)) = Cardinality(Own(p))
         /\ \A n \in Own(p) : /\ slots[n].figure.key[2] \in OfKind(printed[p], Figures)
                              /\ Rank(OfKind(printed[p], Figures), slots[n].figure.key[2]) = Rank(Own(p), n)
<1> DEFINE F == OfKind(printed[p], Figures)
           I == Own(p)
           f == [n \in I |-> slots[n].figure.key[2]]
<1>1. printed[p] \in Seq(Element)
  <2> DEFINE S == Seq(Element)
  <2>1. printed \in Seq(S)
    BY PrintedIs
  <2> HIDE DEF S
  <2>2. printed[p] \in S
    BY <2>1
  <2> QED
    BY <2>2 DEF S
<1>2. F \in SUBSET DOMAIN printed[p] /\ F \in SUBSET Nat /\ IsFiniteSet(F)
  BY <1>1, MarkersAre
<1>3. \A i \in DOMAIN printed[p] : i \in F <=> printed[p][i].kind \in Figures
  BY DEF OfKind
<1>4. I \in SUBSET DOMAIN slots /\ I \in SUBSET Nat /\ IsFiniteSet(I)
  BY TextsOfPlaces
<1>5. \A n \in DOMAIN slots : n \in I <=> slots[n].page = p
  BY DEF Own
<1> HIDE DEF F, I
<1>6. ASSUME NEW n \in I PROVE slots[n].figure.key[2] \in F
  <2>1. PictureAt(slots[n]) /\ slots[n].page = p
    BY <1>4, <1>5, SlotsAre
  <2> QED
    BY <1>3, <2>1 DEF PictureAt
<1>7. f \in [I -> F] /\ \A n \in I : f[n] = slots[n].figure.key[2]
  BY <1>6
<1>8. ASSUME NEW k \in I, NEW l \in I, k < l PROVE slots[k].figure.key[2] < slots[l].figure.key[2]
  <2>1. \/ slots[k].page < slots[l].page
        \/ /\ slots[k].page = slots[l].page
           /\ slots[k].figure.key[2] < slots[l].figure.key[2]
    BY <1>4, <1>8, SlotsAre
  <2>2. slots[k].page = p /\ slots[l].page = p
    BY <1>4, <1>5
  <2>3. p \in Nat
    BY PrintedIs
  <2> QED
    BY <2>1, <2>2, <2>3
<1>9. ASSUME NEW i \in F PROVE \E n \in I : slots[n].figure.key[2] = i
  <2>1. i \in DOMAIN printed[p] /\ printed[p][i].kind \in Figures
    BY <1>2, <1>3
  <2>2. PICK n \in DOMAIN Pictures : Pictures[n] = [page |-> p, figure |-> printed[p][i]]
    BY <2>1, PicturesInOrder
  <2>3. n \in DOMAIN slots
    <3>1. Pictures \in Seq(Picture)
      BY PicturesAre
    <3>2. DOMAIN slots = 1 .. Len(slots) /\ DOMAIN Pictures = 1 .. Len(Pictures)
      BY <3>1
    <3> QED
      BY <3>2
  <2>4. slots[n].page = p /\ slots[n].figure = printed[p][i]
    BY <2>2, <2>3 DEF SlotsTrue
  <2>5. PictureAt(Pictures[n])
    BY <2>2, PicturesInOrder
  <2>6. n \in I
    BY <1>5, <2>3, <2>4
  <2>7. printed[p][i].key = <<p, i, 0>>
    <3>1. printed[p][i].key = <<p, i, 0>> \/ printed[p][i].kind = "prose"
      BY <2>1 DEF DocumentsAssumption
    <3> QED
      BY <2>1, <3>1 DEF Figures
  <2>8. slots[n].figure.key[2] = i
    BY <2>4, <2>7
  <2> QED
    BY <2>6, <2>8
<1> HIDE DEF f
<1>10. /\ \A a, b \in I : a < b => f[a] < f[b]
       /\ \A b \in F : \E a \in I : f[a] = b
  BY <1>7, <1>8, <1>9
<1>11. Cardinality(F) = Cardinality(I) /\ \A n \in I : Rank(F, f[n]) = Rank(I, n)
  BY <1>2, <1>4, <1>7, <1>10, RankKept
<1>12. /\ Cardinality(F) = Cardinality(I)
       /\ \A n \in I : slots[n].figure.key[2] \in F /\ Rank(F, slots[n].figure.key[2]) = Rank(I, n)
  BY <1>6, <1>7, <1>11
<1> QED
  BY <1>12 DEF F, I

\* A page whose pictures all have a marker has its figures in place.
LEMMA PageInOrder ==
  ASSUME DocumentsAssumption, printed \in Printed, slots \in Seq(Slot), SlotsTrue,
         Len(slots) = Len(Pictures) \/ slots = <<>>, NEW p \in DOMAIN printed,
         \A i \in DOMAIN printed[p] : printed[p][i].kind # "unmarked"
  PROVE  InOrder(WithFigures(Exported(printed[p]), TextsOf(p)))
<1> DEFINE page == printed[p]
           lines == Exported(page)
           texts == TextsOf(p)
           markers == OfKind(lines, {"image"})
           I == Own(p)
<1>1. page \in Seq(Element)
  <2> DEFINE S == Seq(Element)
  <2>1. printed \in Seq(S)
    BY PrintedIs
  <2> HIDE DEF S
  <2>2. page \in S
    BY <2>1
  <2> QED
    BY <2>2 DEF S
<1>2. /\ DOMAIN lines = DOMAIN page /\ lines \in Seq(AnyLine)
      /\ \A i \in DOMAIN page :
           lines[i] = IF page[i].kind \in Figures THEN Line("image", Inside(page[i], 3)) ELSE page[i]
  BY <1>1, ExportedPlaces, ExportedIs
<1>3. \A i \in DOMAIN page : page[i] \in Element
  BY <1>1
<1>4. \A i \in DOMAIN page : page[i].key = <<p, i, 0>> \/ (page[i].kind = "prose" /\ page[i].key[1] = 0)
  BY DEF DocumentsAssumption
<1>5. /\ DOMAIN texts = 1 .. Cardinality(I) /\ Cardinality(I) \in Nat
      /\ I \in SUBSET DOMAIN slots /\ I \in SUBSET Nat /\ IsFiniteSet(I)
      /\ \A k \in DOMAIN texts : Ith(I, k) \in I /\ Rank(I, Ith(I, k)) = k /\ texts[k] = slots[Ith(I, k)].text
  BY TextsOfPlaces
<1>6. texts \in Seq(Seq(Words))
  BY TextsOfIs
<1> HIDE DEF lines, texts, I
<1>7. markers = OfKind(page, Figures)
  <2>1. ASSUME NEW i \in DOMAIN page PROVE lines[i].kind = "image" <=> page[i].kind \in Figures
    <3>1. Line("image", Inside(page[i], 3)).kind = "image"
      BY DEF Line
    <3>2. page[i].kind # "image"
      BY <1>3 DEF Element, ElementKinds
    <3> QED
      BY <1>2, <3>1, <3>2
  <2> QED
    BY <1>2, <2>1 DEF OfKind
<1>8. ASSUME NEW i \in DOMAIN lines, lines[i].key[1] # 0 PROVE lines[i].key[2] = i
  <2>1. CASE page[i].kind \in Figures
    <3>1. page[i].key = <<p, i, 0>>
      BY <1>2, <1>4, <2>1 DEF Figures
    <3>2. lines[i].key = Inside(page[i], 3)
      BY <1>2, <2>1 DEF Line
    <3>3. Inside(page[i], 3) = <<page[i].key[1], page[i].key[2], 3>>
      BY <1>2, <1>3, InsideIs
    <3> QED
      BY <3>1, <3>2, <3>3
  <2>2. CASE page[i].kind \notin Figures
    <3>1. lines[i] = page[i]
      BY <1>2, <2>2
    <3> QED
      BY SMTT(20), <1>2, <1>4, <1>8, <3>1
  <2> QED
    BY <2>1, <2>2
<1>9. CASE texts = <<>>
  <2>1. ASSUME NEW i \in DOMAIN lines, NEW j \in DOMAIN lines, i < j, lines[i].key[1] # 0, lines[j].key[1] # 0
        PROVE  lines[i].key[2] < lines[j].key[2]
    BY <1>8, <2>1
  <2>2. InOrder(lines)
    BY <2>1 DEF InOrder
  <2> QED
    BY <1>9, <2>2 DEF WithFigures, lines, texts
<1>10. CASE texts # <<>>
  <2>1. Len(slots) = Len(Pictures)
    <3> SUFFICES ASSUME slots = <<>> PROVE FALSE
      OBVIOUS
    <3>1. I = {}
      BY <1>5
    <3>2. Cardinality(I) = 0
      BY <3>1, FS_EmptySet
    <3> QED
      BY <1>5, <1>6, <1>10, <3>2
  <2>2. /\ Cardinality(markers) = Cardinality(I)
        /\ \A n \in I : slots[n].figure.key[2] \in markers /\ Rank(markers, slots[n].figure.key[2]) = Rank(I, n)
    BY <1>7, <2>1, OwnFigures DEF I
  <2>3. markers \in SUBSET DOMAIN lines /\ markers \in SUBSET Nat /\ IsFiniteSet(markers)
    BY <1>2, MarkersAre
  <2>4. Cardinality(markers) = Len(texts) /\ texts \in Seq(Seq(AnyLine))
    BY <1>5, <1>6, <2>2, TextsAreLines
  <2>5. PICK m : Replaced(m, lines, texts) /\ Inject(lines, texts) = FlattenSeq(m)
    BY <1>2, <2>4, InjectInPlace
  <2> HIDE DEF markers
  <2>6. ASSUME NEW i \in markers
        PROVE  LET text == texts[Rank(markers, i)]
               IN  \A x \in DOMAIN text : /\ text[x].key[2] = i
                                          /\ \A y \in DOMAIN text : x < y => text[x].key[3] <= text[y].key[3]
    <3> DEFINE k == Rank(markers, i)
               n == Ith(I, k)
               l == slots[n].figure.key[2]
    <3>1. k \in DOMAIN texts
      BY <1>5, <2>2, <2>3, RankOf
    <3>2. n \in I /\ Rank(I, n) = k /\ texts[k] = slots[n].text
      BY <1>5, <3>1
    <3> HIDE DEF k, n
    <3>3. l \in markers /\ Rank(markers, l) = k
      BY <2>2, <3>2
    <3> HIDE DEF l
    <3>4. l = i
      <4>1. Ith(markers, Rank(markers, l)) = l
        BY <2>3, <3>3, IthRank
      <4>2. Ith(markers, Rank(markers, i)) = i
        BY <2>3, IthRank
      <4> QED
        BY <3>3, <4>1, <4>2 DEF k
    <3>5. \A x \in DOMAIN slots[n].text :
            slots[n].text[x].key = <<slots[n].page, slots[n].figure.key[2], x>> /\ x \in {1, 2}
      BY <1>5, <3>2, SlotsAre
    <3> DEFINE text == texts[k]
    <3>6. \A x \in DOMAIN text : text[x].key[2] = i /\ text[x].key[3] = x /\ x \in {1, 2}
      <4>1. slots[n].figure.key[2] = i
        BY <3>4 DEF l
      <4>2. \A x \in DOMAIN text : text[x].key = <<slots[n].page, i, x>> /\ x \in {1, 2}
        BY <3>2, <3>5, <4>1
      <4> HIDE DEF text
      <4> QED
        BY <4>2
    <3> HIDE DEF text
    <3>7. \A x \in DOMAIN text : /\ text[x].key[2] = i
                                 /\ \A y \in DOMAIN text : x < y => text[x].key[3] <= text[y].key[3]
      <4>1. ASSUME NEW x \in DOMAIN text, NEW y \in DOMAIN text, x < y
            PROVE  text[x].key[3] <= text[y].key[3]
        <5>1. text[x].key[3] = x /\ text[y].key[3] = y /\ x \in {1, 2} /\ y \in {1, 2}
          BY <3>6
        <5>2. x <= y
          BY <4>1, <5>1
        <5> QED
          BY <5>1, <5>2
      <4> QED
        BY <3>6, <4>1
    <3> QED
      BY <3>7 DEF text, k
  <2>7. InOrder(FlattenSeq(m))
    BY <1>2, <1>6, <1>8, <2>5, <2>6, InPlaceInOrder DEF markers
  <2> QED
    BY <1>10, <2>5, <2>7 DEF WithFigures, lines, texts
<1> QED
  BY <1>9, <1>10

\* What becomes of an element in the layout parse or the recovery: itself, or for a figure
\* its words, its marker and its transcription.
DrawnAs(l, e) ==
  IF e.kind \notin Figures THEN l = e
  ELSE l \in {Line("prose", e.key), Line("image", Inside(e, 3))} \cup Elements(Transcription(e))
LayoutLine(l) == l = Blank \/ \E e \in AllOf(printed) : DrawnAs(l, e)

\* The line that is drawn from an element with that last part of the key.
DrawnLine(e, n) ==
  IF e.kind \notin Figures THEN e
  ELSE IF n = 0 THEN Line("prose", e.key)
  ELSE IF n = 3 THEN Line("image", Inside(e, 3)) ELSE Transcription(e)[n]

\* The last part of the key says which it is.
LEMMA DrawnIs ==
  ASSUME NEW e \in Element, NEW l, DrawnAs(l, e)
  PROVE  /\ l.key = <<e.key[1], e.key[2], l.key[3]>> /\ l.key[3] \in 0 .. 3
         /\ l = DrawnLine(e, l.key[3])
         /\ l.kind = "row" => e.kind \in {"row", "chart"}
<1>1. e.key = <<e.key[1], e.key[2], 0>>
  <2> DEFINE v == e.key
  <2>1. v \in Nat \X Nat \X {0}
    BY DEF Element
  <2> HIDE DEF v
  <2>2. v = <<v[1], v[2], 0>>
    BY <2>1
  <2> QED
    BY <2>2 DEF v
<1>2. CASE e.kind \notin Figures
  <2>1. l = e
    BY <1>2 DEF DrawnAs
  <2>2. e.key[3] = 0
    BY <1>1
  <2> QED
    BY <1>1, <1>2, <2>1, <2>2 DEF DrawnLine
<1>3. CASE e.kind \in Figures /\ l = Line("prose", e.key)
  <2>1. l.key = e.key /\ l.kind = "prose"
    BY <1>3 DEF Line
  <2>2. l.key[3] = 0
    BY <1>1, <2>1
  <2> QED
    BY <1>1, <1>3, <2>1, <2>2 DEF DrawnLine
<1>4. CASE e.kind \in Figures /\ l = Line("image", Inside(e, 3))
  <2>1. l.key = <<e.key[1], e.key[2], 3>> /\ l.kind = "image"
    BY <1>4, InsideIs DEF Line
  <2>2. l.key[3] = 3
    BY <2>1
  <2> QED
    BY <1>4, <2>1, <2>2 DEF DrawnLine
<1>5. CASE e.kind \in Figures /\ l \in Elements(Transcription(e))
  <2>1. PICK x \in DOMAIN Transcription(e) : l = Transcription(e)[x]
    BY <1>5 DEF Elements
  <2>2. l.key = <<e.key[1], e.key[2], x>> /\ x \in {1, 2}
    BY <2>1, TranscriptionHas
  <2>3. l.key[3] = x
    BY <2>2
  <2>4. l = DrawnLine(e, l.key[3])
    BY <1>5, <2>1, <2>2, <2>3 DEF DrawnLine
  <2>5. l.kind = "row" => e.kind = "chart"
    <3> SUFFICES ASSUME l.kind = "row", e.kind # "chart" PROVE FALSE
      OBVIOUS
    <3> DEFINE c == Line("prose", Inside(e, 1))
    <3>1. Transcription(e) = <<c>> /\ c.kind = "prose"
      BY DEF Transcription, Line
    <3> HIDE DEF c
    <3>2. l = c
      BY <2>1, <3>1
    <3> QED
      BY <3>1, <3>2
  <2> QED
    BY <2>2, <2>3, <2>4, <2>5
<1> QED
  BY <1>2, <1>3, <1>4, <1>5 DEF DrawnAs

\* Of the elements of a document, a key has one.
LEMMA PrintedKeys ==
  ASSUME DocumentsAssumption, printed \in Printed, NEW e \in AllOf(printed), NEW f \in AllOf(printed)
  PROVE  e \in Element /\ (e.key = f.key => e = f)
<1>1. \A x \in AllOf(printed) : x \in Element
  <2>1. printed \in Seq(Seq(Element))
    BY PrintedIs
  <2>2. Elements(FlattenSeq(printed)) = AllOf(printed) /\ FlattenSeq(printed) \in Seq(Element)
    BY <2>1, ElementsOfFlat
  <2> QED
    BY <2>2, ElementsAreIn
<1>2. ASSUME e.key = f.key PROVE e = f
  <2>1. e.kind = f.kind
    BY <1>2, KeysAre
  <2>2. e \in Element /\ f \in Element
    BY <1>1
  <2> QED
    BY SMTT(20), <1>2, <2>1, <2>2 DEF Element
<1> QED
  BY <1>1, <1>2

\* A key has one line, and rows have a place.
LEMMA LayoutKeys ==
  ASSUME DocumentsAssumption, printed \in Printed, NEW l, NEW m, LayoutLine(l), LayoutLine(m), l.key = m.key
  PROVE  l = m
<1>1. Blank.key[3] = 9
  BY DEF Blank, Line
<1>2. ASSUME NEW e \in AllOf(printed), NEW f \in AllOf(printed), DrawnAs(l, e), DrawnAs(m, f) PROVE l = m
  <2>1. e \in Element /\ f \in Element
    BY PrintedKeys
  <2>2. /\ l.key = <<e.key[1], e.key[2], l.key[3]>> /\ l = DrawnLine(e, l.key[3])
        /\ m.key = <<f.key[1], f.key[2], m.key[3]>> /\ m = DrawnLine(f, m.key[3])
    BY <1>2, <2>1, DrawnIs
  <2>3. e.key = f.key
    <3> DEFINE u == e.key
               v == f.key
               w == l.key[3]
    <3>1. u \in Nat \X Nat \X {0} /\ v \in Nat \X Nat \X {0}
      BY <2>1 DEF Element
    <3>2. <<u[1], u[2], w>> = <<v[1], v[2], w>>
      BY <2>2
    <3> HIDE DEF u, v, w
    <3>3. u = v
      BY <3>1, <3>2
    <3> QED
      BY <3>3 DEF u, v
  <2>4. e = f
    BY <2>3, PrintedKeys
  <2> QED
    BY <2>2, <2>4
<1>3. ASSUME NEW x, NEW e \in AllOf(printed), DrawnAs(x, e) PROVE x.key[3] # 9
  <2>1. e \in Element
    BY PrintedKeys
  <2>2. x.key[3] \in 0 .. 3
    BY <1>3, <2>1, DrawnIs
  <2> QED
    BY <2>2
<1> QED
  BY <1>1, <1>2, <1>3 DEF LayoutLine

\* A row is printed on some page.
LEMMA RowsHavePlaces ==
  ASSUME DocumentsAssumption, printed \in Printed, NEW l, LayoutLine(l), l.kind = "row"
  PROVE  l.key[1] # 0 /\ l.key[3] # 9
<1>1. l # Blank
  BY DEF Blank, Line
<1>2. PICK e \in AllOf(printed) : DrawnAs(l, e)
  BY <1>1 DEF LayoutLine
<1>3. e \in Element
  BY PrintedKeys
<1>4. l.key = <<e.key[1], e.key[2], l.key[3]>> /\ l.key[3] \in 0 .. 3 /\ e.kind \in {"row", "chart"}
  BY <1>2, <1>3, DrawnIs
<1>5. PICK p \in DOMAIN printed : \E i \in DOMAIN printed[p] : e = printed[p][i]
  BY PlaceOf
<1>6. PICK i \in DOMAIN printed[p] : e = printed[p][i]
  BY <1>5
<1>7. e.key = <<p, i, 0>>
  <2>1. printed[p][i].key = <<p, i, 0>> \/ printed[p][i].kind = "prose"
    BY DEF DocumentsAssumption
  <2> QED
    BY <1>4, <1>6, <2>1
<1>8. p # 0
  <2>1. printed \in Seq(Seq(Element))
    BY PrintedIs
  <2> QED
    BY <2>1
<1>9. l.key[1] = p
  BY <1>4, <1>7
<1> QED
  BY <1>4, <1>8, <1>9

\* A transcription is drawn from its figure.
LEMMA SlotLines ==
  ASSUME DocumentsAssumption, printed \in Printed, slots \in Seq(Slot), SlotsTrue,
         NEW n \in DOMAIN slots, NEW l \in Elements(slots[n].text)
  PROVE  LayoutLine(l) /\ l.key[1] = slots[n].page
<1> DEFINE e == slots[n].figure
<1>1. PictureAt(slots[n])
  BY SlotsAre
<1>2. e \in AllOf(printed) /\ e.kind \in Figures
  BY <1>1, OfAll DEF PictureAt
<1>3. slots[n].text \in {<<>>, Transcription(e)}
  BY DEF SlotsTrue
<1>4. PICK x \in DOMAIN slots[n].text : l = slots[n].text[x]
  BY DEF Elements
<1>5. l.key = <<slots[n].page, slots[n].figure.key[2], x>>
  BY <1>4, SlotsAre
<1> HIDE DEF e
<1>6. slots[n].text = Transcription(e)
  <2>1. slots[n].text # <<>>
    BY <1>4
  <2> QED
    BY <1>3, <2>1
<1>7. l \in Elements(Transcription(e))
  BY <1>6
<1>8. DrawnAs(l, e)
  BY <1>2, <1>7 DEF DrawnAs
<1> QED
  BY <1>2, <1>5, <1>8 DEF LayoutLine

\* The texts of a page are drawn from figures of that page.
LEMMA TextsOfDrawn ==
  ASSUME DocumentsAssumption, printed \in Printed, slots \in Seq(Slot), SlotsTrue
  PROVE  /\ \A p : \A l \in AllOf(TextsOf(p)) : LayoutLine(l) /\ l.key[1] = p
         /\ \A l \in AllOf([n \in DOMAIN slots |-> slots[n].text]) : LayoutLine(l)
<1>1. ASSUME NEW p, NEW l \in AllOf(TextsOf(p)) PROVE LayoutLine(l) /\ l.key[1] = p
  <2> DEFINE texts == TextsOf(p)
  <2>1. PICK k \in DOMAIN texts : l \in Elements(texts[k])
    BY <1>1, Zenon DEF AllOf
  <2> DEFINE n == Ith(Own(p), k)
  <2>2. n \in Own(p) /\ texts[k] = slots[n].text
    BY <2>1, TextsOfPlaces
  <2> HIDE DEF n, texts
  <2>3. n \in DOMAIN slots /\ slots[n].page = p
    BY <2>2 DEF Own
  <2>4. l \in Elements(slots[n].text)
    BY <2>1, <2>2
  <2> QED
    BY <2>3, <2>4, SlotLines
<1>2. ASSUME NEW l \in AllOf([n \in DOMAIN slots |-> slots[n].text]) PROVE LayoutLine(l)
  <2> DEFINE texts == [n \in DOMAIN slots |-> slots[n].text]
  <2>1. PICK k \in DOMAIN texts : l \in Elements(texts[k])
    BY <1>2, Zenon DEF AllOf
  <2>2. k \in DOMAIN slots /\ l \in Elements(slots[k].text)
    BY <2>1
  <2> QED
    BY <2>2, SlotLines
<1> QED
  BY <1>1, <1>2

\* A page with its figures: its lines are drawn from what is printed, rows stay on one line
\* each, and only markers give way.
LEMMA WithFiguresPlaces ==
  ASSUME DocumentsAssumption, printed \in Printed,
         NEW elements \in Seq(Element), Elements(elements) \subseteq AllOf(printed), RowsOnce(elements),
         NEW texts, InsideTexts(texts), \A l \in AllOf(texts) : LayoutLine(l)
  PROVE  LET page == WithFigures(Exported(elements), texts)
         IN  /\ RowsOnce(page)
             /\ \A l \in Elements(page) : /\ LayoutLine(l)
                                          /\ \/ l = Blank \/ l \in AllOf(texts)
                                             \/ \E e \in Elements(elements) : DrawnAs(l, e)
             /\ \A e \in Elements(elements) : e.kind \notin Figures => e \in Elements(page)
<1> DEFINE lines == Exported(elements)
           page == WithFigures(lines, texts)
<1>1. /\ lines \in Seq(AnyLine)
      /\ \A l \in Elements(lines) : \E e \in Elements(elements) :
           IF e.kind \in Figures THEN l = Line("image", Inside(e, 3)) ELSE l = e
      /\ \A e \in Elements(elements) : e.kind \notin Figures => e \in Elements(lines)
      /\ RowsOnce(lines)
  BY ExportedPlaces, ExportedIs
<1>2. texts \in Seq(Seq(AnyLine))
  BY TextsAreLines DEF InsideTexts
<1> HIDE DEF lines
<1>3. \A e \in Elements(elements) : e \in Element
  BY ElementsAreIn
<1>4. ASSUME NEW l \in Elements(lines)
      PROVE  (\E e \in Elements(elements) : DrawnAs(l, e)) /\ LayoutLine(l)
  <2>1. PICK e \in Elements(elements) : IF e.kind \in Figures THEN l = Line("image", Inside(e, 3)) ELSE l = e
    BY <1>1
  <2>2. DrawnAs(l, e) /\ e \in AllOf(printed)
    BY <2>1 DEF DrawnAs
  <2> QED
    BY <2>2 DEF LayoutLine
<1>5. LayoutOnly(lines)
  <2>1. ASSUME NEW l \in Elements(lines) PROVE l.key[3] \in {0, 3} /\ (l.kind = "row" => l.key[3] = 0)
    <3>1. PICK e \in Elements(elements) : IF e.kind \in Figures THEN l = Line("image", Inside(e, 3)) ELSE l = e
      BY <1>1
    <3>2. e.key \in Nat \X Nat \X {0}
      BY <1>3 DEF Element
    <3>3. CASE e.kind \in Figures
      <4>1. l.key = Inside(e, 3) /\ l.kind = "image"
        BY <3>1, <3>3 DEF Line
      <4>2. Inside(e, 3) = <<e.key[1], e.key[2], 3>>
        BY <1>3, InsideIs
      <4> QED
        BY <4>1, <4>2
    <3>4. CASE e.kind \notin Figures
      <4> DEFINE v == e.key
      <4>1. v \in Nat \X Nat \X {0} /\ l.key = v
        BY <3>1, <3>2, <3>4
      <4> HIDE DEF v
      <4>2. v[3] = 0
        BY <4>1
      <4> QED
        BY <4>1, <4>2
    <3> QED
      BY <3>3, <3>4
  <2> QED
    BY <2>1 DEF LayoutOnly
<1>6. CASE texts = <<>>
  <2>1. page = lines
    BY <1>6 DEF WithFigures
  <2> HIDE DEF page
  <2>2. /\ RowsOnce(page)
        /\ \A l \in Elements(page) : LayoutLine(l) /\ \E e \in Elements(elements) : DrawnAs(l, e)
        /\ \A e \in Elements(elements) : e.kind \notin Figures => e \in Elements(page)
    BY <1>1, <1>4, <2>1
  <2> QED
    BY <2>2 DEF page, lines
<1>7. CASE texts # <<>>
  <2>1. page = Inject(lines, texts)
    BY <1>7 DEF WithFigures
  <2> HIDE DEF page
  <2>2. RowsOnce(page) /\ \A l \in Elements(lines) : l.kind # "image" => l \in Elements(page)
    BY <1>1, <1>5, <2>1, InjectOnce
  <2>3. \A l \in Elements(page) : l = Blank \/ l \in Elements(lines) \/ l \in AllOf(texts)
    BY <1>1, <1>2, <2>1, InjectIs
  <2>4. ASSUME NEW l \in Elements(page)
        PROVE  /\ LayoutLine(l)
               /\ l = Blank \/ l \in AllOf(texts) \/ \E e \in Elements(elements) : DrawnAs(l, e)
    <3>1. CASE l = Blank
      BY <3>1 DEF LayoutLine
    <3>2. CASE l \in AllOf(texts)
      BY <3>2
    <3>3. CASE l \in Elements(lines)
      BY <1>4, <3>3
    <3> QED
      BY <2>3, <3>1, <3>2, <3>3
  <2>5. ASSUME NEW e \in Elements(elements), e.kind \notin Figures PROVE e \in Elements(page)
    <3>1. e.kind # "image"
      BY <1>3 DEF Element, ElementKinds
    <3> QED
      BY <1>1, <2>2, <2>5, <3>1
  <2> QED
    BY <2>2, <2>4, <2>5 DEF page, lines
<1> QED
  BY <1>6, <1>7

\* What a line is drawn from is on the same page, or a running header.
LEMMA DrawnOnPage ==
  ASSUME DocumentsAssumption, printed \in Printed, NEW p \in DOMAIN printed,
         NEW e \in Elements(printed[p]), NEW l, DrawnAs(l, e)
  PROVE  e \in AllOf(printed) /\ l.key[1] \in {0, p}
<1>1. e \in AllOf(printed)
  BY DEF AllOf
<1>2. e \in Element
  BY <1>1, PrintedKeys
<1>3. l.key = <<e.key[1], e.key[2], l.key[3]>>
  BY <1>2, DrawnIs
<1>4. PICK i \in DOMAIN printed[p] : e = printed[p][i]
  BY DEF Elements
<1>5. printed[p][i].key = <<p, i, 0>> \/ printed[p][i].key[1] = 0
  BY DEF DocumentsAssumption
<1>6. e.key[1] \in {0, p}
  BY <1>4, <1>5
<1>7. l.key[1] = e.key[1]
  BY <1>3
<1> QED
  BY <1>1, <1>6, <1>7

\* The pages of the layout parse.
LEMMA ExportPlaces ==
  ASSUME DocumentsAssumption, printed \in Printed, slots \in Seq(Slot), SlotsTrue, Export,
         paginated \in BOOLEAN, parsing = "export" => slots = <<>>
  PROVE  /\ \A l \in AllOf(pages') : LayoutLine(l)
         /\ \A p \in DOMAIN pages' : RowsOnce(pages'[p])
         /\ Len(pages') > 1 => /\ Len(pages') = Len(printed)
                               /\ \A p \in DOMAIN pages' : \A l \in Elements(pages'[p]) : l.key[1] \in {0, p}
         /\ \A p \in DOMAIN printed : \A e \in Elements(printed[p]) : e.kind = "heading" =>
              e \in AllOf(pages') /\ (Len(pages') = Len(printed) => e \in Elements(pages'[p]))
         /\ paginated => \A p \in DOMAIN pages' :
              (\A i \in DOMAIN printed[p] : printed[p][i].kind # "unmarked") => InOrder(pages'[p])
<1>1. printed \in Seq(Seq(Element))
  BY PrintedIs
<1>2. DOMAIN printed = 1 .. Len(printed) /\ Len(printed) \in Nat
  BY <1>1
<1>3. "heading" \notin Figures
  BY DEF Figures
<1>4. Blank.key[1] = 0
  BY DEF Blank, Line
<1>5. CASE paginated
  <2> DEFINE of(p) == WithFigures(Exported(printed[p]), TextsOf(p))
  <2>1. pages' = [p \in DOMAIN printed |-> of(p)]
    BY <1>5 DEF Export, WithFigures
  <2>2. ASSUME NEW p \in DOMAIN printed
        PROVE  /\ RowsOnce(of(p))
               /\ \A l \in Elements(of(p)) : LayoutLine(l) /\ l.key[1] \in {0, p}
               /\ \A e \in Elements(printed[p]) : e.kind \notin Figures => e \in Elements(of(p))
               /\ (\A i \in DOMAIN printed[p] : printed[p][i].kind # "unmarked") => InOrder(of(p))
    <3> DEFINE s == printed[p]
               t == TextsOf(p)
               page == WithFigures(Exported(s), t)
    <3>1. s \in Seq(Element)
      <4> DEFINE S == Seq(Element)
      <4>1. printed \in Seq(S)
        BY <1>1
      <4> HIDE DEF S
      <4>2. printed[p] \in S
        BY <4>1
      <4> QED
        BY <4>2 DEF S
    <3>2. Elements(s) \subseteq AllOf(printed)
      BY DEF AllOf
    <3>3. RowsOnce(s)
      BY PrintedOnce
    <3>4. InsideTexts(t) /\ \A l \in AllOf(t) : LayoutLine(l) /\ l.key[1] = p
      BY TextsOfInside, TextsOfDrawn
    <3>5. (\A i \in DOMAIN s : s[i].kind # "unmarked") => InOrder(page)
      <4>1. Len(slots) = Len(Pictures) \/ slots = <<>>
        BY DEF Export
      <4> QED
        BY <4>1, PageInOrder
    <3> HIDE DEF t
    <3>6. /\ RowsOnce(page)
          /\ \A l \in Elements(page) : /\ LayoutLine(l)
                                       /\ \/ l = Blank \/ l \in AllOf(t)
                                          \/ \E e \in Elements(s) : DrawnAs(l, e)
          /\ \A e \in Elements(s) : e.kind \notin Figures => e \in Elements(page)
      BY <3>1, <3>2, <3>3, <3>4, WithFiguresPlaces
    <3> HIDE DEF page
    <3>7. \A l \in Elements(page) : l.key[1] \in {0, p}
      <4> SUFFICES ASSUME NEW l \in Elements(page) PROVE l.key[1] \in {0, p}
        OBVIOUS
      <4>1. CASE l = Blank
        BY <1>4, <4>1
      <4>2. CASE l \in AllOf(t)
        BY <3>4, <4>2
      <4>3. CASE \E e \in Elements(s) : DrawnAs(l, e)
        BY <4>3, DrawnOnPage
      <4> QED
        BY <3>6, <4>1, <4>2, <4>3
    <3> QED
      BY <3>5, <3>6, <3>7 DEF page, t
  <2> HIDE DEF of
  <2>3. DOMAIN pages' = DOMAIN printed /\ \A p \in DOMAIN printed : pages'[p] = of(p)
    BY <2>1
  <2>4. Len(pages') = Len(printed)
    <3> DEFINE k == Len(printed)
    <3>1. k \in Nat /\ DOMAIN pages' = 1 .. k /\ pages' = [p \in 1 .. k |-> of(p)]
      BY <1>2, <2>1
    <3> HIDE DEF k
    <3> QED
      BY <3>1 DEF k
  <2>5. ASSUME NEW l \in AllOf(pages') PROVE LayoutLine(l)
    <3>1. PICK p \in DOMAIN printed : l \in Elements(pages'[p])
      BY <2>3, Zenon DEF AllOf
    <3> QED
      BY <2>2, <2>3, <3>1
  <2>6. ASSUME NEW p \in DOMAIN printed, NEW e \in Elements(printed[p]), e.kind = "heading"
        PROVE  e \in AllOf(pages') /\ e \in Elements(pages'[p])
    <3>1. e \in Elements(pages'[p])
      BY <1>3, <2>2, <2>3, <2>6
    <3> QED
      BY <2>3, <3>1 DEF AllOf
  <2>7. \A p \in DOMAIN pages' : /\ RowsOnce(pages'[p])
                                 /\ \A l \in Elements(pages'[p]) : l.key[1] \in {0, p}
                                 /\ (\A i \in DOMAIN printed[p] : printed[p][i].kind # "unmarked") => InOrder(pages'[p])
    BY <2>2, <2>3
  <2> QED
    BY <2>4, <2>5, <2>6, <2>7
<1>6. CASE ~paginated
  <2> DEFINE s == FlattenSeq(printed)
             t == [n \in DOMAIN slots |-> slots[n].text]
             page == WithFigures(Exported(s), t)
  <2>1. pages' = <<page>>
    BY <1>6 DEF Export, WithFigures
  <2>2. s \in Seq(Element) /\ Elements(s) = AllOf(printed)
    BY <1>1, ElementsOfFlat
  <2>3. RowsOnce(s)
    BY PrintedOnce
  <2>4. InsideTexts(t) /\ \A l \in AllOf(t) : LayoutLine(l)
    BY AllTextsInside, TextsOfDrawn
  <2> HIDE DEF s, t
  <2>5. /\ RowsOnce(page)
        /\ \A l \in Elements(page) : LayoutLine(l)
        /\ \A e \in Elements(s) : e.kind \notin Figures => e \in Elements(page)
    BY <2>2, <2>3, <2>4, WithFiguresPlaces
  <2> HIDE DEF page
  <2>6. DOMAIN pages' = {1} /\ Len(pages') = 1 /\ pages'[1] = page
    BY <2>1
  <2>7. AllOf(pages') = Elements(page)
    BY <2>6 DEF AllOf
  <2>8. ASSUME NEW p \in DOMAIN printed, NEW e \in Elements(printed[p]), e.kind = "heading"
        PROVE  e \in AllOf(pages') /\ (Len(pages') = Len(printed) => e \in Elements(pages'[p]))
    <3>1. e \in AllOf(printed)
      BY DEF AllOf
    <3>2. e \in Elements(page)
      BY <1>3, <2>2, <2>5, <2>8, <3>1
    <3>3. Len(printed) = 1 => p = 1
      BY <1>2
    <3> QED
      BY <2>6, <2>7, <3>2, <3>3
  <2> QED
    BY <1>6, <2>5, <2>6, <2>7, <2>8
<1> QED
  BY <1>5, <1>6

\* Pages whose lines are drawn from what is printed: on their page, rows on one line each.
Drawn(texts) ==
  /\ \A l \in AllOf(texts) : LayoutLine(l)
  /\ \A p \in DOMAIN texts : RowsOnce(texts[p])
  /\ Len(texts) > 1 => /\ Len(texts) = Len(printed)
                       /\ \A p \in DOMAIN texts : \A l \in Elements(texts[p]) : l.key[1] \in {0, p}

\* No heading is missing.
Headed(texts) ==
  \A p \in DOMAIN printed : \A e \in Elements(printed[p]) : e.kind = "heading" =>
    e \in AllOf(texts) /\ (Len(texts) = Len(printed) => e \in Elements(texts[p]))

\* What the recovery adds are lines of letters of the text layer that the page lacks.
LEMMA DroppedHas ==
  ASSUME NEW lines \in Seq(AnyLine), NEW texts \in Seq(AnyLine), NEW headers,
         NEW x \in Elements(Dropped(lines, texts, headers))
  PROVE  x \in Elements(texts) /\ Lettered(x) /\ x.key \notin Keys(lines)
<1> DEFINE T == AnyLine
           I == {i \in DOMAIN texts : /\ Lettered(texts[i])
                                      /\ texts[i].key \notin headers \cup Keys(lines)
                                      /\ \A j \in 1 .. i - 1 : texts[j].key # texts[i].key}
<1>1. Dropped(lines, texts, headers) = Picked(texts, I)
  BY DEF Dropped
<1>2. I \in SUBSET DOMAIN texts /\ \A i \in I : Lettered(texts[i]) /\ texts[i].key \notin Keys(lines)
  OBVIOUS
<1> HIDE DEF I, T
<1>3. Elements(Picked(texts, I)) = {texts[i] : i \in I}
  BY <1>2, ElementsOfPicked DEF T
<1>4. PICK i \in I : x = texts[i]
  BY <1>1, <1>3
<1> QED
  BY <1>2, <1>4 DEF Elements

\* Adding them puts no row on two lines.
LEMMA Append2Once ==
  ASSUME NEW lines \in Seq(AnyLine), NEW extra \in Seq(AnyLine), RowsOnce(lines),
         \A l \in Elements(lines) : l.kind = "row" => l.key[3] # 9,
         \A x \in Elements(extra) : Lettered(x) /\ x.key \notin Keys(lines)
  PROVE  RowsOnce(Append2(lines, extra))
<1> DEFINE T == AnyLine
           b == <<Blank>>
           s == lines \o b
<1>1. Append2(lines, extra) = IF extra = <<>> THEN lines ELSE s \o extra
  BY DEF Append2
<1>2. Blank \in T /\ Blank.kind = "blank" /\ Blank.key[3] = 9
  BY DEF Blank, Line, AnyLine, ElementKinds
<1> HIDE DEF T, Blank
<1>3. b \in Seq(T) /\ Elements(b) = {Blank} /\ DOMAIN b = {1}
  BY <1>2 DEF Elements
<1> HIDE DEF b
<1>4. RowsOnce(b)
  BY <1>3 DEF RowsOnce
<1>5. lines \in Seq(T) /\ extra \in Seq(T)
  BY DEF T
<1>6. \A k \in Elements(lines), l \in Elements(b) : k.key = l.key => k.kind # "row" /\ l.kind # "row"
  BY <1>2, <1>3
<1>7. s \in Seq(T) /\ Elements(s) = Elements(lines) \cup {Blank} /\ RowsOnce(s)
  BY <1>3, <1>4, <1>5, <1>6, ElementsOfConcat, ConcatOnce
<1> HIDE DEF s
<1>8. \A x \in Elements(extra) : x.kind # "row"
  BY DEF Lettered
<1>9. RowsOnce(extra)
  BY <1>8 DEF RowsOnce, Elements
<1>10. \A k \in Elements(s), l \in Elements(extra) : k.key = l.key => k.kind # "row" /\ l.kind # "row"
  <2> SUFFICES ASSUME NEW k \in Elements(s), NEW l \in Elements(extra), k.key = l.key
               PROVE  k.kind # "row" /\ l.kind # "row"
    OBVIOUS
  <2>1. CASE k \in Elements(lines)
    <3>1. k.key \in Keys(lines)
      BY <2>1, KeysOf
    <3> QED
      BY <3>1
  <2>2. CASE k = Blank
    BY <1>2, <1>8, <2>2
  <2> QED
    BY <1>7, <2>1, <2>2
<1>11. RowsOnce(s \o extra)
  BY <1>5, <1>7, <1>9, <1>10, ConcatOnce
<1> QED
  BY <1>1, <1>11

\* The text layer of a page.
LEMMA FlatOfPage ==
  ASSUME DocumentsAssumption, printed \in Printed, NEW p \in DOMAIN printed, NEW x \in Elements(Flat[p])
  PROVE  /\ x \in AnyLine
         /\ \E e \in Elements(printed[p]) : /\ x.key = e.key /\ x.kind = LayerKind(e.kind)
                                            /\ e \in Element /\ e \in AllOf(printed)
<1> DEFINE s == printed[p]
<1>1. s \in Seq(Element)
  <2> DEFINE S == Seq(Element)
  <2>1. printed \in Seq(S)
    BY PrintedIs
  <2> HIDE DEF S
  <2>2. printed[p] \in S
    BY <2>1
  <2> QED
    BY <2>2 DEF S
<1>2. Flat[p] = TextLayer(s)
  BY DEF Flat
<1> HIDE DEF s
<1>3. /\ TextLayer(s) \in Seq(AnyLine)
      /\ \A l \in Elements(TextLayer(s)) :
           \E e \in Elements(s) : l.key = e.key /\ l.kind = LayerKind(e.kind) /\ e.kind # "blank"
  BY <1>1, TextLayerIs
<1>4. x \in AnyLine
  BY <1>2, <1>3, ElementsAreIn
<1>5. PICK e \in Elements(s) : x.key = e.key /\ x.kind = LayerKind(e.kind)
  BY <1>2, <1>3
<1>6. e \in AllOf(printed)
  BY <1>5 DEF AllOf, s
<1>7. e \in Element
  BY <1>6, PrintedKeys
<1> QED
  BY <1>4, <1>5, <1>6, <1>7 DEF s

\* A line that the recovery adds is drawn from an element of its page, when no heading is missing.
LEMMA RecoveredDrawn ==
  ASSUME DocumentsAssumption, printed \in Printed, NEW p \in DOMAIN printed,
         NEW x \in Elements(Flat[p]), Lettered(x),
         \A e \in Elements(printed[p]) : e.kind = "heading" => x.key # e.key
  PROVE  \E e \in Elements(printed[p]) : e \in AllOf(printed) /\ DrawnAs(x, e)
<1>1. PICK e \in Elements(printed[p]) : /\ x.key = e.key /\ x.kind = LayerKind(e.kind)
                                        /\ e \in Element /\ e \in AllOf(printed)
  BY FlatOfPage
<1>2. x \in AnyLine
  BY FlatOfPage
<1>3. e.kind # "heading"
  BY <1>1
<1>4. CASE e.kind \in Figures
  <2>1. x.kind = "prose"
    BY <1>1, <1>4 DEF LayerKind, Figures
  <2>2. x = Line("prose", e.key)
    BY <1>1, <1>2, <2>1 DEF Line, AnyLine
  <2> QED
    BY <1>1, <1>4, <2>2 DEF DrawnAs
<1>5. CASE e.kind \notin Figures
  <2>1. LayerKind(e.kind) = IF e.kind = "row" THEN "number" ELSE e.kind
    BY <1>3, <1>5 DEF LayerKind
  <2>2. x.kind = e.kind
    BY <1>1, <2>1 DEF Lettered
  <2>3. x = e
    BY <1>1, <1>2, <2>2 DEF Element, AnyLine
  <2> QED
    BY <1>1, <1>5, <2>3 DEF DrawnAs
<1> QED
  BY <1>4, <1>5

\* What the recovery adds is drawn too, and adds no row.
LEMMA RecoverPlaces ==
  ASSUME DocumentsAssumption, printed \in Printed, pages \in PageTexts,
         pages # <<>> \/ Len(pages) = Len(printed), Drawn(pages), Headed(pages)
  PROVE  Drawn(Recovered(pages, Flat))
<1> DEFINE after == Recovered(pages, Flat)
           S == Seq(AnyLine)
<1>1. /\ Flat \in PageTexts /\ Len(Flat) = Len(printed) /\ DOMAIN Flat = DOMAIN printed
      /\ DOMAIN printed = 1 .. Len(printed) /\ Len(printed) \in Nat
  <2>1. Flat \in PageTexts /\ Len(Flat) = Len(printed)
    BY LayerKeysAre
  <2>2. DOMAIN Flat = DOMAIN printed
    BY DEF Flat
  <2>3. printed \in Seq(Seq(Element))
    BY PrintedIs
  <2> QED
    BY <2>1, <2>2, <2>3
<1>2. /\ pages \in Seq(S) /\ DOMAIN pages = 1 .. Len(pages) /\ Len(pages) \in Nat
      /\ \A p \in DOMAIN pages : pages[p] \in S
  <2>1. pages \in Seq(S)
    BY DEF PageTexts
  <2> HIDE DEF S
  <2> QED
    BY <2>1
<1>3. ASSUME NEW p \in DOMAIN Flat PROVE Flat[p] \in Seq(AnyLine)
  <2>1. Flat \in Seq(S)
    BY <1>1 DEF PageTexts
  <2> HIDE DEF S
  <2>2. Flat[p] \in S
    BY <2>1
  <2> QED
    BY <2>2 DEF S
<1>4. ASSUME NEW lines \in Seq(AnyLine), \A l \in Elements(lines) : LayoutLine(l), RowsOnce(lines),
             NEW extra \in Seq(AnyLine),
             \A x \in Elements(extra) : LayoutLine(x) /\ Lettered(x) /\ x.key \notin Keys(lines)
      PROVE  /\ RowsOnce(Append2(lines, extra))
             /\ \A l \in Elements(Append2(lines, extra)) :
                  LayoutLine(l) /\ (l = Blank \/ l \in Elements(lines) \/ l \in Elements(extra))
  <2>1. \A l \in Elements(lines) : l.kind = "row" => l.key[3] # 9
    BY <1>4, RowsHavePlaces
  <2>2. RowsOnce(Append2(lines, extra))
    BY <1>4, <2>1, Append2Once
  <2>3. Elements(Append2(lines, extra)) \subseteq Elements(lines) \cup Elements(extra) \cup {Blank}
    BY Append2Is
  <2>4. LayoutLine(Blank)
    BY DEF LayoutLine
  <2> QED
    BY <1>4, <2>2, <2>3, <2>4
<1>5. \A x \in AllOf(Flat), y \in AllOf(Flat) : x.key = y.key => x.kind = y.kind
  BY LayerKeysAre
<1>6. CASE Len(pages) = Len(Flat)
  <2> DEFINE of(p) == Append2(pages[p], Dropped(pages[p], Flat[p], Repeated(Flat)))
  <2>1. after = [p \in DOMAIN pages |-> of(p)]
    BY <1>6 DEF Recovered
  <2>2. DOMAIN pages = DOMAIN printed
    BY <1>1, <1>2, <1>6
  <2>3. ASSUME NEW p \in DOMAIN pages
        PROVE  /\ RowsOnce(of(p))
               /\ \A l \in Elements(of(p)) : /\ LayoutLine(l)
                                             /\ Len(pages) > 1 => l.key[1] \in {0, p}
    <3> DEFINE lines == pages[p]
               layer == Flat[p]
               extra == Dropped(lines, layer, Repeated(Flat))
    <3>1. lines \in Seq(AnyLine) /\ layer \in Seq(AnyLine)
      BY <1>1, <1>2, <1>3, <2>2
    <3>2. RowsOnce(lines) /\ \A l \in Elements(lines) : LayoutLine(l)
      BY Zenon DEF Drawn, AllOf
    <3>3. Elements(layer) \subseteq AllOf(Flat)
      BY <1>1, <2>2 DEF AllOf
    <3>4. p \in DOMAIN printed /\ Len(pages) = Len(printed)
      BY <1>1, <1>6, <2>2
    <3> DEFINE R == Repeated(Flat)
    <3> HIDE DEF R
    <3>5. Dropped(lines, layer, R) \in Seq(AnyLine)
      <4> HIDE DEF lines, layer
      <4>1. \A x, y \in Elements(layer) : x.key = y.key => x.kind = y.kind
        BY <1>5, <3>3
      <4> QED
        BY <3>1, <4>1, DroppedIs
    <3>6. ASSUME NEW x \in Elements(extra)
          PROVE  /\ Lettered(x) /\ x.key \notin Keys(lines)
                 /\ \E e \in Elements(printed[p]) : e \in AllOf(printed) /\ DrawnAs(x, e)
      <4>1. x \in Elements(layer) /\ Lettered(x) /\ x.key \notin Keys(lines)
        BY <3>1, DroppedHas
      <4>2. \A e \in Elements(printed[p]) : e.kind = "heading" => x.key # e.key
        <5> SUFFICES ASSUME NEW e \in Elements(printed[p]), e.kind = "heading" PROVE x.key # e.key
          OBVIOUS
        <5>1. e \in Elements(lines)
          BY <3>4 DEF Headed
        <5>2. e.key \in Keys(lines)
          BY <5>1, KeysOf
        <5> QED
          BY <4>1, <5>2
      <4> QED
        BY <3>4, <4>1, <4>2, RecoveredDrawn
    <3>7. \A x \in Elements(extra) : LayoutLine(x)
      BY <3>6 DEF LayoutLine
    <3>8. \A x \in Elements(extra) : x.key[1] \in {0, p}
      BY <3>4, <3>6, DrawnOnPage
    <3>9. Len(pages) > 1 => \A l \in Elements(lines) : l.key[1] \in {0, p}
      BY DEF Drawn
    <3>10. Blank.key[1] = 0
      BY DEF Blank, Line
    <3>11. extra \in Seq(AnyLine)
      BY <3>5 DEF R
    <3> HIDE DEF lines, layer, extra
    <3>12. /\ RowsOnce(Append2(lines, extra))
           /\ \A l \in Elements(Append2(lines, extra)) :
                LayoutLine(l) /\ (l = Blank \/ l \in Elements(lines) \/ l \in Elements(extra))
      BY <1>4, <3>1, <3>2, <3>6, <3>7, <3>11
    <3>13. \A l \in Elements(Append2(lines, extra)) : Len(pages) > 1 => l.key[1] \in {0, p}
      BY <3>8, <3>9, <3>10, <3>12
    <3> QED
      BY <3>12, <3>13 DEF lines, layer, extra
  <2> HIDE DEF of
  <2>4. DOMAIN after = DOMAIN pages /\ \A p \in DOMAIN after : after[p] = of(p)
    BY <2>1
  <2>5. Len(after) = Len(pages)
    <3> DEFINE k == Len(pages)
    <3>1. k \in Nat /\ DOMAIN after = 1 .. k /\ after = [p \in 1 .. k |-> of(p)]
      BY <1>2, <2>1
    <3> HIDE DEF k, after
    <3> QED
      BY <3>1 DEF k
  <2> HIDE DEF after
  <2>6. \A l \in AllOf(after) : LayoutLine(l)
    <3> SUFFICES ASSUME NEW l \in AllOf(after) PROVE LayoutLine(l)
      OBVIOUS
    <3>1. PICK p \in DOMAIN after : l \in Elements(after[p])
      BY Zenon DEF AllOf
    <3> QED
      BY <2>3, <2>4, <3>1
  <2>7. Drawn(after)
    BY <1>1, <1>6, <2>3, <2>4, <2>5, <2>6 DEF Drawn
  <2> QED
    BY <2>7 DEF after
<1>7. CASE Len(pages) # Len(Flat)
  <2> DEFINE k == Len(pages)
             all == FlattenSeq(pages)
             layer == FlattenSeq(Flat)
             extra == Dropped(all, layer, {})
             last == Append2(pages[1], extra)
  <2>1. k = 1 /\ DOMAIN pages = {1}
    <3>1. pages # <<>> /\ ~(k > 1)
      BY <1>1, <1>7 DEF Drawn
    <3> QED
      BY <1>2, <3>1
  <2>2. after = [pages EXCEPT ![1] = last]
    BY <1>7, <2>1 DEF Recovered
  <2>3. all \in Seq(AnyLine) /\ Elements(all) = AllOf(pages)
    BY <1>2, ElementsOfFlat
  <2>4. layer \in Seq(AnyLine) /\ Elements(layer) = AllOf(Flat)
    BY <1>1, ElementsOfFlat DEF PageTexts
  <2>5. pages[1] \in Seq(AnyLine) /\ RowsOnce(pages[1]) /\ Elements(pages[1]) \subseteq AllOf(pages)
    BY <1>2, <2>1 DEF Drawn, AllOf
  <2>6. \A l \in AllOf(pages) : LayoutLine(l)
    BY DEF Drawn
  <2> HIDE DEF all, layer
  <2>7. extra \in Seq(AnyLine)
    <3>1. \A x, y \in Elements(layer) : x.key = y.key => x.kind = y.kind
      BY <1>5, <2>4
    <3> DEFINE none == {}
    <3> HIDE DEF none
    <3>2. Dropped(all, layer, none) \in Seq(AnyLine)
      BY <2>3, <2>4, <3>1, DroppedIs
    <3> QED
      BY <3>2 DEF none
  <2>8. ASSUME NEW x \in Elements(extra) PROVE LayoutLine(x) /\ Lettered(x) /\ x.key \notin Keys(pages[1])
    <3>1. x \in Elements(layer) /\ Lettered(x) /\ x.key \notin Keys(all)
      BY <2>3, <2>4, DroppedHas
    <3>2. PICK p \in DOMAIN Flat : x \in Elements(Flat[p])
      BY <2>4, <3>1, Zenon DEF AllOf
    <3>3. p \in DOMAIN printed
      BY <1>1, <3>2
    <3>4. \A e \in Elements(printed[p]) : e.kind = "heading" => x.key # e.key
      <4> SUFFICES ASSUME NEW e \in Elements(printed[p]), e.kind = "heading" PROVE x.key # e.key
        OBVIOUS
      <4>1. e \in Elements(all)
        BY <2>3, <3>3 DEF Headed
      <4>2. e.key \in Keys(all)
        BY <4>1, KeysOf
      <4> QED
        BY <3>1, <4>2
    <3>5. LayoutLine(x)
      BY <3>1, <3>2, <3>3, <3>4, RecoveredDrawn DEF LayoutLine
    <3>6. x.key \notin Keys(pages[1])
      <4> SUFFICES ASSUME x.key \in Keys(pages[1]) PROVE FALSE
        OBVIOUS
      <4>1. PICK i \in DOMAIN pages[1] : x.key = pages[1][i].key
        BY DEF Keys
      <4>2. pages[1][i] \in Elements(all)
        BY <2>3, <2>5, <4>1 DEF Elements
      <4> QED
        BY <3>1, <4>1, <4>2, KeysOf
    <3> QED
      BY <3>1, <3>5, <3>6
  <2> HIDE DEF extra
  <2>9. RowsOnce(last) /\ \A l \in Elements(last) : LayoutLine(l)
    BY <1>4, <2>5, <2>6, <2>7, <2>8
  <2> HIDE DEF last
  <2>10. DOMAIN after = {1} /\ after[1] = last
    BY <2>1, <2>2
  <2>11. Len(after) = 1
    <3>1. after \in PageTexts
      BY <1>1, <1>5, RecoveredIs
    <3> HIDE DEF after
    <3>2. DOMAIN after = 1 .. Len(after) /\ Len(after) \in Nat
      BY <3>1 DEF PageTexts
    <3> QED
      BY <2>10, <3>2
  <2> HIDE DEF after
  <2>12. AllOf(after) = Elements(last)
    BY <2>10 DEF AllOf
  <2>13. Drawn(after)
    BY <2>9, <2>10, <2>11, <2>12 DEF Drawn
  <2> QED
    BY <2>13 DEF after
<1> QED
  BY <1>6, <1>7

\* The heading of a text is its last one.
LEMMA HeadingLast ==
  ASSUME NEW T, NEW lines \in Seq(T), NEW before
  PROVE  /\ (\A i \in DOMAIN lines : lines[i].kind # "heading") => HeadingOf(lines, before) = before
         /\ \A k \in DOMAIN lines :
              lines[k].kind = "heading" /\ (\A i \in DOMAIN lines : k < i => lines[i].kind # "heading") =>
                HeadingOf(lines, before) = lines[k].key
<1> DEFINE H == OfKind(lines, {"heading"})
           m == Ith(H, Cardinality(H))
<1>1. H \in SUBSET DOMAIN lines /\ H \in SUBSET Nat /\ IsFiniteSet(H)
  BY MarkersAre
<1>2. \A i \in DOMAIN lines : i \in H <=> lines[i].kind = "heading"
  BY DEF OfKind
<1>3. HeadingOf(lines, before) = IF H = {} THEN before ELSE lines[m].key
  BY DEF HeadingOf
<1> HIDE DEF H
<1>4. ASSUME \A i \in DOMAIN lines : lines[i].kind # "heading" PROVE HeadingOf(lines, before) = before
  <2>1. H = {}
    BY <1>1, <1>2, <1>4
  <2> QED
    BY <1>3, <2>1
<1>5. ASSUME NEW k \in DOMAIN lines, lines[k].kind = "heading",
             \A i \in DOMAIN lines : k < i => lines[i].kind # "heading"
      PROVE  HeadingOf(lines, before) = lines[k].key
  <2>1. k \in H
    BY <1>2, <1>5
  <2> DEFINE n == Cardinality(H)
  <2>2. n \in Nat /\ Rank(H, k) \in 1 .. n
    BY <1>1, <2>1, RankOf, FS_CardinalityType
  <2>3. n \in 1 .. n
    BY <2>2
  <2>4. m \in H /\ Rank(H, m) = n
    BY <1>1, <2>3, IthOf
  <2> HIDE DEF n, m
  <2>5. ~(m < k)
    <3> SUFFICES ASSUME m < k PROVE FALSE
      OBVIOUS
    <3>1. Rank(H, m) < Rank(H, k)
      BY <1>1, <2>1, <2>4, RankGrows
    <3> QED
      BY <2>2, <2>4, <3>1
  <2>6. ~(k < m)
    BY <1>1, <1>2, <1>5, <2>4
  <2>7. k \in Nat /\ m \in Nat
    BY <1>1, <2>1, <2>4
  <2>8. k = m
    BY <2>5, <2>6, <2>7
  <2> QED
    BY <1>3, <2>1, <2>8
<1> QED
  BY <1>4, <1>5

\* The heading in force after two texts is that after the second, with that after the first
\* in force at its beginning.
LEMMA HeadingGoesOn ==
  ASSUME NEW T, NEW s \in Seq(T), NEW t \in Seq(T), NEW before
  PROVE  HeadingOf(s \o t, before) = HeadingOf(t, HeadingOf(s, before))
<1> DEFINE c == s \o t
           a == Len(s)
           b == Len(t)
           inside == HeadingOf(s, before)
<1>1. /\ c \in Seq(T) /\ Len(c) = a + b
      /\ \A i \in 1 .. a + b : c[i] = IF i <= a THEN s[i] ELSE t[i - a]
  BY ConcatProperties
<1>2. a \in Nat /\ b \in Nat /\ DOMAIN s = 1 .. a /\ DOMAIN t = 1 .. b
  OBVIOUS
<1> HIDE DEF c
<1>3. DOMAIN c = 1 .. a + b
  BY <1>1
<1> HIDE DEF a, b, inside
<1>4. ASSUME NEW i \in 1 .. a PROVE i \in DOMAIN c /\ c[i] = s[i]
  BY <1>1, <1>2, <1>3
<1>5. ASSUME NEW i \in 1 .. b PROVE a + i \in DOMAIN c /\ c[a + i] = t[i]
  <2>1. a + i \in 1 .. a + b /\ ~(a + i <= a) /\ (a + i) - a = i
    BY <1>2
  <2> QED
    BY <1>1, <1>3, <2>1
<1>6. ASSUME NEW i \in DOMAIN c PROVE i \in 1 .. a \/ (i - a \in 1 .. b /\ c[i] = t[i - a])
  BY <1>1, <1>2, <1>3
<1>7. ASSUME NEW u \in Seq(T), NEW k \in DOMAIN u, u[k].kind = "heading"
      PROVE  \E m \in DOMAIN u : u[m].kind = "heading" /\ \A i \in DOMAIN u : m < i => u[i].kind # "heading"
  <2> DEFINE H == OfKind(u, {"heading"})
             n == Len(u)
  <2>1. H \in SUBSET DOMAIN u /\ H \in SUBSET Nat /\ n \in Nat /\ DOMAIN u = 1 .. n
    BY MarkersAre
  <2>2. \A i \in DOMAIN u : i \in H <=> u[i].kind = "heading"
    BY DEF OfKind
  <2> HIDE DEF H, n
  <2>3. H # {} /\ \A i \in H : i <= n
    BY <1>7, <2>1, <2>2
  <2>4. PICK m \in H : \A i \in H : i <= m
    BY <2>1, <2>3, GreatestOf
  <2>5. ASSUME NEW i \in DOMAIN u, m < i PROVE u[i].kind # "heading"
    <3>1. i \in Nat /\ m \in Nat
      BY <2>1, <2>4
    <3>2. ~(i <= m)
      BY <2>5, <3>1
    <3> QED
      BY <2>2, <2>4, <3>2
  <2> QED
    BY <2>1, <2>2, <2>4, <2>5
<1>8. CASE \E k \in DOMAIN t : t[k].kind = "heading"
  <2>1. PICK k \in DOMAIN t : t[k].kind = "heading" /\ \A i \in DOMAIN t : k < i => t[i].kind # "heading"
    BY <1>7, <1>8
  <2>2. HeadingOf(t, inside) = t[k].key
    BY <2>1, HeadingLast
  <2>3. a + k \in DOMAIN c /\ c[a + k].kind = "heading" /\ c[a + k] = t[k]
    BY <1>2, <1>5, <2>1
  <2>4. ASSUME NEW i \in DOMAIN c, a + k < i PROVE c[i].kind # "heading"
    <3>1. i - a \in 1 .. b /\ c[i] = t[i - a] /\ k < i - a
      <4>1. i \notin 1 .. a /\ i \in Nat /\ k \in Nat
        BY <1>2, <1>3, <2>4
      <4>2. i - a \in 1 .. b /\ c[i] = t[i - a]
        BY <1>6, <4>1
      <4> QED
        BY <1>2, <2>4, <4>1, <4>2
    <3> QED
      BY <1>2, <2>1, <3>1
  <2>5. HeadingOf(c, before) = c[a + k].key
    BY <1>1, <2>3, <2>4, HeadingLast
  <2> QED
    BY <2>2, <2>3, <2>5 DEF c, inside
<1>9. CASE \A k \in DOMAIN t : t[k].kind # "heading"
  <2>1. HeadingOf(t, inside) = inside
    BY <1>9, HeadingLast
  <2>2. ASSUME NEW i \in DOMAIN c, c[i].kind = "heading" PROVE i \in 1 .. a /\ s[i].kind = "heading"
    <3>1. i \in 1 .. a
      BY <1>2, <1>6, <1>9, <2>2
    <3> QED
      BY <1>4, <2>2, <3>1
  <2>3. CASE \E k \in DOMAIN s : s[k].kind = "heading"
    <3>1. PICK k \in DOMAIN s : s[k].kind = "heading" /\ \A i \in DOMAIN s : k < i => s[i].kind # "heading"
      BY <1>7, <2>3
    <3>2. inside = s[k].key
      BY <3>1, HeadingLast DEF inside
    <3>3. k \in DOMAIN c /\ c[k] = s[k]
      BY <1>2, <1>4
    <3>4. \A i \in DOMAIN c : k < i => c[i].kind # "heading"
      BY <1>2, <2>2, <3>1
    <3>5. HeadingOf(c, before) = c[k].key
      BY <1>1, <3>1, <3>3, <3>4, HeadingLast
    <3> QED
      BY <2>1, <3>2, <3>3, <3>5 DEF c, inside
  <2>4. CASE \A k \in DOMAIN s : s[k].kind # "heading"
    <3>1. inside = before
      BY <2>4, HeadingLast DEF inside
    <3>2. \A i \in DOMAIN c : c[i].kind # "heading"
      BY <1>2, <2>2, <2>4
    <3>3. HeadingOf(c, before) = before
      BY <1>1, <3>2, HeadingLast
    <3> QED
      BY <2>1, <3>1, <3>3 DEF c, inside
  <2> QED
    BY <2>3, <2>4
<1> QED
  BY <1>8, <1>9

\* The heading in force at a line of a page, in the whole text.
LEMMA HeadingInText ==
  ASSUME NEW T, NEW texts \in Seq(Seq(T)), NEW p \in DOMAIN texts, NEW k \in DOMAIN texts[p]
  PROVE  LET all == FlattenSeq(texts)
             j == Len(FlattenSeq(SubSeq(texts, 1, p - 1))) + k
         IN  /\ j \in DOMAIN all /\ all[j] = texts[p][k]
             /\ HeadingOf(SubSeq(all, 1, j), NoSection) = HeadingOf(SubSeq(texts[p], 1, k), HeadingAbove(texts, p))
<1> DEFINE all == FlattenSeq(texts)
           above == FlattenSeq(SubSeq(texts, 1, p - 1))
           part == SubSeq(texts[p], 1, k)
           j == Len(above) + k
<1>1. /\ above \in Seq(T) /\ all \in Seq(T)
      /\ j \in DOMAIN all /\ all[j] = texts[p][k]
      /\ SubSeq(all, 1, j) = above \o part
  BY FlattenPrefix
<1>2. part \in Seq(T)
  <2> DEFINE S == Seq(T)
             s == texts[p]
  <2>1. texts \in Seq(S)
    OBVIOUS
  <2>2. s \in Seq(T) /\ k \in DOMAIN s
    <3>1. texts[p] \in S
      <4> HIDE DEF S
      <4> QED
        BY <2>1
    <3> QED
      BY <3>1
  <2> HIDE DEF s
  <2>3. 1 \in 1 .. Len(s) /\ k \in 1 .. Len(s)
    BY <2>2
  <2>4. SubSeq(s, 1, k) \in Seq(T)
    BY <2>2, <2>3, Stretch
  <2> QED
    BY <2>4 DEF s
<1> HIDE DEF above, part, all, j
<1>3. HeadingOf(above \o part, NoSection) = HeadingOf(part, HeadingOf(above, NoSection))
  BY <1>1, <1>2, HeadingGoesOn
<1> QED
  BY <1>1, <1>3 DEF above, part, all, j, HeadingAbove

-----------------------------------------------------------------------------
(* Documents: where the lines of the made are *)

\* A file without pages: one page of all that is printed.
LEMMA TextPlaces ==
  ASSUME DocumentsAssumption, printed \in Printed, Pictures = <<>>
  PROVE  Drawn(<<FlattenSeq(printed)>>)
<1> DEFINE s == FlattenSeq(printed)
<1>1. printed \in Seq(Seq(Element))
  BY PrintedIs
<1>2. s \in Seq(Element) /\ Elements(s) = AllOf(printed)
  BY <1>1, ElementsOfFlat
<1>3. RowsOnce(s)
  BY PrintedOnce
<1>4. ASSUME NEW e \in AllOf(printed) PROVE LayoutLine(e)
  <2>1. PICK p \in DOMAIN printed : \E i \in DOMAIN printed[p] : e = printed[p][i]
    BY PlaceOf
  <2>2. PICK i \in DOMAIN printed[p] : e = printed[p][i]
    BY <2>1
  <2>3. e.kind \notin Figures
    <3>1. DOMAIN Pictures = {}
      OBVIOUS
    <3> QED
      BY <2>2, <3>1, PicturesInOrder
  <2> QED
    BY <2>3 DEF LayoutLine, DrawnAs
<1> HIDE DEF s
<1> DEFINE texts == <<s>>
<1>5. DOMAIN texts = {1} /\ Len(texts) = 1 /\ texts[1] = s
  OBVIOUS
<1> HIDE DEF texts
<1>6. AllOf(texts) = Elements(s)
  BY <1>5 DEF AllOf
<1>7. Drawn(texts)
  BY <1>2, <1>3, <1>4, <1>5, <1>6 DEF Drawn
<1> QED
  BY <1>7 DEF texts, s

\* What the text layer has of an element.
LayerAs(e) ==
  CASE e.kind \in {"blank", "fence"} -> <<>>
    [] e.kind = "row" -> <<Line("number", e.key)>>
    [] e.kind \in {"heading"} \cup Figures -> <<Line("prose", e.key)>>
    [] OTHER -> <<e>>

\* What the text layer has of an element.
LEMMA LayerAsIs ==
  ASSUME NEW e \in Element
  PROVE  /\ LayerAs(e) \in Seq(AnyLine)
         /\ \A x \in DOMAIN LayerAs(e) : LayerAs(e)[x].key = e.key
<1> DEFINE number == Line("number", e.key)
           prose == Line("prose", e.key)
           a == LayerAs(e)
<1>1. e \in AnyLine /\ number \in AnyLine /\ prose \in AnyLine
  BY DEF Element, AnyLine, Line, ElementKinds
<1>2. number.key = e.key /\ prose.key = e.key
  BY DEF Line
<1>3. a \in {<<>>, <<number>>, <<prose>>, <<e>>}
  BY DEF LayerAs
<1> DEFINE T == AnyLine
<1> HIDE DEF number, prose, a, T
<1>4. ASSUME NEW l \in T, l.key = e.key, a = <<l>>
      PROVE  a \in Seq(T) /\ \A x \in DOMAIN a : a[x].key = e.key
  BY <1>4
<1>5. a = <<>> => a \in Seq(T) /\ \A x \in DOMAIN a : a[x].key = e.key
  OBVIOUS
<1>6. a \in Seq(T) /\ \A x \in DOMAIN a : a[x].key = e.key
  BY <1>1, <1>2, <1>3, <1>4, <1>5 DEF T
<1> QED
  BY <1>6 DEF a, T

\* The text layer of a page is in the order of the page.
LEMMA LayerInOrder ==
  ASSUME DocumentsAssumption, printed \in Printed, NEW p \in DOMAIN printed
  PROVE  InOrder(TextLayer(printed[p]))
<1> DEFINE s == printed[p]
           m == [i \in DOMAIN s |-> LayerAs(s[i])]
           n == Len(s)
<1>1. TextLayer(s) = FlattenSeq(m)
  BY DEF TextLayer, Each, LayerAs
<1>2. ASSUME NEW i \in DOMAIN s
      PROVE  s[i] \in Element /\ (s[i].key = <<p, i, 0>> \/ s[i].key[1] = 0)
  <2> DEFINE d == printed
  <2>1. d \in Printed /\ p \in DOMAIN d /\ i \in DOMAIN d[p]
    OBVIOUS
  <2> HIDE DEF d
  <2>2. \A q \in DOMAIN d : \A j \in DOMAIN d[q] : d[q][j] \in Element
    BY <2>1, Zenon, PlaceOfPrinted
  <2>3. s[i] = d[p][i]
    BY DEF d
  <2>4. printed[p][i].key = <<p, i, 0>> \/ printed[p][i].key[1] = 0
    BY DEF DocumentsAssumption
  <2> QED
    BY <2>1, <2>2, <2>3, <2>4
<1>3. n \in Nat /\ DOMAIN s = 1 .. n
  <2> DEFINE S == Seq(Element)
  <2>1. printed \in Seq(S)
    BY PrintedIs
  <2> HIDE DEF S
  <2>2. printed[p] \in S
    BY <2>1
  <2> QED
    BY <2>2 DEF S
<1> HIDE DEF n, s
<1>4. m \in [1 .. n -> Seq(AnyLine)]
  BY <1>2, <1>3, LayerAsIs
<1>5. m \in Seq(Seq(AnyLine)) /\ DOMAIN m = DOMAIN s
  BY <1>3, <1>4, TableIsSeq
<1>6. \A i \in DOMAIN s : \A x \in DOMAIN m[i] : m[i][x].key = s[i].key
  BY <1>2, LayerAsIs
<1> HIDE DEF m
<1>7. ASSUME NEW i \in DOMAIN m, NEW x \in DOMAIN m[i], m[i][x].key[1] # 0
      PROVE  /\ m[i][x].key[2] = i
             /\ \A y \in DOMAIN m[i] : x < y /\ m[i][y].key[1] # 0 => m[i][x].key[3] <= m[i][y].key[3]
  <2>0. m[i][x].key = s[i].key
    BY <1>5, <1>6
  <2>1. m[i][x].key = <<p, i, 0>>
    BY <1>2, <1>5, <1>7, <2>0
  <2>2. \A y \in DOMAIN m[i] : m[i][y].key = <<p, i, 0>>
    BY <1>5, <1>6, <2>1
  <2> QED
    BY <2>1, <2>2
<1>8. InTurn(m)
  BY <1>7 DEF InTurn
<1> QED
  BY <1>1, <1>5, <1>8, FlatInOrder DEF s

\* The text layer has no rows, every line is on its page, and a key is of one line.
LEMMA FlatPlaces ==
  ASSUME DocumentsAssumption, printed \in Printed
  PROVE  /\ \A x \in AllOf(Flat) : x.kind # "row"
         /\ \A x, y \in AllOf(Flat) : x.key = y.key => x = y
         /\ Len(Flat) = Len(printed) /\ DOMAIN Flat = DOMAIN printed
         /\ \A p \in DOMAIN Flat : /\ RowsOnce(Flat[p]) /\ InOrder(Flat[p])
                                   /\ \A l \in Elements(Flat[p]) : l.key[1] \in {0, p}
<1>1. DOMAIN Flat = DOMAIN printed /\ \A p \in DOMAIN Flat : Flat[p] = TextLayer(printed[p])
  BY DEF Flat
<1>2. /\ Flat \in PageTexts /\ Len(Flat) = Len(printed)
      /\ \A x \in AllOf(Flat) : \E e \in AllOf(printed) : x.key = e.key /\ x.kind = LayerKind(e.kind)
      /\ \A x, y \in AllOf(Flat) : x.key = y.key => x.kind = y.kind
  BY LayerKeysAre
<1>3. ASSUME NEW x \in AllOf(Flat) PROVE x.kind # "row"
  <2>1. PICK e \in AllOf(printed) : x.kind = LayerKind(e.kind)
    BY <1>2
  <2>2. LayerKind(e.kind) = "row" => e.kind = "row"
    BY DEF LayerKind
  <2>3. e.kind = "row" => LayerKind(e.kind) = "number"
    BY DEF LayerKind, Figures
  <2> QED
    BY <2>1, <2>2, <2>3
<1>4. ASSUME NEW x \in AllOf(Flat) PROVE x \in AnyLine
  <2>1. PICK p \in DOMAIN Flat : x \in Elements(Flat[p])
    BY Zenon DEF AllOf
  <2> QED
    BY <1>1, <2>1, FlatOfPage
<1>5. \A x, y \in AllOf(Flat) : x.key = y.key => x = y
  BY <1>2, <1>4 DEF AnyLine
<1>6. ASSUME NEW p \in DOMAIN Flat
      PROVE  RowsOnce(Flat[p]) /\ InOrder(Flat[p]) /\ \A l \in Elements(Flat[p]) : l.key[1] \in {0, p}
  <2>1. Elements(Flat[p]) \subseteq AllOf(Flat)
    BY DEF AllOf
  <2>2. \A i \in DOMAIN Flat[p] : Flat[p][i].kind # "row"
    BY <1>3, <2>1 DEF Elements
  <2>3. RowsOnce(Flat[p])
    BY <2>2 DEF RowsOnce
  <2>4. InOrder(Flat[p])
    BY <1>1, LayerInOrder
  <2>5. ASSUME NEW l \in Elements(Flat[p]) PROVE l.key[1] \in {0, p}
    <3>1. PICK e \in Elements(printed[p]) : l.key = e.key
      BY <1>1, FlatOfPage
    <3>2. PICK i \in DOMAIN printed[p] : e = printed[p][i]
      BY DEF Elements
    <3>3. printed[p][i].key = <<p, i, 0>> \/ printed[p][i].key[1] = 0
      BY <1>1 DEF DocumentsAssumption
    <3> QED
      BY SMTT(20), <3>1, <3>2, <3>3
  <2> QED
    BY <2>3, <2>4, <2>5
<1> QED
  BY <1>1, <1>2, <1>3, <1>5, <1>6

\* Every chunk is of a page, as TrueChunk says.
ChunksTrue ==
  \A c \in DOMAIN indexed : \E p \in DOMAIN pages :
    TrueChunk(indexed[c], pages[p], PageNumber(pages, p), HeadingAbove(pages, p))

\* The pages are drawn from what is printed, or are its text layer; the figures dealt with
\* are the first pictures; a page of the layout parse is in order; and every chunk is of a page.
PlacesInv ==
  /\ parser \in {"docling", "pypdf", "text"} /\ vlm \in {"off", "on", "misconfigured"}
  /\ paginated \in BOOLEAN /\ hybrid \in BOOLEAN
  /\ parsing \in {"load", "figures", "export", "recover", "chunk", "chunk recovered",
                  "indexed", "indexed recovered", "failed"}
  /\ parser = "text" => Pictures = <<>>
  /\ SlotsTrue
  /\ parsing \in {"load", "export"} => slots = <<>>
  /\ parsing \in {"load", "figures", "export"} => pages = <<>>
  /\ ~DocumentsDone => indexed = <<>>
  /\ Drawn(pages) \/ (pages = Flat /\ parsing # "recover")
  /\ parsing = "recover" => Headed(pages)
  /\ parser = "docling" /\ paginated /\ parsing \in {"recover", "chunk", "indexed"} =>
       \A p \in DOMAIN pages :
         (\A i \in DOMAIN printed[p] : printed[p][i].kind # "unmarked") => InOrder(pages[p])
  /\ DocumentsDone => ChunksTrue

\* Every line is in its place at first: there is none.
LEMMA InitPlaces ==
  ASSUME DocumentsAssumption, DocumentsInit
  PROVE  PlacesInv
<1>1. /\ slots = <<>> /\ pages = <<>> /\ indexed = <<>> /\ parsing = "load" /\ printed \in Printed
      /\ parser = "text" => Pictures = <<>>
  BY DEF DocumentsInit
<1>2. Len(Pictures) \in Nat
  BY <1>1, PicturesAre
<1>3. SlotsTrue
  BY <1>1, <1>2 DEF SlotsTrue
<1>4. Drawn(pages)
  BY <1>1 DEF Drawn, AllOf
<1>5. /\ parser \in {"docling", "pypdf", "text"} /\ vlm \in {"off", "on", "misconfigured"}
      /\ paginated \in BOOLEAN /\ hybrid \in BOOLEAN
  BY DEF DocumentsInit
<1> QED
  BY <1>1, <1>3, <1>4, <1>5 DEF PlacesInv, DocumentsDone

\* The pictures of a document.
PicturesOf(d) ==
  FlattenSeq([p \in DOMAIN d |-> FlattenSeq([i \in DOMAIN d[p] |->
    IF d[p][i].kind \in Figures THEN <<[page |-> p, figure |-> d[p][i]]>> ELSE <<>>])])

\* A document keeps its pictures.
LEMMA SamePictures ==
  ASSUME printed' = printed
  PROVE  Pictures' = Pictures /\ Flat' = Flat /\ AllOf(printed)' = AllOf(printed)
<1>1. Pictures = PicturesOf(printed)
  BY DEF Pictures, Each, PicturesOf
<1>2. Pictures' = PicturesOf(printed')
  BY DEF Pictures, Each, PicturesOf
<1>3. Pictures' = Pictures
  BY <1>1, <1>2
<1> QED
  BY <1>3 DEF Flat

\* The next picture gets its own slot.
LEMMA AnnotateSlots ==
  ASSUME DocumentsAssumption, printed \in Printed, slots \in Seq(Slot), SlotsTrue, Annotate
  PROVE  SlotsTrue'
<1> DEFINE k == Len(slots)
           n == k + 1
           P == Pictures
<1>1. printed' = printed /\ n <= Len(P)
  BY DEF Annotate, settingVars
<1>2. PICK text \in {<<>>, Transcription(P[n].figure)} :
        slots' = Append(slots, [page |-> P[n].page, figure |-> P[n].figure, text |-> text])
  BY DEF Annotate
<1>3. Pictures' = P
  BY <1>1, SamePictures
<1>4. /\ Len(slots) <= Len(P)
      /\ \A m \in DOMAIN slots : /\ slots[m].page = P[m].page /\ slots[m].figure = P[m].figure
                                 /\ slots[m].text \in {<<>>, Transcription(slots[m].figure)}
  BY DEF SlotsTrue
<1> HIDE DEF P
<1> DEFINE r == [page |-> P[n].page, figure |-> P[n].figure, text |-> text]
           T == Slot \cup {r}
<1>5. r.page = P[n].page /\ r.figure = P[n].figure /\ r.text = text
  OBVIOUS
<1>6. slots \in Seq(T) /\ r \in T
  BY SeqOfMore
<1>7. slots' = Append(slots, r)
  BY <1>2
<1> HIDE DEF r, T
<1>8. /\ k \in Nat /\ DOMAIN slots = 1 .. k
      /\ Len(slots') = n /\ DOMAIN slots' = 1 .. n
      /\ slots'[n] = r /\ \A m \in 1 .. k : slots'[m] = slots[m]
  BY <1>6, <1>7
<1> HIDE DEF k
<1>9. ASSUME NEW m \in DOMAIN slots'
      PROVE  /\ slots'[m].page = P[m].page /\ slots'[m].figure = P[m].figure
             /\ slots'[m].text \in {<<>>, Transcription(slots'[m].figure)}
  <2>1. m \in 1 .. k \/ m = n
    BY <1>8
  <2>2. CASE m \in 1 .. k
    BY <1>4, <1>8, <2>2
  <2>3. CASE m = n
    BY <1>2, <1>5, <1>8, <2>3
  <2> QED
    BY <2>1, <2>2, <2>3
<1>10. SlotsTrue' = (/\ Len(slots') <= Len(P)
                     /\ \A m \in DOMAIN slots' : /\ slots'[m].page = P[m].page /\ slots'[m].figure = P[m].figure
                                                 /\ slots'[m].text \in {<<>>, Transcription(slots'[m].figure)})
  BY <1>3 DEF SlotsTrue
<1> QED
  BY <1>1, <1>8, <1>9, <1>10

\* A page of the text layer is a page of what is printed.
LEMMA StepPlaces ==
  ASSUME DocumentsAssumption, DocumentsIInv, PlacesInv, [DocumentsNext]_documentVars
  PROVE  PlacesInv'
<1>0. printed \in Printed /\ slots \in Seq(Slot) /\ pages \in PageTexts
  BY DEF DocumentsIInv
<1>a. printed' = printed => Pictures' = Pictures /\ Flat' = Flat /\ AllOf(printed)' = AllOf(printed)
  BY SamePictures
<1>b. printed' = printed /\ slots' = slots /\ SlotsTrue => SlotsTrue'
  BY <1>a DEF SlotsTrue
<1>c. ASSUME printed' = printed
      PROVE  (Drawn(pages') <=> Drawn(pages)') /\ (Headed(pages') <=> Headed(pages)')
  BY <1>a, <1>c DEF Drawn, Headed, LayoutLine
<1>d. pages' = pages /\ printed' = printed =>
        (Drawn(pages) <=> Drawn(pages')) /\ (Headed(pages) <=> Headed(pages'))
  OBVIOUS
<1>1. CASE LoadText
  <2>1. /\ UNCHANGED <<printed, parser, vlm, paginated, hybrid, slots, indexed>> /\ parsing' = "chunk"
        /\ pages' = <<FlattenSeq(printed)>> /\ parser = "text" /\ parsing = "load"
    BY <1>1 DEF LoadText, settingVars
  <2>2. Drawn(pages')
    BY <1>0, <2>1, TextPlaces DEF PlacesInv
  <2> QED
    BY <1>a, <1>b, <1>c, <2>1, <2>2 DEF PlacesInv, DocumentsDone
<1>2. CASE LoadFlat
  <2>1. /\ UNCHANGED <<printed, parser, vlm, paginated, hybrid, slots, indexed>> /\ parsing' = "chunk"
        /\ pages' = Flat /\ parsing = "load" /\ parser # "text"
    BY <1>2 DEF LoadFlat, settingVars
  <2>2. \A p \in DOMAIN pages' : InOrder(pages'[p])
    BY <1>0, <2>1, FlatPlaces
  <2> QED
    BY <1>a, <1>b, <2>1, <2>2 DEF PlacesInv, DocumentsDone
<1>3. CASE Convert
  <2>1. /\ UNCHANGED <<printed, parser, vlm, paginated, hybrid, slots, pages, indexed>>
        /\ parsing = "load" /\ parsing' \in {"figures", "export"}
    BY <1>3 DEF Convert, settingVars
  <2> QED
    BY <1>a, <1>b, <1>c, <1>d, <2>1 DEF PlacesInv, DocumentsDone
<1>4. CASE Annotate
  <2>1. /\ UNCHANGED <<printed, parser, vlm, paginated, hybrid, parsing, pages, indexed>>
        /\ parsing = "figures"
    BY <1>4 DEF Annotate, settingVars
  <2>2. SlotsTrue'
    BY <1>0, <1>4, AnnotateSlots DEF PlacesInv
  <2> QED
    BY <1>a, <1>c, <1>d, <2>1, <2>2 DEF PlacesInv, DocumentsDone
<1>5. CASE Export
  <2>1. /\ UNCHANGED <<printed, parser, vlm, paginated, hybrid, slots, indexed>>
        /\ parsing \in {"figures", "export"} /\ parsing' \in {"recover", "chunk"}
    BY <1>5 DEF Export, settingVars
  <2>2. SlotsTrue /\ paginated \in BOOLEAN /\ (parsing = "export" => slots = <<>>)
    BY DEF PlacesInv
  <2>3. /\ \A l \in AllOf(pages') : LayoutLine(l)
        /\ \A p \in DOMAIN pages' : RowsOnce(pages'[p])
        /\ Len(pages') > 1 => /\ Len(pages') = Len(printed)
                              /\ \A p \in DOMAIN pages' : \A l \in Elements(pages'[p]) : l.key[1] \in {0, p}
        /\ \A p \in DOMAIN printed : \A e \in Elements(printed[p]) : e.kind = "heading" =>
             e \in AllOf(pages') /\ (Len(pages') = Len(printed) => e \in Elements(pages'[p]))
        /\ paginated => \A p \in DOMAIN pages' :
             (\A i \in DOMAIN printed[p] : printed[p][i].kind # "unmarked") => InOrder(pages'[p])
    BY <1>0, <1>5, <2>2, ExportPlaces
  <2>4. Drawn(pages') /\ Headed(pages')
    BY <2>3, Zenon DEF Drawn, Headed
  <2>5. (Drawn(pages) /\ Headed(pages))'
    BY <1>c, <2>1, <2>4
  <2> QED
    BY <1>a, <1>b, <2>1, <2>3, <2>5 DEF PlacesInv, DocumentsDone
<1>6. CASE Recover
  <2>1. /\ UNCHANGED <<printed, parser, vlm, paginated, hybrid, slots, indexed>>
        /\ pages' = Recovered(pages, Flat) /\ parsing = "recover" /\ parsing' = "chunk recovered"
    BY <1>6 DEF Recover, settingVars
  <2>2. /\ Drawn(pages) /\ Headed(pages)
        /\ pages # <<>> \/ Len(pages) = Len(printed)
    BY <2>1 DEF PlacesInv, DocumentsIInv
  <2>3. Drawn(pages')
    BY <1>0, <2>1, <2>2, RecoverPlaces
  <2> QED
    BY <1>a, <1>b, <1>c, <2>1, <2>3 DEF PlacesInv, DocumentsDone
<1>7. CASE RecoverFails
  <2>1. /\ UNCHANGED <<printed, parser, vlm, paginated, hybrid, slots, pages, indexed>>
        /\ parsing = "recover" /\ parsing' = "chunk"
    BY <1>7 DEF RecoverFails, settingVars
  <2> QED
    BY <1>a, <1>b, <1>c, <1>d, <2>1 DEF PlacesInv, DocumentsDone
<1>8. CASE Index
  <2>1. /\ UNCHANGED <<printed, parser, vlm, paginated, hybrid, slots, pages>>
        /\ indexed' = IngestPages(pages)
        /\ parsing \in {"chunk", "chunk recovered"} /\ DocumentsDone'
        /\ parsing' = IF parsing = "chunk" THEN "indexed" ELSE "indexed recovered"
    BY <1>8 DEF Index, settingVars, DocumentsDone
  <2>2. ChunksTrue'
    <3>1. \A c \in Elements(IngestPages(pages)) : \E p \in DOMAIN pages :
            TrueChunk(c, pages[p], PageNumber(pages, p), HeadingAbove(pages, p))
      BY <1>0, IngestPagesIs
    <3>2. \A c \in DOMAIN indexed' : indexed'[c] \in Elements(indexed')
      BY DEF Elements
    <3> QED
      BY <2>1, <3>1, <3>2 DEF ChunksTrue
  <2> QED
    BY <1>a, <1>b, <1>c, <1>d, <2>1, <2>2 DEF PlacesInv
<1>9. CASE UNCHANGED documentVars
  <2>1. UNCHANGED <<printed, parser, vlm, paginated, hybrid, slots, pages, indexed, parsing>>
    BY <1>9 DEF documentVars, settingVars
  <2>2. DocumentsDone /\ ChunksTrue => ChunksTrue'
    BY <2>1 DEF ChunksTrue
  <2>3. DocumentsDone' <=> DocumentsDone
    BY <2>1 DEF DocumentsDone
  <2>4. (Drawn(pages) <=> Drawn(pages)') /\ (Headed(pages) <=> Headed(pages)') /\ SlotsTrue'
    BY <1>b, <1>c, <1>d, <2>1 DEF PlacesInv
  <2>5. Pictures' = Pictures /\ Flat' = Flat
    BY <1>a, <2>1
  <2>6. parser' = "docling" /\ paginated' /\ parsing' \in {"recover", "chunk", "indexed"} =>
          \A p \in DOMAIN pages' :
            (\A i \in DOMAIN printed'[p] : printed'[p][i].kind # "unmarked") => InOrder(pages'[p])
    BY <2>1 DEF PlacesInv
  <2>7. (Drawn(pages) \/ (pages = Flat /\ parsing # "recover"))' /\ (parsing = "recover" => Headed(pages))'
    BY <2>1, <2>4, <2>5 DEF PlacesInv
  <2>8. DocumentsDone' => ChunksTrue'
    BY <2>2, <2>3 DEF PlacesInv
  <2>9. (/\ parser \in {"docling", "pypdf", "text"} /\ vlm \in {"off", "on", "misconfigured"}
         /\ paginated \in BOOLEAN /\ hybrid \in BOOLEAN
         /\ parsing \in {"load", "figures", "export", "recover", "chunk", "chunk recovered",
                         "indexed", "indexed recovered", "failed"}
         /\ parser = "text" => Pictures = <<>>
         /\ parsing \in {"load", "export"} => slots = <<>>
         /\ parsing \in {"load", "figures", "export"} => pages = <<>>
         /\ ~DocumentsDone => indexed = <<>>)'
    BY <2>1, <2>3, <2>5 DEF PlacesInv
  <2> QED
    BY <2>4, <2>6, <2>7, <2>8, <2>9 DEF PlacesInv
<1>10. CASE LoadFails
  <2>1. /\ UNCHANGED <<printed, parser, vlm, paginated, hybrid, slots, pages, indexed>>
        /\ parsing = "load" /\ parsing' = "failed"
    BY <1>10 DEF LoadFails, settingVars
  <2> QED
    BY <1>a, <1>b, <1>c, <1>d, <2>1 DEF PlacesInv, DocumentsDone
<1> QED
  BY <1>1, <1>2, <1>3, <1>4, <1>5, <1>6, <1>7, <1>8, <1>9, <1>10 DEF DocumentsNext

\* A line has a key of its own, and with several pages stands on the page it is printed on.
LEMMA PagesAre ==
  ASSUME DocumentsAssumption, DocumentsIInv, PlacesInv
  PROVE  /\ \A l, m \in AllOf(pages) : l.key = m.key => l = m
         /\ \A l \in AllOf(pages) : l.kind = "row" => l.key[1] # 0
         /\ \A p \in DOMAIN pages : RowsOnce(pages[p])
         /\ Len(pages) > 1 => /\ Len(pages) = Len(printed)
                              /\ \A p \in DOMAIN pages : \A l \in Elements(pages[p]) : l.key[1] \in {0, p}
         /\ ChunksTrue
<1>0. printed \in Printed
  BY DEF DocumentsIInv
<1>1. ChunksTrue
  <2>0. ~DocumentsDone => indexed = <<>>
    BY DEF PlacesInv
  <2>1. ~DocumentsDone => DOMAIN indexed = {}
    BY <2>0
  <2> QED
    BY <2>1 DEF PlacesInv, ChunksTrue
<1>2. CASE Drawn(pages)
  <2>1. \A l, m \in AllOf(pages) : l.key = m.key => l = m
    BY <1>0, <1>2, LayoutKeys DEF Drawn
  <2>2. \A l \in AllOf(pages) : l.kind = "row" => l.key[1] # 0
    BY <1>0, <1>2, RowsHavePlaces DEF Drawn
  <2> QED
    BY <1>1, <1>2, <2>1, <2>2 DEF Drawn
<1>3. CASE pages = Flat
  BY <1>0, <1>1, <1>3, FlatPlaces
<1> QED
  BY <1>2, <1>3 DEF PlacesInv

\* What has the key of a line of a chunk is that line.
LEMMA KeyInChunk ==
  ASSUME DocumentsAssumption, DocumentsIInv, PlacesInv, NEW c \in DOMAIN indexed,
         NEW p \in DOMAIN pages,
         TrueChunk(indexed[c], pages[p], PageNumber(pages, p), HeadingAbove(pages, p)),
         NEW x \in AllOf(pages)
  PROVE  /\ x.key \in Keys(indexed[c].lines) <=> x \in Elements(indexed[c].lines)
         /\ Elements(indexed[c].lines) \subseteq Elements(pages[p])
<1> DEFINE lines == indexed[c].lines
<1>1. \A l \in Elements(lines) : l \in Elements(pages[p])
  BY DEF TrueChunk, Elements
<1>2. ASSUME x.key \in Keys(lines) PROVE x \in Elements(lines)
  <2>1. PICK i \in DOMAIN lines : x.key = lines[i].key
    BY <1>2 DEF Keys
  <2>2. lines[i] \in Elements(lines)
    BY <2>1 DEF Elements
  <2>3. lines[i] \in AllOf(pages)
    BY <1>1, <2>2 DEF AllOf
  <2>4. x = lines[i]
    BY <2>1, <2>3, PagesAre
  <2> QED
    BY <2>2, <2>4
<1> QED
  BY <1>1, <1>2, KeysOf

\* With every line in its place the document is as DocumentsInv asks.
LEMMA PlacesFollow ==
  ASSUME DocumentsAssumption, DocumentsIInv, PlacesInv
  PROVE  DocumentsInv
<1>0. printed \in Printed /\ pages \in PageTexts /\ Len(printed) \in Nat
  <2>1. printed \in Printed /\ pages \in PageTexts
    BY DEF DocumentsIInv
  <2>2. printed \in Seq(Seq(Element))
    BY <2>1, PrintedIs
  <2> QED
    BY <2>1, <2>2
<1>1. /\ DOMAIN pages = 1 .. Len(pages) /\ Len(pages) \in Nat
      /\ \A p \in DOMAIN pages : pages[p] \in Seq(AnyLine)
  <2> DEFINE S == Seq(AnyLine)
  <2>1. pages \in Seq(S)
    BY <1>0 DEF PageTexts
  <2> HIDE DEF S
  <2>2. DOMAIN pages = 1 .. Len(pages) /\ Len(pages) \in Nat /\ \A p \in DOMAIN pages : pages[p] \in S
    BY <2>1
  <2> QED
    BY <2>2 DEF S
<1>2. /\ \A l, m \in AllOf(pages) : l.key = m.key => l = m
      /\ \A l \in AllOf(pages) : l.kind = "row" => l.key[1] # 0
      /\ \A p \in DOMAIN pages : RowsOnce(pages[p])
      /\ Len(pages) > 1 => /\ Len(pages) = Len(printed)
                           /\ \A p \in DOMAIN pages : \A l \in Elements(pages[p]) : l.key[1] \in {0, p}
      /\ \A d \in DOMAIN indexed : \E p \in DOMAIN pages :
           TrueChunk(indexed[d], pages[p], PageNumber(pages, p), HeadingAbove(pages, p))
  BY PagesAre DEF ChunksTrue
<1>3. DocumentsTypeOK
  <2>1. /\ parser \in {"docling", "pypdf", "text"} /\ vlm \in {"off", "on", "misconfigured"}
        /\ {paginated, hybrid} \subseteq BOOLEAN
        /\ parsing \in {"load", "figures", "export", "recover", "chunk", "chunk recovered",
                        "indexed", "indexed recovered", "failed"}
    BY DEF PlacesInv
  <2>2. Len(slots) <= Len(Pictures)
    BY DEF PlacesInv, SlotsTrue
  <2>3. ASSUME NEW p \in DOMAIN pages PROVE Keys(pages[p]) \subseteq Nat \X Nat \X Nat
    <3>1. \A i \in DOMAIN pages[p] : pages[p][i] \in AnyLine
      BY <1>1
    <3> QED
      BY <3>1 DEF Keys, AnyLine
  <2>4. ASSUME NEW d \in DOMAIN indexed
        PROVE  indexed[d].page \in 0 .. Len(printed) /\ indexed[d].lines # <<>>
    <3>1. PICK p \in DOMAIN pages :
            TrueChunk(indexed[d], pages[p], PageNumber(pages, p), HeadingAbove(pages, p))
      BY <1>2
    <3>2. indexed[d].lines # <<>> /\ indexed[d].page = IF Len(pages) > 1 THEN p ELSE 0
      BY <3>1 DEF TrueChunk, PageNumber
    <3> QED
      BY <1>0, <1>1, <1>2, <3>2
  <2> QED
    BY <2>1, <2>2, <2>3, <2>4 DEF DocumentsTypeOK
<1>4. TablesAreWhole
  <2> SUFFICES ASSUME NEW p \in DOMAIN pages, NEW i \in 1 .. Len(pages[p]) - 1,
                      pages[p][i].kind = "row", pages[p][i + 1].kind = "row",
                      NEW d \in DOMAIN indexed
               PROVE  pages[p][i].key \in Keys(indexed[d].lines)
                        <=> pages[p][i + 1].key \in Keys(indexed[d].lines)
    BY DEF TablesAreWhole
  <2> DEFINE lines == pages[p]
             x == lines[i]
             y == lines[i + 1]
  <2>1. PICK q \in DOMAIN pages :
          TrueChunk(indexed[d], pages[q], PageNumber(pages, q), HeadingAbove(pages, q))
    BY <1>2
  <2>2. /\ Len(lines) \in Nat /\ DOMAIN lines = 1 .. Len(lines)
        /\ i \in DOMAIN lines /\ i + 1 \in DOMAIN lines
    <3> HIDE DEF lines
    <3>1. lines \in Seq(AnyLine)
      BY <1>1 DEF lines
    <3>2. i \in 1 .. Len(lines) - 1
      BY DEF lines
    <3> QED
      BY <3>1, <3>2
  <2>3. x \in Elements(lines) /\ y \in Elements(lines) /\ x \in AllOf(pages) /\ y \in AllOf(pages)
    BY <2>2 DEF Elements, AllOf
  <2>4. /\ x.key \in Keys(indexed[d].lines) <=> x \in Elements(indexed[d].lines)
        /\ y.key \in Keys(indexed[d].lines) <=> y \in Elements(indexed[d].lines)
        /\ Elements(indexed[d].lines) \subseteq Elements(pages[q])
    BY <2>1, <2>3, KeyInChunk
  <2>5. CASE q = p
    <3>1. \A k \in DOMAIN lines : (lines[k] = x <=> k = i) /\ (lines[k] = y <=> k = i + 1)
      BY <1>2, <2>2 DEF RowsOnce
    <3>2. TablePair(lines, x, y)
      BY <3>1 DEF TablePair
    <3>3. x \in Elements(indexed[d].lines) <=> y \in Elements(indexed[d].lines)
      BY <2>1, <2>5, <3>2 DEF TrueChunk
    <3> QED
      BY <2>4, <3>3
  <2>6. CASE q # p
    <3>1. Len(pages) > 1
      BY <1>1, <2>6
    <3>2. ASSUME NEW l \in Elements(lines), l \in AllOf(pages), l.kind = "row"
          PROVE  l \notin Elements(pages[q])
      <4>1. l.key[1] = p
        BY <1>2, <3>1, <3>2
      <4>2. l \in Elements(pages[q]) => l.key[1] \in {0, q}
        BY <1>2, <3>1
      <4>3. p # 0
        BY <1>1
      <4> QED
        BY <2>6, <4>1, <4>2, <4>3
    <3> QED
      BY <2>3, <2>4, <3>2
  <2> QED
    BY <2>5, <2>6
<1>5. SectionIsNearest
  <2> DEFINE all == FlattenSeq(pages)
  <2> SUFFICES ASSUME NEW d \in DOMAIN indexed, NEW i \in DOMAIN all,
                      all[i].key \in Keys(indexed[d].lines), all[i].kind \notin {"heading", "blank"}
               PROVE  \E j \in DOMAIN all :
                        all[j] = all[i] /\ HeadingOf(SubSeq(all, 1, j), NoSection) = indexed[d].section
    BY DEF SectionIsNearest
  <2>1. PICK p \in DOMAIN pages :
          TrueChunk(indexed[d], pages[p], PageNumber(pages, p), HeadingAbove(pages, p))
    BY <1>2
  <2>2. pages \in Seq(Seq(AnyLine))
    BY <1>0 DEF PageTexts
  <2>3. Elements(all) = AllOf(pages)
    BY <2>2, ElementsOfFlat
  <2>4. all[i] \in AllOf(pages)
    BY <2>3 DEF Elements
  <2>5. all[i] \in Elements(indexed[d].lines)
    BY <2>1, <2>4, KeyInChunk
  <2>6. PICK k \in DOMAIN pages[p] :
          /\ pages[p][k] = all[i]
          /\ HeadingOf(SubSeq(pages[p], 1, k), HeadingAbove(pages, p)) = indexed[d].section
    BY <2>1, <2>5 DEF TrueChunk
  <2> DEFINE j == Len(FlattenSeq(SubSeq(pages, 1, p - 1))) + k
  <2>7. /\ j \in DOMAIN all /\ all[j] = pages[p][k]
        /\ HeadingOf(SubSeq(all, 1, j), NoSection) = HeadingOf(SubSeq(pages[p], 1, k), HeadingAbove(pages, p))
    BY <2>2, HeadingInText
  <2> HIDE DEF j, all
  <2> QED
    BY <2>6, <2>7
<1>6. PageIsTrue
  <2> SUFFICES ASSUME NEW d \in DOMAIN indexed, NEW i \in DOMAIN indexed[d].lines, indexed[d].page # 0
               PROVE  indexed[d].lines[i].key[1] \in {0, indexed[d].page}
    BY DEF PageIsTrue
  <2>1. PICK p \in DOMAIN pages :
          TrueChunk(indexed[d], pages[p], PageNumber(pages, p), HeadingAbove(pages, p))
    BY <1>2
  <2>2. Len(pages) > 1 /\ indexed[d].page = p
    BY <2>1 DEF TrueChunk, PageNumber
  <2>3. indexed[d].lines[i] \in Elements(pages[p])
    <3>1. indexed[d].lines[i] \in Elements(indexed[d].lines)
      BY DEF Elements
    <3>2. PICK k \in DOMAIN pages[p] : pages[p][k] = indexed[d].lines[i]
      BY <2>1, <3>1 DEF TrueChunk
    <3> QED
      BY <3>2 DEF Elements
  <2> QED
    BY <1>2, <2>2, <2>3
<1>7. FiguresStayInPlace
  <2> SUFFICES ASSUME parser = "docling", paginated, parsing = "indexed", NEW p \in DOMAIN pages,
                      \A i \in DOMAIN printed[p] : printed[p][i].kind # "unmarked"
               PROVE  InOrder(pages[p])
    BY DEF FiguresStayInPlace, InOrder
  <2> QED
    BY DEF PlacesInv
<1> QED
  BY <1>3, <1>4, <1>5, <1>6, <1>7 DEF DocumentsInv

\* Whatever is parsed, transcribed and recovered, the chunks of the index keep tables whole,
\* have the section nearest above them and the page they are printed on, and a transcription
\* stands between what is printed around its picture.  For every document, chunk size, overlap
\* and floor (loaders.py, figure_vlm.py, chunking.py, pipeline.py).
THEOREM PlacesAreTrue == DocumentsSpec => []DocumentsInv
<1>1. DocumentsInit => DocumentsIInv /\ PlacesInv
  BY DocumentsAssumption, InitDocuments, InitPlaces
<1>2. DocumentsIInv /\ PlacesInv /\ [DocumentsNext]_documentVars => DocumentsIInv' /\ PlacesInv'
  BY DocumentsAssumption, StepDocuments, StepPlaces
<1>3. DocumentsIInv /\ PlacesInv => DocumentsInv
  BY DocumentsAssumption, PlacesFollow
<1> QED
  BY <1>1, <1>2, <1>3, PTL DEF DocumentsSpec

=============================================================================
