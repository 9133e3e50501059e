----------------------------- MODULE AdminUpload -----------------------------
(***************************************************************************)
(* The upload half of the admin page and the route behind it.  The page    *)
(* keeps an ordered list of files until they are ingested; the list is not *)
(* frozen while a request is under way, and the button works meanwhile.    *)
(* Files are matched by order to the rows of a manifest, if there is one.  *)
(* The route checks a whole batch, then ingests file by file, and a fault  *)
(* in the middle leaves what was stored before.  Of the four metadata      *)
(* fields, which are treated alike, the publisher is kept: the one that is *)
(* also rewritten.                                                         *)
(***************************************************************************)
EXTENDS Sequences, Naturals, Functions

CONSTANTS
  File,
  Supported,   \* the files with an extension a loader knows
  Typed,       \* publishers as typed: host, with www. or not, capitals or not
  Blank,       \* an empty cell or field
  NoManifest,
  Slot,        \* requests of the page under way at once
  NoBatch,
  MaxListed,   \* bound: files in the list
  MaxPresses   \* bound: how often the button is pressed

ASSUME AdminUploadAssumption ==
  /\ Supported \subseteq File
  /\ Typed \subseteq [host : {t.host : t \in Typed}, www : BOOLEAN, caps : BOOLEAN]
  /\ MaxListed \in Nat
  /\ MaxPresses \in Nat

VARIABLES
  list,      \* selectedFiles, in order
  batch,     \* the request in each slot: what was sent, how much is ingested,
             \* and whether the page still waits for it
  store,     \* what was stored: file and publisher
  presses

uploadVars == <<list, batch, store, presses>>

Publisher == [host : {t.host : t \in Typed}, www : BOOLEAN, caps : BOOLEAN]
Cell == Typed \cup {Blank}
Lists == UNION {[1 .. n -> File] : n \in 0 .. MaxListed}
Manifests == UNION {[1 .. n -> Cell] : n \in 1 .. MaxListed}
Batches ==
  [files : Lists, manifest : Manifests \cup {NoManifest}, default : Cell,
   next : 1 .. MaxListed + 1, waiting : BOOLEAN]

UploadTypeOK ==
  /\ list \in Lists
  /\ batch \in [Slot -> Batches \cup {NoBatch}]
  /\ store \subseteq Supported \X (Publisher \cup {Blank})
  /\ presses \in 0 .. MaxPresses

UploadInit ==
  /\ list = <<>>
  /\ batch = [s \in Slot |-> NoBatch]
  /\ store = {}
  /\ presses = 0

-----------------------------------------------------------------------------
(* Publishers *)

\* An upload's publisher is lower-cased, and no more.
Lower(p) == [p EXCEPT !.caps = FALSE]

\* A publisher filter, as compiled for a search.
LikeValue(p) == [p EXCEPT !.caps = FALSE, !.www = FALSE]

\* like "%..%": a substring, and capitals count.
Matches(like, stored) ==
  /\ like.host = stored.host
  /\ like.caps = stored.caps
  /\ like.www => stored.www

-----------------------------------------------------------------------------
(* The page *)

AddFile(f) ==
  /\ Len(list) < MaxListed
  /\ list' = Append(list, f)
  /\ UNCHANGED <<batch, store, presses>>

MoveDown(i) ==
  /\ i < Len(list)
  /\ list' = [list EXCEPT ![i] = list[i + 1], ![i + 1] = list[i]]
  /\ UNCHANGED <<batch, store, presses>>

\* The button that clears the list takes off one file after the other.
RemoveFile(i) ==
  /\ list' = SubSeq(list, 1, i - 1) \o SubSeq(list, i + 1, Len(list))
  /\ UNCHANGED <<batch, store, presses>>

\* The form is a copy of the page at this moment: the list, the rows m of the CSV
\* file picked, if any, and the publisher field d.  Which free slot it takes makes
\* no difference.
Press(s, m, d) ==
  /\ list # <<>>
  /\ batch[s] = NoBatch
  /\ s = CHOOSE u \in Slot : batch[u] = NoBatch
  /\ presses < MaxPresses
  /\ presses' = presses + 1
  /\ batch' = [batch EXCEPT ![s] =
       [files |-> list, manifest |-> m, default |-> d, next |-> 1, waiting |-> TRUE]]
  /\ UNCHANGED <<list, store>>

\* The connection breaks: the page shows an error, the route goes on.
ConnectionLost(s) ==
  /\ batch[s] # NoBatch
  /\ batch[s].waiting
  /\ batch' = [batch EXCEPT ![s].waiting = FALSE]
  /\ UNCHANGED <<list, store, presses>>

-----------------------------------------------------------------------------
(* The route *)

\* Mutated: only the file at hand is checked.
NextIsValid(b) ==
  b.next <= Len(b.files) =>
    /\ b.files[b.next] \in Supported
    /\ b.manifest # NoManifest => b.next <= Len(b.manifest)

\* 415 for an unsupported file, 400 for a manifest of another length.
Valid(b) ==
  /\ Range(b.files) \subseteq Supported
  /\ b.manifest # NoManifest => Len(b.manifest) = Len(b.files)

\* The cell wins, the default fills a blank one.
Tag(b, i) ==
  LET cell == IF b.manifest = NoManifest THEN Blank ELSE b.manifest[i]
      tag == IF cell = Blank THEN b.default ELSE cell
  IN  IF tag = Blank THEN Blank ELSE Lower(tag)

\* Mutated: the page is cleared whatever the answer.
AnswerAndClear(s) ==
  /\ batch' = [batch EXCEPT ![s] = NoBatch]
  /\ list' = IF batch[s].waiting THEN <<>> ELSE list
  /\ UNCHANGED presses

\* An error: the page keeps its files.
AnswerError(s) ==
  /\ batch' = [batch EXCEPT ![s] = NoBatch]
  /\ UNCHANGED <<list, presses>>

Reject(s) ==
  /\ batch[s] # NoBatch
  /\ ~Valid(batch[s])
  /\ AnswerError(s)
  /\ UNCHANGED store

IngestNext(s) ==
  /\ batch[s] # NoBatch
  /\ LET b == batch[s]
     IN  /\ Valid(b)
         /\ b.next <= Len(b.files)
         /\ store' = store \cup {<<b.files[b.next], Tag(b, b.next)>>}
  /\ batch' = [batch EXCEPT ![s].next = @ + 1]
  /\ UNCHANGED <<list, presses>>

\* A loader, the embedder or the store raises: 500, and what is stored stays.
IngestRaises(s) ==
  /\ batch[s] # NoBatch
  /\ Valid(batch[s])
  /\ batch[s].next <= Len(batch[s].files)
  /\ AnswerError(s)
  /\ UNCHANGED store

\* 200, and a page that still waits clears its list: whatever is on it by now.
Succeed(s) ==
  /\ batch[s] # NoBatch
  /\ Valid(batch[s])
  /\ batch[s].next > Len(batch[s].files)
  /\ batch' = [batch EXCEPT ![s] = NoBatch]
  /\ list' = IF batch[s].waiting THEN <<>> ELSE list
  /\ UNCHANGED <<store, presses>>

UploadNext ==
  \/ \E f \in File : AddFile(f)
  \/ \E i \in DOMAIN list : MoveDown(i) \/ RemoveFile(i)
  \/ \E s \in Slot :
       \/ \E m \in Manifests \cup {NoManifest}, d \in Cell : Press(s, m, d)
       \/ ConnectionLost(s)
       \/ Reject(s)
       \/ IngestNext(s)
       \/ IngestRaises(s)
       \/ Succeed(s)

UploadSpec == UploadInit /\ [][UploadNext]_uploadVars

-----------------------------------------------------------------------------

\* A batch of which something is stored is not one the checks would refuse later
\* on: a rejected batch (415, 400) leaves nothing behind.
BegunIsValid ==
  \A s \in Slot : batch[s] # NoBatch /\ batch[s].next > 1 => Valid(batch[s])

\* However the publisher of an upload and that of a filter are typed, the filter
\* finds the upload when they mean one host: what the route lower-cases for.
FoundByDomain ==
  \A t \in Typed, e \in store :
    e[2] # Blank /\ e[2].host = t.host => Matches(LikeValue(t), e[2])

\* The page and its batches are well-formed, what is begun is valid, and what is
\* stored is found.
UploadInv == UploadTypeOK /\ BegunIsValid /\ FoundByDomain

Stored(f) == \E e \in store : e[1] = f

\* Why a file may leave the list: the admin takes it off, or the page gets the answer to
\* a request it still waits for, all of whose files are stored.
ClearedBy(s) ==
  /\ batch[s] # NoBatch /\ batch[s].waiting
  /\ batch'[s] = NoBatch
  /\ \A f \in Range(batch[s].files) : Stored(f)

\* Whatever else is under way, the page does not clear its list, and with it files that
\* are not stored, for a batch that is refused, fails half-way or lost its answer.
\* The files that go with those of the batch, added since or sent in another request,
\* need not be stored: that is NoneForgotten.
ClearedWhenStored ==
  [][Range(list) \ Range(list') # {} =>
       (\E i \in DOMAIN list : RemoveFile(i)) \/ (\E s \in Slot : ClearedBy(s))]_uploadVars

\* "avoid accidentally re-ingesting the same batch" (the page, at its clearFiles()): a file
\* leaves the list when it is taken off or when it is stored, and no other with it.
NoneForgotten ==
  [][\A f \in Range(list) \ Range(list') :
       (\E i \in DOMAIN list : RemoveFile(i)) \/ Stored(f)]_uploadVars

\* "a batch never lands half-applied" (docstring of the route): a file that was
\* sent is stored when the request is over, or none of its batch is.
NeverHalfApplied ==
  [][\A s \in Slot :
       (batch[s] # NoBatch /\ batch'[s] = NoBatch) =>
         (batch[s].next = 1 \/ batch[s].next > Len(batch[s].files))]_uploadVars
=============================================================================
