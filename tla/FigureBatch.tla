----------------------------- MODULE FigureBatch -----------------------------
(***************************************************************************)
(* The checkpointed figure job (figure_batch.run) under its supervisor     *)
(* (ingest_bulk_batch_resilient): collect every document, submit its       *)
(* figures in batches, wait for them, write the documents.  job.json and   *)
(* one plan file per document survive the process; so do the manifest, the *)
(* vector store and what the Batch API has accepted.  The process can die  *)
(* between any two steps, and some documents kill it.                      *)
(***************************************************************************)
EXTENDS Integers, Sequences, FiniteSets

CONSTANTS
  Doc,          \* documents, as numbers: they are taken in sorted order
  Figures,      \* Figures[d]: the figures of d, as numbers, in stream order
  Poison,       \* documents that kill the parser's process
  Cap,          \* figures per batch, for max_batch_bytes
  MaxEdits,     \* bound: changes of a document's file
  MaxFaults,    \* bound: parses that raise
  MaxCrashes,   \* bound: deaths of the process that no document causes
  MaxStops,     \* bound: runs with --collect-only
  MaxRechunks,  \* bound: runs with --rechunk
  None

ASSUME FigureAssumption ==
  /\ Doc \subseteq Nat /\ IsFiniteSet(Doc)
  /\ Figures \in [Doc -> SUBSET Nat]
  /\ \A d \in Doc : IsFiniteSet(Figures[d])
  /\ \A d, e \in Doc : d # e => Figures[d] \cap Figures[e] = {}
  /\ Poison \subseteq Doc
  /\ Cap \in Nat \ {0}
  /\ {MaxEdits, MaxFaults, MaxCrashes, MaxStops, MaxRechunks} \subseteq Nat
  /\ None \notin Nat

VARIABLES
  disk,         \* version of each document's file; a version is its own hash
  manifest,     \* the hash in the FileState manifest
  stored,       \* the sets of chunks of each document, one per ingest_pages call
  job,          \* job.json: the phase and the recorded batch ids
  plans,        \* the plan file of each document
  batches,      \* what the Batch API has accepted: the figures of each batch
  answers,      \* the figures it has transcribed, None while a batch is running
  incremental,  \* the run is a bulk load of what is new, not a full reprocess
  pc,           \* where the process is
  left,         \* documents the collect has still to look at
  cursor,       \* the batch chunk the submit has come to
  at,           \* the document at hand
  text,         \* the version of it that was parsed
  texts,        \* the figures whose transcriptions were fetched
  target,       \* where the supervisor saw this attempt resume its collect
  chunker,      \* which chunker the process runs
  spent         \* edits, faults, crashes, stops and rechunks so far

durable == <<disk, manifest, stored, job, plans>>
server == <<batches, answers>>
local == <<left, cursor, at, text, texts>>
rest == <<incremental, target, chunker>>
vars == <<durable, server, local, rest, pc, spent>>

Phases == {"collecting", "submitting", "submitted", "writing", "done"}

Plans == [text : Nat \cup {None}, hash : Nat, written : BOOLEAN, failed : BOOLEAN]

\* None is no plan, and no job.
ASSUME NoneAssumption == None \notin Plans \cup [phase : Phases, ids : Seq(Nat)]

AllFigures == UNION {Figures[d] : d \in Doc}

Chunks == [text : Nat \cup {None}, figures : SUBSET AllFigures, chunker : Nat]

\* The files, the job's cursor and plans, the server's batches and the local
\* state of the process have their types: a recorded id is one the API gave.
TypeOK ==
  /\ disk \in [Doc -> Nat]
  /\ manifest \in [Doc -> Nat \cup {None}]
  /\ stored \in [Doc -> Seq(Chunks)]
  /\ job \in [phase : Phases, ids : Seq(DOMAIN batches)] \cup {None}
  /\ plans \in [Doc -> Plans \cup {None}]
  /\ batches \in Seq(SUBSET AllFigures)
  /\ answers \in [DOMAIN batches -> (SUBSET AllFigures) \cup {None}]
  /\ incremental \in BOOLEAN
  /\ pc \in {"down", "dead", "collect", "hash", "submit", "record", "poll", "fetch",
             "write", "index", "stamp", "mark", "rewind", "finished"}
  /\ left \subseteq Doc
  /\ cursor \in Nat
  /\ at \in Doc \cup {None}
  /\ text \in Nat \cup {None}
  /\ texts \subseteq AllFigures
  /\ target \in Doc \cup {None}
  /\ chunker \in Nat
  /\ spent \in [{"edits", "faults", "crashes", "stops", "rechunks"} -> Nat]

\* Some documents were ingested before, without their figures.
Init ==
  /\ disk = [d \in Doc |-> 0]
  /\ manifest \in [Doc -> {0, None}]
  /\ stored = [d \in Doc |->
                 IF manifest[d] = None THEN << >>
                 ELSE << [text |-> 0, figures |-> {}, chunker |-> 0] >>]
  /\ job = None
  /\ plans = [d \in Doc |-> None]
  /\ batches = << >>
  /\ answers = << >>
  /\ incremental \in BOOLEAN
  /\ pc = "down"
  /\ left = {}
  /\ cursor = 1
  /\ at = None
  /\ text = None
  /\ texts = {}
  /\ target = None
  /\ chunker = 0
  /\ spent = [what \in {"edits", "faults", "crashes", "stops", "rechunks"} |-> 0]

Spend(what, bound) ==
  /\ spent[what] < bound
  /\ spent' = [spent EXCEPT ![what] = @ + 1]

First(S) == CHOOSE d \in S : \A e \in S : d <= e

Unplanned == {d \in Doc : plans[d] = None}

\* A process that starts forgets what the last one knew.
Fresh ==
  /\ left' = Doc
  /\ cursor' = 1
  /\ at' = None
  /\ text' = None
  /\ texts' = {}

\* Where run() starts, in each phase of the job.
Entry(phase) ==
  CASE phase = "collecting" -> "collect"
    [] phase = "submitting" -> "submit"
    [] phase = "submitted"  -> "poll"
    [] phase = "writing"    -> "fetch"
    [] phase = "done"       -> "finished"

\* The supervisor notes where the collect will resume, and starts the process:
\* run() loads the job, or makes a new one and saves it.
Launch ==
  LET now == IF job = None THEN [phase |-> "collecting", ids |-> << >>] ELSE job
  IN /\ pc = "down"
     /\ job' = now
     /\ target' = IF now.phase = "collecting" /\ Unplanned # {}
                  THEN First(Unplanned) ELSE None
     /\ Fresh
     /\ pc' = Entry(now.phase)
     /\ UNCHANGED <<disk, manifest, stored, plans, server, incremental, chunker, spent>>

-----------------------------------------------------------------------------
(* collect_all. *)

CollectNext(d) == pc = "collect" /\ d \in left /\ d = First(left)

\* A document with a plan, or, in a bulk load, one the manifest says is current.
Skipped(d) == plans[d] # None \/ (incremental /\ manifest[d] = disk[d])

CollectSkip(d) ==
  /\ CollectNext(d)
  /\ Skipped(d)
  /\ left' = left \ {d}
  /\ UNCHANGED <<durable, server, rest, cursor, at, text, texts, pc, spent>>

CollectParse(d) ==
  /\ CollectNext(d)
  /\ ~Skipped(d)
  /\ d \notin Poison
  /\ at' = d
  /\ text' = disk[d]
  /\ pc' = "hash"
  /\ UNCHANGED <<durable, server, rest, left, cursor, texts, spent>>

\* The hash is taken after the parse, and the plan saved.
CollectHash(d) ==
  /\ pc = "hash"
  /\ at = d
  /\ plans' = [plans EXCEPT ![d] =
                 [text |-> text, hash |-> disk[d], written |-> FALSE, failed |-> FALSE]]
  /\ left' = left \ {d}
  /\ at' = None
  /\ text' = None
  /\ pc' = "collect"
  /\ UNCHANGED <<disk, manifest, stored, job, server, rest, cursor, texts, spent>>

\* A document that raises has no plan and is passed over.
CollectRaise(d) ==
  /\ pc = "hash"
  /\ at = d
  /\ Spend("faults", MaxFaults)
  /\ left' = left \ {d}
  /\ at' = None
  /\ text' = None
  /\ pc' = "collect"
  /\ UNCHANGED <<durable, server, rest, cursor, texts>>

\* The parser takes the whole process down.
ParserDies(d) ==
  /\ CollectNext(d)
  /\ ~Skipped(d)
  /\ d \in Poison
  /\ at' = d
  /\ pc' = "dead"
  /\ UNCHANGED <<durable, server, rest, left, cursor, text, texts, spent>>

CollectEnd ==
  /\ pc = "collect"
  /\ left = {}
  /\ job' = [job EXCEPT !.phase = "submitting"]
  /\ pc' = "submit"
  /\ UNCHANGED <<disk, manifest, stored, plans, server, rest, local, spent>>

\* --collect-only: return before anything is submitted.
CollectOnly ==
  /\ pc = "submit"
  /\ cursor = 1
  /\ Spend("stops", MaxStops)
  /\ pc' = "down"
  /\ UNCHANGED <<durable, server, rest, local>>

-----------------------------------------------------------------------------
(* submit_batch. *)

\* The figures of the plans, in a stable order, cut into chunks of Cap figures.
Selected ==
  UNION {Figures[d] : d \in {e \in Doc : plans[e] # None /\ ~plans[e].failed}}

Chunk(i) ==
  {f \in Selected : Cardinality({g \in Selected : g < f}) \div Cap = i - 1}

\* A chunk submitted on a prior run.
SubmitSkip ==
  /\ pc = "submit"
  /\ Chunk(cursor) # {}
  /\ cursor <= Len(job.ids)
  /\ cursor' = cursor + 1
  /\ UNCHANGED <<durable, server, rest, left, at, text, texts, pc, spent>>

\* Mutated: chunks submitted on a prior run are submitted again.
SubmitAgain ==
  /\ pc = "submit"
  /\ Chunk(cursor) # {}
  /\ batches' = Append(batches, Chunk(cursor))
  /\ answers' = Append(answers, None)
  /\ pc' = "record"
  /\ UNCHANGED <<durable, rest, local, spent>>

SubmitChunk ==
  /\ pc = "submit"
  /\ Chunk(cursor) # {}
  /\ cursor > Len(job.ids)
  /\ batches' = Append(batches, Chunk(cursor))
  /\ answers' = Append(answers, None)
  /\ pc' = "record"
  /\ UNCHANGED <<durable, rest, local, spent>>

\* The id that create returned is saved with the job.
RecordId ==
  /\ pc = "record"
  /\ job' = [phase |-> "submitting", ids |-> Append(job.ids, Len(batches))]
  /\ cursor' = cursor + 1
  /\ pc' = "submit"
  /\ UNCHANGED <<disk, manifest, stored, plans, server, rest, left, at, text, texts, spent>>

SubmitEnd ==
  /\ pc = "submit"
  /\ Chunk(cursor) = {}
  /\ job' = [job EXCEPT !.phase = IF job.ids = << >> THEN "writing" ELSE "submitted"]
  /\ pc' = IF job.ids = << >> THEN "fetch" ELSE "poll"
  /\ UNCHANGED <<disk, manifest, stored, plans, server, rest, local, spent>>

-----------------------------------------------------------------------------
(* poll_until_ended and fetch_results. *)

\* The API ends a batch; some of its figures may have failed or expired.
EndBatch(b) ==
  /\ answers[b] = None
  /\ \E S \in SUBSET batches[b] : answers' = [answers EXCEPT ![b] = S]
  /\ UNCHANGED <<durable, batches, rest, local, pc, spent>>

Recorded == {job.ids[i] : i \in DOMAIN job.ids}

PollEnd ==
  /\ pc = "poll"
  /\ \A b \in Recorded : answers[b] # None
  /\ job' = [job EXCEPT !.phase = "writing"]
  /\ pc' = "fetch"
  /\ UNCHANGED <<disk, manifest, stored, plans, server, rest, local, spent>>

\* What the recorded batches answer.
Transcribed == UNION {answers[b] : b \in Recorded}

FetchResults ==
  /\ pc = "fetch"
  /\ texts' = Transcribed
  /\ pc' = "write"
  /\ UNCHANGED <<durable, server, rest, left, cursor, at, text, spent>>

-----------------------------------------------------------------------------
(* write_all. *)

\* A document the write phase has still to do.
Owed(d) == plans[d] # None /\ ~plans[d].failed /\ ~plans[d].written

\* Mutated: what is stored of the document is kept.
WriteKeep(d) ==
  /\ pc = "write"
  /\ Owed(d)
  /\ at' = d
  /\ pc' = "index"
  /\ UNCHANGED <<durable, server, rest, left, cursor, text, texts, spent>>

\* Mutated: the checkpoint comes first.
WriteMarkFirst(d) ==
  /\ pc = "write"
  /\ Owed(d)
  /\ stored' = [stored EXCEPT ![d] = << >>]
  /\ plans' = [plans EXCEPT ![d].written = TRUE]
  /\ at' = d
  /\ pc' = "index"
  /\ UNCHANGED <<disk, manifest, job, server, rest, left, cursor, text, texts, spent>>

WriteDelete(d) ==
  /\ pc = "write"
  /\ Owed(d)
  /\ stored' = [stored EXCEPT ![d] = << >>]
  /\ at' = d
  /\ pc' = "index"
  /\ UNCHANGED <<disk, manifest, job, plans, server, rest, left, cursor, text, texts, spent>>

\* The text is the one of the plan, the figures are spliced in.
WriteIndex(d) ==
  /\ pc = "index"
  /\ at = d
  /\ stored' = [stored EXCEPT ![d] = Append(@,
                  [text |-> plans[d].text,
                   figures |-> Figures[d] \cap texts, chunker |-> chunker])]
  /\ pc' = "stamp"
  /\ UNCHANGED <<disk, manifest, job, plans, server, rest, local, spent>>

WriteStamp(d) ==
  /\ pc = "stamp"
  /\ at = d
  /\ manifest' = [manifest EXCEPT ![d] = plans[d].hash]
  /\ pc' = "mark"
  /\ UNCHANGED <<disk, stored, job, plans, server, rest, local, spent>>

WriteMark(d) ==
  /\ pc = "mark"
  /\ at = d
  /\ plans' = [plans EXCEPT ![d].written = TRUE]
  /\ at' = None
  /\ pc' = "write"
  /\ UNCHANGED <<disk, manifest, stored, job, server, rest, left, cursor, text, texts, spent>>

WriteEnd ==
  /\ pc = "write"
  /\ \A d \in Doc : ~Owed(d)
  /\ job' = [job EXCEPT !.phase = "done"]
  /\ pc' = "finished"
  /\ UNCHANGED <<disk, manifest, stored, plans, server, rest, local, spent>>

-----------------------------------------------------------------------------
(* reset_for_rechunk, and then run. *)

\* The job goes back to its write phase first, the plans one by one after it.
Rechunk ==
  /\ pc = "finished"
  /\ Spend("rechunks", MaxRechunks)
  /\ chunker' = chunker + 1
  /\ job' = [job EXCEPT !.phase = "writing"]
  /\ target' = None
  /\ pc' = "rewind"
  /\ UNCHANGED <<disk, manifest, stored, plans, server, local, incremental>>

Rewindable == {d \in Doc : plans[d] # None /\ plans[d].written /\ ~plans[d].failed}

RewindPlan(d) ==
  /\ pc = "rewind"
  /\ d \in Rewindable
  /\ plans' = [plans EXCEPT ![d].written = FALSE]
  /\ UNCHANGED <<disk, manifest, stored, job, server, rest, local, pc, spent>>

RewindEnd ==
  /\ pc = "rewind"
  /\ Rewindable = {}
  /\ Fresh
  /\ pc' = "fetch"
  /\ UNCHANGED <<durable, server, rest, spent>>

-----------------------------------------------------------------------------
(* Deaths, the supervisor, and the folder. *)

Crash ==
  /\ pc \notin {"down", "dead", "finished"}
  /\ Spend("crashes", MaxCrashes)
  /\ pc' = "dead"
  /\ UNCHANGED <<durable, server, rest, local>>

\* Mutated: no document is ever given up.
SuperviseAgain ==
  /\ pc = "dead"
  /\ pc' = "down"
  /\ UNCHANGED <<durable, server, rest, local, spent>>

\* When the collect would resume where this attempt did, the document there is
\* marked failed, and the next attempt moves past it.
Supervise ==
  /\ pc = "dead"
  /\ plans' = IF target # None /\ plans[target] = None
              THEN [plans EXCEPT ![target] =
                      [text |-> None, hash |-> disk[target],
                       written |-> FALSE, failed |-> TRUE]]
              ELSE plans
  /\ pc' = "down"
  /\ UNCHANGED <<disk, manifest, stored, job, server, rest, local, spent>>

EditDocument(d) ==
  /\ Spend("edits", MaxEdits)
  /\ disk' = [disk EXCEPT ![d] = @ + 1]
  /\ UNCHANGED <<manifest, stored, job, plans, server, rest, local, pc>>

DocumentStep(d) ==
  \/ CollectSkip(d) \/ CollectParse(d) \/ CollectHash(d) \/ ParserDies(d)
  \/ WriteDelete(d) \/ WriteIndex(d) \/ WriteStamp(d) \/ WriteMark(d)
  \/ RewindPlan(d)

\* What the process and its supervisor do by themselves.
JobStep ==
  \/ Launch \/ Supervise
  \/ \E d \in Doc : DocumentStep(d)
  \/ CollectEnd \/ SubmitSkip \/ SubmitChunk \/ RecordId \/ SubmitEnd
  \/ PollEnd \/ FetchResults \/ WriteEnd \/ RewindEnd

Next ==
  \/ JobStep
  \/ \E b \in DOMAIN batches : EndBatch(b)
  \/ \E d \in Doc : CollectRaise(d) \/ EditDocument(d)
  \/ CollectOnly \/ Rechunk \/ Crash

Spec == Init /\ [][Next]_vars

\* The job's process runs on, the supervisor relaunches it, and the API ends
\* every batch.
FairSpec ==
  /\ Spec
  /\ WF_vars(JobStep)
  /\ WF_vars(\E b \in DOMAIN batches : EndBatch(b))

-----------------------------------------------------------------------------
(* Properties. *)

\* A figure is paid for once, and once more at most for each crash: a restart
\* sends only the chunks whose ids were not recorded, and once all is submitted
\* the recorded batches hold each figure of the plans exactly once.
SubmittedOnce ==
  /\ \A f \in AllFigures :
       Cardinality({b \in DOMAIN batches : f \in batches[b]}) <= 1 + spent.crashes
  /\ job # None =>
       /\ \A i, j \in DOMAIN job.ids :
            i # j => batches[job.ids[i]] \cap batches[job.ids[j]] = {}
       /\ job.phase \in {"submitted", "writing", "done"} =>
            UNION {batches[b] : b \in Recorded} = Selected

\* A document that is in the manifest has no chunks only while the job owes them:
\* whatever crash came between the delete and the index, a restart will write it.
NotWiped ==
  \A d \in Doc : manifest[d] # None /\ stored[d] = << >> =>
    Owed(d) /\ job.phase = "writing"

\* When the job is done, each planned document is stored once, with every figure
\* the API transcribed for it, and stamped, whatever crashes the writing went
\* through; and by the current chunker, unless a crash cut the rewinding short.
DoneIsWritten ==
  job # None /\ job.phase = "done" =>
    \A d \in Doc : plans[d] # None /\ ~plans[d].failed =>
      /\ plans[d].written
      /\ manifest[d] = plans[d].hash
      /\ Len(stored[d]) = 1
      /\ stored[d][1].figures = Figures[d] \cap Transcribed
      /\ spent.crashes = 0 => stored[d][1].chunker = chunker

\* A document given up on keeps the chunks it had before the job.
FailedIsKept ==
  \A d \in Doc : plans[d] # None /\ plans[d].failed =>
    /\ manifest[d] = None => stored[d] = << >>
    /\ manifest[d] # None => stored[d] = << [text |-> 0, figures |-> {}, chunker |-> 0] >>

\* The checkpoint is well-formed, and what a document had is neither wiped nor,
\* when the document is given up, replaced.
JobInv == TypeOK /\ NotWiped /\ FailedIsKept

\* A run that dies is resumed and ends, although some documents kill each
\* process that parses them, and in a bulk load documents without a plan come
\* before them.
JobFinishes == (pc = "down") ~> (pc = "finished")

-----------------------------------------------------------------------------
(* What the documentation of the code says and the code does not do. *)

\* figure_batch.py:626-627: the stamp in the manifest "tells the live scheduler
\* the document is current, so it won't re-ingest it".  When the job is done, a
\* document that is current by the manifest is the one that is stored.
CurrentIsStored ==
  job # None /\ job.phase = "done" =>
    \A d \in Doc : manifest[d] = disk[d] =>
      Len(stored[d]) = 1 /\ stored[d][1].text = disk[d]

\* ingest_bulk_batch_resilient.py:10-12: "If one document crashes the parser even
\* in a fresh process (no progress made), it is marked failed".  A document that is
\* marked failed is the one that was at hand when the process died.
BlamedDiedThere ==
  [][\A d \in Doc : plans[d] = None /\ plans'[d] # None =>
       (plans'[d].failed => at = d)]_vars

\* figure_batch.py:671-673: a run after reset_for_rechunk "re-writes each document with the
\* *current* chunker/config".  When the job is done, each document it wrote is.
DoneIsCurrentChunker ==
  job # None /\ job.phase = "done" =>
    \A d \in Doc : plans[d] # None /\ ~plans[d].failed =>
      \A i \in DOMAIN stored[d] : stored[d][i].chunker = chunker
=============================================================================
