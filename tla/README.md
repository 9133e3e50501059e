# IndustryIQ: a verification development

TLA+ models of the parts of IndustryIQ whose correctness depends on the order of things
or on a case that is hard to reach: research plans run by workers over a queue or by
threads in one process, the ingestion of a folder and its schedule, uploads, the
checkpointed job that adds figures to a corpus, conversations, accounts, the wiring of
the process, and the way of a text from a file to a cited answer. TLC checks small
instances of all of them; TLAPS proves every invariant of the passing runs for every value of
the parameters.

Paths are relative to the repository; `core/` is `src/industryiq/core/`, `api/` is
`src/industryiq/api/`.

## 1. Inventory

| Component | State it keeps | Operations | Hard behaviours | What makes it correct | Module |
|---|---|---|---|---|---|
| In-memory task queue (`core/agents/adapters/queue_memory.py`) | undelivered tasks, claims in flight, dead letters | enqueue, claim, ack, reclaim, dead_letter | idle claims are taken from holders that are alive; acks go by id | no task is lost; deliveries are numbered | `TaskQueue` |
| Redis task queue (`queue_redis.py`) | stream, consumer group, pending entries, dead stream | the same, several commands each | death and overtaking between two commands, counts read before they grow | pending is runnable; no dead letter without a delivery too many | `RedisQueue` |
| Worker (`core/agents/worker.py`) | its batch, in memory | run_once, _process | competing workers, death between result and ack, capabilities that raise | result before ack, no ack after a failure | `AgentWorker`, `RedisQueue` |
| Supervisor, plan, synthesis (`supervisor.py`, `models.py`, `synthesis.py`) | enqueued nodes, deadline | execute, collect_results | works on old snapshots, stops at a deadline, runs again over leftovers | dependencies first, all or late, closed answers | `AgentRun` |
| Planner, local executor (`planner.py`, `executor_local.py`) | wave, futures | plan, execute | any proposal of a model; a node that raises while its wave runs | only schedulable plans; nothing runs on after the answer | `LocalRun` |
| Ingestion service (`core/ingestion/service.py`) | lock; manifest of hashes | run_once | files change under the scan, any call raises, death, overlapping runs | what is recorded is stored, once | `Ingestion` |
| Ingest scheduler, lifespan (`scheduler.py`, `api/app.py`) | last run, task, lock | start, stop, tick, run now | an admin's run against a tick, settings changed between two steps, restarts | one scan at a time; every change gets into a run | `Scheduler` |
| Admin upload (`api/admin_routes.py`, page of the frontend) | list of files, requests under way | add, move, remove, upload | the list changes while a request is under way; a batch fails half-way | the list is cleared only for a batch that is stored whole | `AdminUpload` |
| Figure batch job (`core/figure_batch.py`) | job.json, a plan file per document | run, reset_for_rechunk | resumed at any point, paid batches | nothing paid twice, nothing wiped | `FigureBatch` |
| Its supervisor (`scripts/ingest_bulk_batch_resilient.py`) | none | relaunch, give up a document | documents that kill the process | the job ends | `FigureBatch` |
| Chat (`core/chat/`, session documents) | conversations, turns, uploads | ask, delete, rename, upload | streams that outlive a conversation, concurrent questions | what a client was told is known to its next question; a delete leaves nothing | `Chat` |
| Auth (`core/auth/`) | users, tokens | register, authenticate | lookup and insert are two calls; ids and restarts | who registered logs in; a token leads to its own account | `Accounts` |
| Wiring (`api/deps.py`) | a cache per builder and process | build | builders race, restarts, two processes | one state for each role of a process | `Wiring` |
| Loaders, chunking, figures (`core/loaders.py`, `chunking.py`, `figure_vlm.py`) | none | parse, recover, chunk | a parse that fails late, markers and pictures that do not match | no text is lost; figures, pages and sections are right | `Documents` |
| Retrieval, vector stores (`core/retrieval/`, `vectorstore.py`, `milvusvectorstore.py`, `pgvectorstore.py`) | rows | search, expand, upsert, delete | documents replaced under a search; two stores that fail separately | the same rows everywhere; nothing shown twice or withheld | `Search` |
| Grounding, citations (`core/grounding.py`, `core/agents/grounding.py`, `capabilities.py`, `synthesis.py`) | results, turn | number, check, renumber, note | several numberings merged, a model that composes | a number points at what its author meant | `Citations` |
| Model clients, frontend, infrastructure, benchmarks, one-off scripts | none of the program's own | | | | not modelled |

How they interact. The chat API hands a complex turn to the planner and to the local
executor or the supervisor. The supervisor enqueues one task per node of the plan; workers
(threads, or `scripts/run_worker.py` processes) claim tasks, run a capability and post the
result on the blackboard, which the supervisor polls. A simple turn searches the
conversation's uploads and the corpus. The scheduler and the admin route call the same
`run_once`, which compares hashes with the manifest and calls the pipeline, which chunks,
embeds and stores. The figure job uses the same pipeline, stores and manifest from a
process of its own. `api/deps.py` decides which objects share which state.

`PROJECT.json` lists all components with their status, and the hazards of this code at
the lines where they bite, with the properties that would catch each going wrong.

## 2. The modules

    TaskQueue  <-  AgentWorker  <-  AgentRun  <-  MCAgentRun, AgentRunProofs
                                       |  refines RunPromise and QueuePromise
    RedisQueue  <-  MCRedisQueue, RedisQueueProofs
        |  refines QueuePromise
    Ingestion    <-  MCIngestion
    FigureBatch  <-  MCFigureBatch, FigureBatchProofs
    Subsequences  <-  Chat  <-  MCChat, ChatProofs
    Accounts, Scheduler, AdminUpload, Wiring  <-  MCService, ServiceProofs
    Subsequences  <-  LocalRun, Search, Citations
                          |  LocalRun refines RunPromise
    Documents, LocalRun, Search, Citations    <-  MCAnswers
    LocalRun, Search, Citations  <-  AnswerProofs
    Ingestion, Documents         <-  IngestionProofs

`Subsequences` is the elements of a sequence at some of its positions: a comprehension with a
condition, or the rows a WHERE leaves. `SubsequenceProofs` has the lemmas about it, and about
flattened sequences, that `ChatProofs`, `AnswerProofs` and `IngestionProofs` cite.

`MCService` and `MCAnswers` put modules side by side that share no variable: the constant
`Part` says which may run, a behaviour is one of one part, and the state space is the sum of
theirs, not the product. Each part is checked as if it were alone; the modules are not
claimed to interact there.

Definitions commented "Mutated" are variants of the definition below them with a
plausible mistake; they are never part of a specification and serve to show that a
property notices the mistake.

### TaskQueue, AgentWorker, AgentRun

`TaskQueue` is `InMemoryTaskQueue`. Each operation runs under its lock and is one action.
A task id is its position in the order of enqueueing; `waiting` is `_undelivered`,
`inFlight` is `_in_flight` with the time since the last delivery reduced to "idle for
`min_idle_ms` or not", `dead` is `_dead`. The queue outlives a worker, as the queue of the
port does when workers are processes.

`AgentWorker` is `Worker`. `ClaimWork`, `ClaimNothing`, `ReclaimWork` and `ReclaimNothing`
are `run_once` and the loop around it; `GiveUp`, `SkipDone`, `StartNode`, `FailNode`,
`WriteResult`, `AckResult` are `_process`, branch by branch, in the order of the code: the
attempt count first, then the blackboard. A batch is processed oldest first while the
idle time of all its tasks runs. `FailNode` stands for the failure hook, the capability or
the grounding gate raising. A call of the queue or the blackboard that raises leaves
`_process` and ends the worker: that is `Crash`.

`AgentRun` adds `Supervisor.execute` and `collect_results`. `ready` is the wave computed
at the last poll: enqueueing works from it while the blackboard moves on. The deadline
may pass at any time after the call but is looked at only by the loop. `Execute` may be
called again for the same plan, over the queue and blackboard the last execution left.
`collect_results` reads node by node; the model lets it read in any order, which is more
than the code does.

`RunPromise` is what a caller may rely on: a node is released only when everything it
depends on has a result, results stay, and the answer is closed under dependencies
and complete unless the run was late. `QueuePromise` is what the port promises of any queue
with workers on top: a task stays in the queue until its node has a result or it is in
the dead letters, and neither is taken back. `AgentRun` and `RedisQueue` both refine it.
`RunPromise` is the contract of the `PlanExecutor` port, which two classes implement: `AgentRun`
refines it for `Supervisor`, `LocalRun` for `LocalExecutor`.

Left out: ledger events, payloads, the run id (one plan is modelled, under one id), the
text of results.

### RedisQueue

The commands of `RedisTaskQueue`, each an action: XADD; XREADGROUP; XPENDING, then XCLAIM with
the counts read before; XACK, then XDEL; XADD to the dead stream, then the ack. `pel` is the
pending entries list with holder, idle time and delivery count, `last` the group's
last-delivered id. A worker may die, or be overtaken by another, between any two commands.
`GrowIdle` is the passing of `min_idle_ms`. The blackboard is one write and one read. The
expiry of keys is left out: the queue is wired without a time to live.

### Ingestion

`IngestionService.run_once` called by several runners, step by step as the code calls:
hash, look at the manifest, delete from each backend, load, upsert into each backend,
stat and record. A version of a file is its own hash; `chunks[k][s]` holds one member for
each `index()` call, because `Retriever.index` gives every call fresh ids and nothing
else makes two sets of chunks differ. Between any two steps a file may change, any call
may raise (`Fault`, and `Vanished` for a file that is gone), and the process may die. An upload
through the admin endpoint may use the key of a scanned file. `listed` is what remains of
the run summary: the sources some run has put in its failures. `Gone` and the tree listed
by `Start` are the `is_file` test and the `rglob`; removals of files are looked for by
nobody. A busy `run_once` and a missing path change nothing and have no action. Pages
without any text, of which nothing is stored, are left out.

### Scheduler

When the folder is scanned. `Wake`, `Tick` and `Stamp` are the loop of `IngestScheduler`:
the poll, the reading of the settings with the test whether a run is due, and the note of
the last run, which a tick takes also when `run_once` answers that it is busy; `TickRaises` is a tick
whose settings cannot be read, which the loop swallows. `Acquire`,
`Busy`, `BadPath`, `BeginScan`, `EndScan`, `Record` are `run_once` around its scan, for the loop
and for each admin that presses "run now"; `RunRaises` ends it anywhere. The settings may
change between any two steps. `Stop` cancels the task but not the thread of a run in
progress; `NewProcess` forgets the lock and the last run. Time is counted in polls.

### AdminUpload

The page and the route behind it. The list of files can be added to, reordered and cut while
requests are under way, and the button works meanwhile; a request carries a copy of the list,
the rows of the manifest, which belong to files by order alone, and the fields. The route
checks the whole batch, then ingests file by file; a fault leaves what was stored before.
`Succeed` empties the list of a page that still waits, whatever is on it by then: files added since
the button was pressed, or sent in a request that may still fail, go with it (`NoneForgotten`, in
section 5). Of the metadata fields the publisher
is kept, because it is also normalised, differently for an upload and for a filter.

### FigureBatch

`figure_batch.run` in all its phases under the loop of `ingest_bulk_batch_resilient`.
Durable: `job` (job.json), `plans` (a file per document), the manifest and the store, each
replaced atomically as the code does. On the server: `batches` and `answers`. Everything
else is lost when the process dies. Actions follow the code: the collect takes documents
in order and skips by plan or (in a bulk load) by manifest; the text is parsed before the
hash is taken; the submit skips as many chunks as there are ids and saves each id after
the API returned it; the write deletes, indexes, stamps, and marks the plan. `Supervise` is the
test of the loop: the first document without a plan before the attempt is compared with
the one after it.

Abstractions: a batch is filled by number of figures (`Cap`) instead of bytes; documents
are written in the order the model chooses, not by the key of their plan file; the
supervisor has no cap of 120 attempts; `min_pixels` and the model are the same in every run;
a non-PDF document goes through the same two steps (it is hashed before it is loaded, so
only the order differs); an exception in the submit, poll or write phase ends the process
and is a `Crash`.

### Chat

One API process, whose threads (`Request`) serve the chat routes without any lock.
`postgres` and `redis` choose the two stores, as `DATABASE_URL` and `REDIS_URL` do; TLC takes
all four combinations. A question goes through `Ask` (the route's `_require_owned`),
`LoadConversation` (the service asks again), `LoadHistory` with the route decision,
`Retrieve` once or, broadened, twice, `Persist`, in Postgres `Commit`, and `End`, the last
event; a turn remembers the history it was answered from (`seen`) instead of its answer.
An upload is `Upload`, `OpenSession` (the in-memory `setdefault`), `Index`, `End`; a delete is
`Delete`, `StoreDelete`, `Clear`; a rename is `Rename`, `RenameStore` and, in memory only,
`Retitle`, which stores the conversation it looked up before. `Abort` ends a request
anywhere: a call raised, or the client of a stream left. `Expire` is the time to live of
a Redis key, `Restart` keeps what the chosen stores keep. `used`, `told`, `lost` and `closed`
are history: identities given out, what clients were told, what was removed, and the
conversations deleted while no request was past its last test of existence.

Two details of the stores matter. A row of Postgres has its place (`seq`) from the
insert on but is visible from the commit on, so a reader may miss a turn between two others.
An upload into the in-memory store writes into the session object it opened: after a
`Clear` that object is nobody's, while a Redis key is simply written again.

Left out: titles, the text of answers, which of the searched chunks are returned. A
request for another user's conversation ends like one for a missing conversation and has
no action, nor has an upload without text, of which nothing is stored.
`HistoryLimit` is positive (the policy says 6).

### Accounts

`AuthService` over either user store (`postgres`). `Register` looks the address up and
`Create` or `CreateFails` is the insert, in separate steps of a client's request: in Postgres
a unique column refuses a second row, the dictionary of the in-memory store overwrites.
An address is trimmed and lower-cased (`Canon`). Tokens are signed and stateless, so
they outlive `RestartServer`, which the in-memory users do not; ids are new every time. `told`
and `raced` are history: what clients were told they registered, and the addresses two
registrations went for at once. A password is compared, not hashed; refused requests change
nothing and have no action.

### Wiring

The builders of `api/deps.py` as a call graph (`AgentCalls` to `AdminCalls`), run by threads:
`Hit` and `Miss` are a call answered from the cache of `lru_cache` or not, `Return` caches the
first result, `Raise` is a builder that cannot build. Two threads that come first together
build twice. An object is the set of stores it reaches, each a role with its owner: an
outside service or the call that made it in memory. Server and worker are two processes
with a cache each; their calls commute and are taken one process at a time (`Alone`).

### Documents

From a file to its chunks. A page is a sequence of lines; a line has a kind and a key, the
place it is printed at, so that order, pages and losses can be told without text. `Exported`
and `TextLayer` say what the layout parser and the text layer make of a page and are
external. `Convert`, `Annotate`, `Export`, `Recover`, `RecoverFails` and `Index` are the parse with its
figures, the zipping of transcriptions with image markers (or the block at the end, when
their numbers differ), the recovery of lines the layout left out but for running headers, and
the chunker: sections, tables and fences, windows with overlap, small pieces joined. A parse
that raises anywhere falls back to `LoadFlat`, and when the text layer cannot be read either
(`LoadFails`) nothing is indexed. What the chunker does line by line is given by the
places where it cuts: `Spans` are the stretches between them, `turns` the windows it comes to. The
one loop with a memory, `_coalesce_small`, is a fold of `TakePiece`.

### LocalRun

`LlmPlanner` and `LocalExecutor`. The planner is there step by step: `Parse` answers a malformed
proposal with the fallback plan of one node; `_is_schedulable` goes in passes over
the nodes, one node at a time (`Consider` orders it, `PassOver` leaves it), and `NextPass` begins
again as long as the last pass ordered any; `MakePlan` keeps the proposal when all are ordered and
replaces it when some are in a cycle. A wave is given to a pool, `Wait` takes the results in the
order of the wave, and a failure leads to `Unwind`, which waits for every node of the wave, queued
ones too. `Post` and `Log` are separate steps of a thread.

`LocalRunKeepsPromise` is the refinement of `RunPromise`. The plan is a variable here and a constant
there, so the instance has the items as its parameter and the property speaks of each step under
the plan it leaves: a node is released when a thread takes it, done when its result is posted,
and `late` is FALSE, for there is no deadline. A lost run stays one that never answers. The
property has a second part, `OverIsOver`: no thread of a run posts anything after it.

### Search

`RetrievalService.gather` and the plain corpus search over one or two stores: the uploads by
cosine, then the corpus by the strategy routed to, in Milvus for a reciprocal rank fusion in two
calls; threshold, minimal length, the merge that puts uploads first, the neighbour expansion,
and one retry without the filter (`Broaden`). `SearchShared` is a search in one call; `FuseShared` and
`Refetch` are the two calls of a fusion, of which the second finds only what is still
there; `Unsupported` is the error of a plan the deployment cannot follow. The expansion is one
`FetchNeighbors` for each source, then `ExpandHit` for each hit in the order of their ranks.
Meanwhile the ingestion may replace a document, store by store, and fail. `Stored` and
`Read` say what becomes of metadata in a row of each store; a filter is applied as it is
compiled for the store. A text is identified by its place and revision; scores belong to places
and are chosen from `Scorings`. What a store or a fusion answers is any ranking (`Leading`) that
agrees with the scores, or, of a fusion, with what is ahead in both searches: how ties are
broken is the store's affair. Left out: rerankers and rewriting, which call models; `str()` around the
columns a Milvus row is split into, which are strings already; and `clamp_section` of the expansion,
which no deployment turns on.

### Citations

What the `[n]` of an answer point at. An answer is its markers, and each carries, unseen by
the code, what its author meant by it. Covered are a simple turn, a turn by planning and
`/agents/run`, with the gate off, deterministic or judging: a node's own check, `collect_results`,
the merge of the sources, one at a time in the order of the plan (`TakeSource`, `NextResult`), the
list sent ahead of the answer (`Announce`), the renumbering of each node's markers, the composed
answer and its check, the note, and what is stored as the turn. The judge's verdict and the model's
text are any.

## 3. The runs

Deadlock checks are off where a system really comes to rest: a plan that is executed, a
folder that no longer changes, a job that is done; what must not rest is stated as liveness.
The chat never rests, and the parts of `answers` end in a step that repeats.

| Run | Instance | Shows |
|---|---|---|
| `agents_join` | three nodes, one joining two; two workers; batches of two; one attempt; one crash | `NoLostTask`, `DependencyOrder`, `ReturnedClosed`, `CompleteUnlessExpired` |
| `agents_twice` | a chain of two, executed twice over the same queue; one attempt; one crash | `DeadOncePerDelivery`; `KeepsPromise` and `KeepsQueuePromise`, the refinements of `RunPromise` and `QueuePromise` |
| `agents_live` | a chain; two workers that may die; fairness | `ExecutionReturns`, `QueueDrains` |
| `redis_queue` | two tasks, two workers, batches of two, one attempt, a death between any two commands; fairness | `QueueInv`, `KeepsQueuePromise`, `EveryTaskSettles` |
| `ingest_faulty` | one file of two contents that comes, goes and returns; two runners, two backends; two faults, a crash, an upload | `IngestInv`, `RecordedNeverMultiplies` |
| `ingest_recovers` | two files, three contents that never return; two backends; a fault, a crash; fairness | `SkippedIsStored`, `Converges` |
| `ingest_restored` | violation of `RecordedIsStored` | a file restored after a failed replacement is skipped although nothing of it is stored |
| `figures_resume` | three documents with 2, 0 and 1 figures, the second kills the parser; one each of: change, raise, crash, stop, rechunk; fairness | `JobInv`, `SubmittedOnce`, `DoneIsWritten`, `JobFinishes` |
| `chat_races` | one conversation, two requests at a time; three questions, one upload, a context of two turns; any number of deletes, renames, aborts, expiries and restarts | `ChatInv`, `ReadYourWrites`, `ClosedIsEmpty` |
| `service` | `MCService`: two clients, three spellings of two addresses; the loop and one admin, two changes of the folder; two files, one of a kind no loader knows, two requests under way; two threads, three deployments, a restart | `AccountsInv`, `SchedulerInv`, `LastRunIsLatest`, `ChangesAreScanned`, `UploadInv`, `ClearedWhenStored`, `WiringInv` |
| `answers` | `MCAnswers`: documents of up to four lines and a few larger ones; all proposals of up to three items on two threads; a report of three chunks, a page and two uploads, named apart, alike or like the report, on three deployments of the stores, with scores on both sides of the cutoff, two hits kept, one replacement; runs of two nodes and answers of two markers | `DocumentsInv`, `NothingIsLost`; `LocalRunInv`, `LocalRunKeepsPromise`, `EveryRunEnds`; `SearchInv`, `ExpansionIsExact`, `NothingWithheld`; `CitationsInv`, `MarkersMean` |
| `figures_loud` | violation of `MisconfiguredIsLoud` | figures configured without a key are skipped with a warning |

Why these bounds are enough. Three nodes with a join are the smallest plan in which one
dependency can be there without the other; a chain is the smallest in which a wave
follows another. Two workers are needed to take a task from its holder, and a batch of two
to let a task grow idle behind another. With `MaxAttempts = 1` every task already meets
both sides of the limit. One crash is a crash between any two steps. In the ingestion two
runners are the two callers the program has, two backends are what `VECTOR_BACKEND=both`
configures, one file is enough for what concerns one source and two for the order of a
scan. In the figure job `Cap = 2` gives two batches of which one is resumed,
and the poison document stands between two others. In the chat all state is kept by
conversation, so one is enough; three questions are the fewest with which one is lost to the
other two or seen out of order, and every race modelled is one of two requests. Two spellings
of one address and another address make a registration race and a bystander; an interval of
two polls tells due from not due; two changes of a folder tell the last recorded one from an
older one. A batch of two files is the smallest with a middle, and its second request the
smallest that changes the list under the first. Chunks of two words with an overlap of one,
over pages of four lines, meet every boundary of the window. Three neighbours with a radius of
one have windows that overlap; keeping two hits leaves one out. Two nodes with two markers
are the fewest whose numberings collide.

Fairness. Agents: the supervisor's loop, every worker that is up, the deadline and the
idle clock go on; no restart is assumed: after `MaxCrashes` deaths some worker is
left, and it takes over. Nothing is assumed of a capability: it may fail each time.
Redis: the same of its workers and of idle time. Ingestion: a scan that has begun continues,
and some runner begins another one, which the scheduler does at its interval; this holds
while the job is enabled. Scheduler: the loop and every run in progress go on;
`ChangesAreScanned` supposes that from some time on the job stays on, its path is a directory,
the process stays up and no run raises. Figures: the process runs on, the supervisor
relaunches it, the API ends every batch (it expires them after a day). `ParserDies` is a step
of the process, so fairness does not spare it. Local run: the caller and the threads of its
pool go on, as they do in a process that lives.

Conditions in the properties. `ClosedIsEmpty` speaks of deletes without a writer past its last
test of existence: with one, the code does leave turns and uploads behind, and the in-memory
rename brings the conversation back (`DeletedIsEmpty`). `ReadYourWrites` excepts what was removed meanwhile.
`UnlistedIsIngestedOnce`, the second half of `IngestInv`, speaks of runs without a death, as a
death lists nothing. `SkippedIsStored` and `Converges` are checked where a content
never comes back (`Fresh`); `ingest_restored` shows what happens when it does. `DoneIsWritten`
asks for the current chunker only without a crash: `reset_for_rechunk` saves the phase before
it clears the flags, and a death in between leaves documents that are not rewritten
(`DoneIsCurrentChunker`). `ClearedWhenStored` speaks of the files of the request that is answered, and
`NoneForgotten` of every file on the list.
`AccountsInv` excepts, in memory only, addresses two registrations went for at once: there the
first is told an account that the second replaces (`OneAccountPerAddress`). `OffMeansOff`, in `SchedulerInv`, allows
the one scan whose tick had read the switch before it was turned. `BuiltOnce`, in `WiringInv`,
excepts processes in which a builder ran twice at once (`AlwaysBuiltOnce`), and the vectors: the pipeline and the
retrieval service each make a store of their own, which in memory are two. `MarkersMean` and
`NothingFromMemory` speak of the gate being on, and the latter not of a turn of several nodes that is
streamed: its answer is sent before it can be checked, and gets a note of its numbers only.

## 4. The proofs

Each component's theorems are in a module of their own. They hold for all values of the
constants that satisfy the named assumptions of the component's module: the parameters
have their types, bounds are naturals, the special values are not members of the sets they
stand beside. All bounds are proved for any value, so no theorem depends on how often
something may fail.

| Theorem | States |
|---|---|
| `AgentRunProofs!TypeCorrect` | `Spec => []TypeOK` |
| `AgentRunProofs!NoTaskIsLost` | `Spec => []NoLostTask` |
| `AgentRunProofs!DependenciesFirst` | `Spec => []DependencyOrder` |
| `AgentRunProofs!ReturnsClosed` | `Spec => []ReturnedClosed` |
| `AgentRunProofs!ReturnsEverything` | `Spec => []CompleteUnlessExpired` |
| `AgentRunProofs!RunKeepsPromise` | `Spec => KeepsPromise` |
| `AgentRunProofs!DeliveredOnce` | `Spec => []UniqueDelivery` |
| `AgentRunProofs!BuriedOnce` | `Spec => []DeadOncePerDelivery` |
| `AgentRunProofs!RunKeepsQueuePromise` | `Spec => KeepsQueuePromise` |
| `RedisQueueProofs!QueueIsSafe` | `Spec => []QueueInv` |
| `RedisQueueProofs!RedisKeepsPromise` | `Spec => KeepsQueuePromise` |
| `IngestionProofs!IngestionIsSafe` | `Spec => []IngestInv` |
| `IngestionProofs!RecordedIsReplaced` | `Spec => RecordedNeverMultiplies` |
| `IngestionProofs!SkippedStaysStored` | `NeverBack => (Spec => []SkippedIsStored)` |
| `IngestionProofs!NothingGetsLost` | `DocumentsSpec => []NothingIsLost` |
| `IngestionProofs!PlacesAreTrue` | `DocumentsSpec => []DocumentsInv` |
| `FigureBatchProofs!JobIsSafe` | `Spec => []JobInv` |
| `FigureBatchProofs!DoneStaysWritten` | `Spec => []DoneIsWritten` |
| `FigureBatchProofs!FiguresSubmittedOnce` | `Spec => []SubmittedOnce` |
| `ChatProofs!ContextsArePast` | `Spec => []ChatInv` |
| `ChatProofs!WritesAreRead` | `Spec => []ReadYourWrites` |
| `ChatProofs!ClosedStaysEmpty` | `Spec => []ClosedIsEmpty` |
| `ServiceProofs!SchedulerIsSafe` | `SchedulerSpec => []SchedulerInv` |
| `ServiceProofs!LastRunStaysLatest` | `SchedulerSpec => LastRunIsLatest` |
| `ServiceProofs!AccountsAreSafe` | `AccountsSpec => []AccountsInv` |
| `ServiceProofs!UploadIsSafe` | `UploadSpec => []UploadInv` |
| `ServiceProofs!ClearedOnlyWhenStored` | `UploadSpec => ClearedWhenStored` |
| `ServiceProofs!WiringIsSafe` | `WiringSpec => []WiringInv` |
| `AnswerProofs!LocalRunIsSafe` | `LocalRunSpec => []LocalRunInv` |
| `AnswerProofs!NothingRunsOn` | `LocalRunSpec => OverIsOver` |
| `AnswerProofs!LocalRunIsARun` | `LocalRunSpec => LocalRunKeepsPromise` |
| `AnswerProofs!SearchIsSafe` | `SearchSpec => []SearchInv` |
| `AnswerProofs!ExpansionShowsAll` | `SearchSpec => []ExpansionIsExact` |
| `AnswerProofs!NothingIsWithheld` | `SearchSpec => []NothingWithheld` |
| `AnswerProofs!CitationsAreSafe` | `CitationsSpec => []CitationsInv` |
| `AnswerProofs!MarkersKeepMeaning` | `CitationsSpec => []MarkersMean` |

The arguments. None of the safety properties is inductive as it stands. Each module
proves `Init => IInv`, `IInv /\ [Next]_vars => IInv'` and `IInv => Inv` for an `IInv` that adds
what they rest on.

Agents (`IInv` is in `AgentRun`):

- `AckedHasResult`: a worker about to ack has posted its result. Without it `NoLostTask`
  would break at `AckResult`.
- `ReadyIsReleasable`: the wave was computed from an older blackboard, and the blackboard only
  grows. It gives `DependencyOrder` at `EnqueueNode`.
- `BoardWasSent`: only nodes that were enqueued get results. With `DependencyOrder` for tasks
  it gives `DependencyOrder` for results.
- `ReadCovers`: while `collect_results` reads, whatever an enqueued node depends on is
  either still to be read (and is on the blackboard) or was read and found. Since nothing is
  enqueued once reading has begun, a result that arrives late cannot have a dependency that
  was read too early. It gives `ReturnedClosed`.
- `StoppedInTime`, `ReadIsPosted`: why nothing is missing unless the deadline passed.

`UniqueDelivery` has an invariant of its own, `DeliveryInv`: a waiting task was never
delivered, so its first delivery is new, and a reclaim raises the count above every
attempt handed out. For the refinement, `IInv` makes every action a step of `RunPromise` or
a stutter: `EnqueueNode` releases, `WriteResult` completes (its node was sent), `Return`
answers. `Deps` need not be acyclic. For the refinement of `QueuePromise` the queue, its
claims and its dead letters never lose a task whose node has no result.

`DeadOncePerDelivery` adds `BuriedIsPast`: a delivery in the dead letters is behind every holder.
Its task is not waiting, its attempt is no later than the last delivery, and no worker has it in its
batch any more, so whoever buries next buries another delivery.

Redis queue:

- `CountsAreKept`: a pending entry counts what the group delivered, and counts read by
  XPENDING are never ahead of it, only behind.
- `BatchesAreDelivered`: what is in hand or buried was delivered, and nobody holds a task twice.
- `AckedInOrder`: before XACK a task has its result or its copy in the dead stream; before
  XDEL it is not pending. It gives `PendingIsInStream` although the two are separate commands, and
  makes each of them a step of `QueuePromise` or a stutter.
- `Counted`: the burials of a task, made or about to be made by a worker that has decided to, are
  no more than its deliveries beyond the last attempt. Reclaimers that read the same old count still
  raise the group's count once each, which pays for the burial each of them makes.

Ingestion:

- `Shape`: whoever is in a scan holds the lock, and each place of the loop has what it needs in hand.
- `ReplacesWhole`: in the middle of a replacement the backends before `at` are as the replacement
  leaves them and the others as they were.
- `CleanIsOnce`: a source with nothing gone wrong and not in hand has its one set of chunks.
- For `SkippedStaysStored`, under `NeverBack` (some rank of contents rises along every edit): what is
  deleted is older than what is on disk, and the hash in the manifest, the hash taken, the content
  loaded and the file follow each other in that order. So a hash that is recorded and still true
  is the hash of what was stored. Without `NeverBack` it is false: `ingest_restored`.

Figure job:

- `PhaseFits`: where a process may be in each phase of `job.json`, whatever process wrote it.
- `Ended`: in the write phase every recorded batch has ended, so answers no longer change and a
  restart fetches the same transcriptions.
- `AtHand`: what has been deleted, indexed and stamped of the document at hand, which is owed.
- `WipedIsOwed`, `Untouched`, `WrittenHolds`, `DoneOwesNothing`: for each document, its chunks, manifest
  entry and plan agree at every crash point; a mark is set only over a document that is written
  and, without a crash, by the current chunker.

`SubmittedOnce` has an invariant of its own, `SentInv`, over the numbers of the batches: the selection
does not change once the collect is over (`SameSelected`), the i-th recorded batch holds the i-th
chunk of it (`RecordedFits`), a batch on the server that is not recorded yet holds the chunk at the
cursor (`PendingFits`), chunks have no figure in common, and any other batch with a figure is the
stray of a crash between the call of the API and the saving of its id; a figure has no more strays
than there were crashes (`FewStrays`).

Chat:

- `ShapeInv`: what a thread has in hand at each place of the code.
- `OnceInv`: a question is in one conversation at most, once, and in none before it is written or
  after it is lost. It is what makes an identity a place in the order of turns.
- `RowInv`: a row without its commit has a thread that is about to commit it, in Postgres only.
- `ToldInv`, `KnownInv`: what a client was told is stored or lost, and a context read since then
  has it, or is full of later turns; a search since then looked into every upload the client was told of.
- `PastInv`: a context is made of turns that stand before its own, in their order and, in memory,
  without a gap; or all of it is lost since.
- `ClosedInv`: a conversation deleted without a writer past its test of existence stays dead: what
  could still be in hand for it leads to a session object that is nobody's.

Scheduler: a scan under way saw the folder no earlier than the last recorded one did, because
the lock is held over the record; a tick that has read the switch may be overrun once.
Accounts: ids are given once and never again, so the tokens of a lost account lead nowhere; an
address outside `raced` belongs to one registration from its lookup to its insert. Upload:
a request that has come to file `n` has stored all before it, so when a page is told of
success every file of that request is stored; and what is stored is lower-cased, which is what filters are compared with. Wiring: calls go down (`Level` orders the
builders), so no builder waits for itself; unless two threads ran it at once, a builder of a process
runs in one place, and not when its object is cached (`RunsOnce`); the state that an object of a
process has in memory is of that process and comes from the cached object of the role's builder
(`AtHome`, `FromCache`), of which there is one (`OneEach`).

Local run: of nodes that wait for each other none is ever ordered, and in a pass that has
ordered nothing all that were looked at wait (`OrderInv`), so the planner keeps exactly the plans
without a cycle, for any number of nodes (`PlanInv`). `WaveInv`: results are posted before events,
and both before they are counted; a wave is over when each future is done or, after an exception,
has ended. So nothing runs once `run()` has answered or raised. The refinement of `RunPromise` adds
`WaveCanRun`: what a node of the wave waits for has been counted, and so posted; ids are distinct in
any plan that is run (`PlanIsDistinct`), so this holds of the node itself and not of a namesake.

Search (`SearchIInv`, in `AnswerProofs`; `SearchAssumption` asks that the chunks of a document have
positions of their own and that scores are integers):

- `StoreInv`: a store has the chunks of the corpus, with their metadata, and of a document in one
  revision only; a store the replacement has not come to has what it had.
- `GatherInv`: what each list of hits has, from the store to the merge: chunks of the corpus, each
  once, a document in one revision, that fit the filter of the plan; and as many uploads as pass,
  or as there is room for.
- `PastInv`: texts only get older than the store (`Behind`), so a hit is of a revision the store
  has had. Until the answer, what a search was due to find is still in a list or is no longer stored:
  the short are dropped only beside a long one, the shared hits only for want of room.
- `ExpandInv`: what the hits so far have shown is in the context, each place once, and `consumed` is
  just the places that windows took, so a hit whose place is taken has been shown in one of them.
  Neighbors are fetched after the hits, so the text shown is never older. An upload has no place in
  the shared store if it is named apart; without that, windows do mix them (section 5).

Citations:

- `StageInv`: which tier goes through which stage, and what is not there yet.
- `CarryInv`: at every step of the merge the list names the documents of the chunks taken so far,
  each once, with the text of exactly these chunks.
- `NodesInv`: a number a node wrote means the source it has under that number, or nothing it has.
- `DraftInv`: a number in the draft that the list has is the document its author meant. It rests on
  `Renumber`, whose numbers are places of the merged list, and on `CarryInv`, by which there is one
  such place.
- `OutInv`: what is flagged, withheld, sent and kept.

Documents (`DocumentsIInv`, in `IngestionProofs`; `DocumentsAssumption` asks that a printed line has
the key of its place, a running header one of its own). The invariant carries what `NothingIsLost` asks from stage to
stage: the transcriptions are among the lines of the pages once the pages are made, the lines of
letters once the recovery is through, the words of the pages in the chunks once they are indexed.
What each stage hands on is a lemma about its operator: a transcription is injected at its
marker or after the page, whatever their numbers (`InjectIs`); what the text layer has and the parse
has not is recovered, because a key is printed once and its repetitions are of the same kind
(`DroppedIs`, `RecoveredIs`, `LayerKeysAre`); stretches cover a text (`SpansAre`); windows reach its end,
because the overlap is smaller than the window (`WindowsReach`, `ChunkTextIs`); and a piece that is
taken is done or held back, and flushed at the end (`TakePieceIs`, `CoalesceSmallIs`).

`DocumentsInv` asks where the lines come out. `PlacesInv` is the invariant for it:

- `SlotsTrue`: the figures dealt with are the first pictures of the document, in its order, so the
  k-th text of a page is that of its k-th figure (`PicturesInOrder`, `SlotsAre`, `TextsOfPlaces`). If all
  figures of a page have a marker there are as many texts as markers, and each text lands at its
  own figure (`PageInOrder`).
- `Drawn`: every line of a page is an element of the document, or the words, the marker or the
  transcription of a figure, and the last part of its key says which; so a key is of one line
  (`LayoutKeys`), a row is on one line of its page (`RowsOnce`) and, with several pages, every line is
  on its own. Injecting, leaving out and recovering keep this (`ExportPlaces`, `RecoverPlaces`); the text
  layer alone has it too (`FlatPlaces`).
- `Headed`: the layout parse leaves out no heading. Without it the recovery could bring a heading back
  as a word with the same key.
- `ChunksTrue`: a chunk is of one page, with its number and whole tables, and above each of its words
  stands its section. It is what `IngestPages` computes (`IngestPagesIs`, from `SegmentMarkdownIs`,
  `PairsAreWhole`, `ChunkPageIs`). That the heading carried from page to page is the nearest in the whole
  document is `HeadingInText`.

What made these provable. `SelectSeq` and folds are defined by recursion and mean nothing to the
provers. A comprehension with a condition is `Picked`, which is given by the rank of a position
among those picked: its length, members and order follow from lemmas about cardinality
(`SubsequenceProofs`). A loop over nodes or sources is a step for each turn of it, with a cursor,
which is also closer to the code. Where a fold cannot be avoided (`FlattenSeq`, `CoalesceSmall`), what
it computes is proved by induction over the set of the lengths for which it holds (`SetInduction`,
from the least element of a set, `LeastOf`): unlike the library's induction theorems it takes no
operator, and `Folding` and `FlattenUnfolds` give such functions their equations.

Only model-checked:

- Liveness (`ExecutionReturns`, `QueueDrains`, `EveryTaskSettles`, `Converges`, `ChangesAreScanned`,
  `JobFinishes`, `EveryRunEnds`) and everything about ENABLED, which are out of the reach of the
  prover.

No module uses a RECURSIVE operator.

## 5. Where code and documentation differ

Two have a run that shows them; `PROJECT.json` quotes the lines.

- `core/ingestion/models.py:30` calls the manifest entry the last-ingested fingerprint; after
  a failed replacement it is the fingerprint of something deleted, and a file that is put back is
  skipped for ever (`RecordedIsStored`).
- `core/figure_vlm.py:126-127` says a misconfigured transcription fails fast and loudly; `core/loaders.py:78`
  catches that error with all others of the layout parse, for each document
  (`MisconfiguredIsLoud`).

Others are stated as definitions at the end of their modules and kept without a run. TLC
refutes each one when it is given as the invariant or property of the run beside it:

- `NeverDuplicates` (`Ingestion`, `ingest_faulty`): `core/ingestion/scheduler.py:10-12` says a re-scan never
  duplicates content; it does when the first ingest failed after the upsert.
- `CurrentIsStored` (`FigureBatch`, `figures_resume`): `core/figure_batch.py:626-627` says the stamp tells
  that a document is current; the hash may be newer than the text.
- `BlamedDiedThere` (`FigureBatch`, `figures_resume`): `scripts/ingest_bulk_batch_resilient.py:10-12` says the
  document that crashed the parser is marked failed; in a bulk load it can be another.
- `XLenIsOutstanding` (`RedisQueue`, `redis_queue`): `queue_redis.py:6-9` says the length of the stream is
  the work outstanding; between the two commands of an ack, or after a death there, it is more.
- `NeverHalfApplied` (`AdminUpload`, `service`): the docstring of the upload route says a batch never lands
  half-applied; it does when a file in the middle cannot be ingested.
- `NoneForgotten` (`AdminUpload`, `service`): the page clears its list after a success so that the same batch
  is not ingested again (`api/admin_routes.py:465`); what was added since, or sent in another request
  that fails, is cleared with it and is not stored.
- `DoneIsCurrentChunker` (`FigureBatch`, `figures_resume`): `core/figure_batch.py:671-673` says a run after
  `reset_for_rechunk` writes each document with the current chunker; after a death in the reset
  some are not written again.
- `DeletedIsEmpty` (`Chat`, `chat_races`): `core/chat/service.py:119` says a delete takes the turns and the
  uploads; a request under way, or a death between its two calls, leaves some.
- `OneAccountPerAddress` (`Accounts`, `service`): `core/auth/service.py:45` says a registration makes an
  account or raises; in memory two at once make two of one address.
- `AlwaysBuiltOnce` (`Wiring`, `service`): `api/deps.py:211` and others say built once, then cached; two threads
  that come first together build twice.
- `UploadsPassThrough` (`Search`, `answers`): `core/retrieval/adapters/expansion.py:39-40` says session uploads
  pass through the expansion untouched; one named like a document is widened with that document's
  text, and of two of one name the second is dropped at a position the first has taken.
- `IngestedIsSearched` (`Wiring`, `service`): `get_ingestion_service` says the ingest writes through the same
  store the live app queries with; with the in-memory store they are two.

Seen on the way, without a definition: a file edited between its hash and its load, and then put
back, is skipped although another content of it is stored (`SkippedIsStored` where contents return); a
task that is done is dead-lettered when its attempts are
used up (`core/agents/worker.py:10-12` says it is acked); `order_session_first` sorts the corpus hits by
score again, over the order of a reranker or a fusion; a run answered from the web alone has
sources without text, which the gate does not check; a heading line inside a fenced block splits
the block, which the chunker's comment says is not split.

## 6. Not modelled

- Services behind a client: databases, embedding and language models, Redis itself. What the
  program relies on is in the actions that call them.
- Parsing libraries: external, `Exported` and `TextLayer` of `Documents`.
- Rerankers, query rewriting, prompts and the parsing of a model's text: the order or text that a
  model answers is any, so there is nothing to check but their plumbing, which is `Search`,
  `LocalRun` and `Citations`.
- Expiry of Redis keys of runs and of tokens, and the reading of ledgers: read-only, or a
  disappearance nothing is promised about.
- Schemas, migrations, connections and administration of the stores.
- The frontend but for the upload page, infrastructure, benchmarks and one-off scripts: no state of
  the program's own.

What could come next: the parts side by side in `MCService` composed through the state they share
(a scan of `Scheduler` being a run of `Ingestion`, an upload of `AdminUpload` its fourth
actor).
