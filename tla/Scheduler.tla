------------------------------ MODULE Scheduler ------------------------------
(***************************************************************************)
(* When the folder is scanned: the loop of IngestScheduler, an admin who   *)
(* runs the job at once, the lock of run_once they share, and an admin who *)
(* changes the job between any two of their steps.  What a scan does is    *)
(* module Ingestion; here it takes a copy of the state of the folder when  *)
(* it begins and leaves it in the last-run record when it ends.  Time is   *)
(* counted in polls, and the age of the last run only up to MaxInterval.   *)
(***************************************************************************)
EXTENDS Naturals, FiniteSets

CONSTANTS
  Admin,        \* threads of "run now" requests
  MaxInterval,  \* bound on interval_minutes, in polls
  MaxFolder,    \* bound: how often the folder changes
  Never,        \* the age of a run that did not happen
  Nobody        \* the holder of a free lock

ASSUME SchedulerAssumption ==
  /\ MaxInterval \in Nat \ {0}
  /\ MaxFolder \in Nat
  /\ "loop" \notin Admin
  /\ Nobody \notin Admin \cup {"loop"}

VARIABLES
  config,    \* the job: path (none, a directory or not), interval, enabled
  folder,    \* the state of the folder
  loop,      \* where the scheduler's task is
  age,       \* polls since _last_run, Never when it never ran
  holder,    \* who holds the lock
  run,       \* where each caller of run_once is
  seen,      \* the folder as each caller's scan found it
  recorded,  \* the folder as of the last recorded run
  offStarts  \* history: scheduled scans begun since the job was switched off

schedulerVars == <<config, folder, loop, age, holder, run, seen, recorded, offStarts>>

Caller == Admin \cup {"loop"}
Configs == [path : {"none", "good", "bad"}, interval : 1 .. MaxInterval, enabled : BOOLEAN]

SchedulerTypeOK ==
  /\ config \in Configs
  /\ folder \in 0 .. MaxFolder
  /\ loop \in {"sleep", "tick", "run", "stamp", "stopped"}
  /\ age \in {Never} \cup 0 .. MaxInterval
  /\ holder \in {Nobody} \cup Caller
  /\ run \in [Caller -> {"idle", "acquire", "path", "scan", "record"}]
  /\ seen \in [Caller -> 0 .. MaxFolder]
  /\ recorded \in 0 .. MaxFolder
  /\ offStarts \in Nat
  /\ loop = "run" => run["loop"] # "idle"
  /\ run["loop"] # "idle" => loop \in {"run", "stopped"}

SchedulerInit ==
  /\ config = [path |-> "none", interval |-> 1, enabled |-> FALSE]
  /\ folder = 0
  /\ loop = "sleep"
  /\ age = Never
  /\ holder = Nobody
  /\ run = [c \in Caller |-> "idle"]
  /\ seen = [c \in Caller |-> 0]
  /\ recorded = 0
  /\ offStarts = 0

Up == loop # "stopped"
AtRun(c, label) == run' = [run EXCEPT ![c] = label]

-----------------------------------------------------------------------------
(* The loop. *)

\* asyncio.sleep is over.
Wake ==
  /\ loop = "sleep"
  /\ loop' = "tick"
  /\ age' = IF age = Never \/ age = MaxInterval THEN age ELSE age + 1
  /\ UNCHANGED <<config, folder, holder, run, seen, recorded, offStarts>>

\* Mutated: only the first run is due.
DueOnce == age = Never

Due == age # Never => age >= config.interval

Wanted == config.enabled /\ config.path # "none" /\ Due

Tick ==
  /\ loop = "tick"
  /\ IF Wanted
     THEN loop' = "run" /\ AtRun("loop", "acquire")
     ELSE loop' = "sleep" /\ UNCHANGED run
  /\ UNCHANGED <<config, folder, age, holder, seen, recorded, offStarts>>

\* The settings cannot be read: the loop swallows it and polls on.  It makes a
\* difference to a tick that would have run.
TickRaises ==
  /\ loop = "tick"
  /\ Wanted
  /\ loop' = "sleep"
  /\ UNCHANGED <<config, folder, age, holder, run, seen, recorded, offStarts>>

\* run_once has returned, busy or not: that was a run.
Stamp ==
  /\ loop = "stamp"
  /\ loop' = "sleep"
  /\ age' = 0
  /\ UNCHANGED <<config, folder, holder, run, seen, recorded, offStarts>>

-----------------------------------------------------------------------------
(* run_once *)

\* The caller gets a result (ok) or an exception, which the loop swallows and
\* does not count.  After stop() only the thread is left of the loop's call.
Leave(c, ok) ==
  /\ AtRun(c, "idle")
  /\ loop' = IF c = "loop" /\ Up THEN (IF ok THEN "stamp" ELSE "sleep") ELSE loop

Acquire(c) ==
  /\ run[c] = "acquire"
  /\ holder = Nobody
  /\ holder' = c
  /\ AtRun(c, "path")
  /\ UNCHANGED <<config, folder, loop, age, seen, recorded, offStarts>>

\* Mutated: a second caller waits for no one.
Barge(c) ==
  /\ run[c] = "acquire"
  /\ holder # Nobody
  /\ AtRun(c, "path")
  /\ UNCHANGED <<config, folder, loop, age, holder, seen, recorded, offStarts>>

Busy(c) ==
  /\ run[c] = "acquire"
  /\ holder # Nobody
  /\ Leave(c, TRUE)
  /\ UNCHANGED <<config, folder, age, holder, seen, recorded, offStarts>>

\* The path is read from the store again.
BeginScan(c) ==
  /\ run[c] = "path"
  /\ config.path = "good"
  /\ seen' = [seen EXCEPT ![c] = folder]
  /\ AtRun(c, "scan")
  /\ offStarts' = IF c = "loop" /\ ~config.enabled THEN offStarts + 1 ELSE offStarts
  /\ UNCHANGED <<config, folder, loop, age, holder, recorded>>

\* IngestionPathError: no result is recorded.
BadPath(c) ==
  /\ run[c] = "path"
  /\ config.path # "good"
  /\ holder' = Nobody
  /\ Leave(c, FALSE)
  /\ UNCHANGED <<config, folder, age, seen, recorded, offStarts>>

EndScan(c) ==
  /\ run[c] = "scan"
  /\ AtRun(c, "record")
  /\ UNCHANGED <<config, folder, loop, age, holder, seen, recorded, offStarts>>

\* Mutated: the lock is released before the result is recorded.
RecordUnlocked(c) ==
  /\ run[c] = "record"
  /\ holder' = IF holder = c THEN Nobody ELSE holder
  /\ IF holder = c
     THEN UNCHANGED <<loop, run, recorded>>
     ELSE recorded' = seen[c] /\ Leave(c, TRUE)
  /\ UNCHANGED <<config, folder, age, seen, offStarts>>

\* record_run, still under the lock.
Record(c) ==
  /\ run[c] = "record"
  /\ recorded' = seen[c]
  /\ holder' = Nobody
  /\ Leave(c, TRUE)
  /\ UNCHANGED <<config, folder, age, seen, offStarts>>

\* The scan or its record raises (the database is away).
RunRaises(c) ==
  /\ run[c] \in {"path", "scan", "record"}
  /\ holder' = Nobody
  /\ Leave(c, FALSE)
  /\ UNCHANGED <<config, folder, age, seen, recorded, offStarts>>

-----------------------------------------------------------------------------
(* Everybody else. *)

RunNow(c) ==
  /\ Up
  /\ c \in Admin
  /\ run[c] = "idle"
  /\ AtRun(c, "acquire")
  /\ UNCHANGED <<config, folder, loop, age, holder, seen, recorded, offStarts>>

SetConfig(new) ==
  /\ Up
  /\ new # config
  /\ config' = new
  /\ offStarts' = IF new.enabled THEN 0 ELSE offStarts
  /\ UNCHANGED <<folder, loop, age, holder, run, seen, recorded>>

FolderChanges ==
  /\ folder < MaxFolder
  /\ folder' = folder + 1
  /\ UNCHANGED <<config, loop, age, holder, run, seen, recorded, offStarts>>

\* stop(): the task is cancelled wherever it awaits; requests were drained before,
\* but the thread of a run in progress goes on.
Stop ==
  /\ Up
  /\ \A c \in Admin : run[c] = "idle"
  /\ loop' = "stopped"
  /\ UNCHANGED <<config, folder, age, holder, run, seen, recorded, offStarts>>

\* A new process: after a stop, once the old one's thread is done; after a death,
\* at once.  The marker of the last run and the lock are new.
NewProcess ==
  /\ loop' = "sleep"
  /\ age' = Never
  /\ holder' = Nobody
  /\ run' = [c \in Caller |-> "idle"]
  /\ UNCHANGED <<config, folder, seen, recorded, offStarts>>

LoopStep == Wake \/ Tick \/ Stamp

RunStep(c) ==
  \/ Acquire(c)
  \/ Busy(c)
  \/ BeginScan(c)
  \/ BadPath(c)
  \/ EndScan(c)
  \/ Record(c)

SchedulerNext ==
  \/ LoopStep
  \/ TickRaises
  \/ \E c \in Caller : RunStep(c) \/ RunRaises(c) \/ RunNow(c)
  \/ \E new \in Configs : SetConfig(new)
  \/ FolderChanges
  \/ Stop
  \/ NewProcess

\* The loop and every run in progress go on.
SchedulerFairness ==
  /\ WF_schedulerVars(LoopStep)
  /\ \A c \in Caller : WF_schedulerVars(RunStep(c))

SchedulerSpec == SchedulerInit /\ [][SchedulerNext]_schedulerVars

-----------------------------------------------------------------------------

\* Two scans never overlap, and the lock is never left behind: whoever holds it is
\* in the middle of a run.  (A run that raises, a cancelled task, a bad path.)
OneScanAtATime ==
  \A c \in Caller : run[c] \in {"path", "scan", "record"} <=> holder = c

\* What the admin page shows as the last run is never replaced by an older one.
LastRunIsLatest == [][recorded' >= recorded]_schedulerVars

\* Once the job is switched off, the scheduler begins at most one more scan, the
\* one whose tick had read the switch before.
OffMeansOff == offStarts <= 1

\* The scheduler is well-formed, scans alone, and stops when told to.
SchedulerInv == SchedulerTypeOK /\ OneScanAtATime /\ OffMeansOff

\* While the job stays on, with a path that is a directory, and the process is neither
\* stopped nor killed nor fails a tick or a run any more, every change of the folder
\* gets into a recorded run, whoever's: also when the scheduler's ticks find the
\* admin's runs in progress and count them as its own.
ChangesAreScanned ==
  \A v \in 1 .. MaxFolder :
    (/\ <>[](Up /\ config.enabled /\ config.path = "good")
     /\ <>[][~NewProcess /\ ~TickRaises /\ \A c \in Caller : ~RunRaises(c)]_schedulerVars)
    => (folder >= v ~> recorded >= v)
=============================================================================
