\* Two tasks, two workers of which one may die at any command.
CONSTANTS
  Node = {a}
  Worker = {w1, w2}
  MaxAttempts = 1
  Batch = 2
  MaxTasks = 2
  MaxCrashes = 1
SPECIFICATION FairSpec
INVARIANT QueueInv
PROPERTIES KeepsQueuePromise EveryTaskSettles
CHECK_DEADLOCK FALSE
