\* Liveness, with one worker that may die.
CONSTANTS
  a = a
  b = b
  c = c
  Node = {a, b}
  Deps <- Chain
  Worker = {w1, w2}
  MaxAttempts = 1
  Batch = 2
  MaxCrashes = 1
  MaxExecutions = 1
SPECIFICATION FairSpec
PROPERTIES ExecutionReturns QueueDrains
CHECK_DEADLOCK FALSE
