\* A chain executed twice, the second time over what the first left behind.
CONSTANTS
  a = a
  b = b
  c = c
  Node = {a, b}
  Deps <- Chain
  Worker = {w1, w2}
  MaxAttempts = 1
  Batch = 2
  MaxCrashes = 1
  MaxExecutions = 2
SPECIFICATION Spec
SYMMETRY WorkerSymmetry
INVARIANT DeadOncePerDelivery
PROPERTIES KeepsPromise KeepsQueuePromise
CHECK_DEADLOCK FALSE
