\* A plan with a join, executed once, two workers taking two tasks at a time.
CONSTANTS
  a = a
  b = b
  c = c
  Node = {a, b, c}
  Deps <- Join
  Worker = {w1, w2}
  MaxAttempts = 1
  Batch = 2
  MaxCrashes = 1
  MaxExecutions = 1
SPECIFICATION Spec
SYMMETRY WorkerSymmetry
INVARIANTS NoLostTask DependencyOrder ReturnedClosed CompleteUnlessExpired
CHECK_DEADLOCK FALSE
