---------------------------- MODULE MCRedisQueue -----------------------------
(* Symmetry for the model-checking runs of RedisQueue. *)
EXTENDS RedisQueue, TLC

WorkerSymmetry == Permutations(Worker)
=============================================================================
