----------------------------- MODULE MCAgentRun ------------------------------
(* Plans and symmetry for the model-checking runs of AgentRun. *)
EXTENDS AgentRun, TLC

CONSTANTS a, b, c

\* c joins two independent nodes.
Join == (a :> {}) @@ (b :> {}) @@ (c :> {a, b})

\* b follows a.
Chain == (a :> {}) @@ (b :> {a})

WorkerSymmetry == Permutations(Worker)
=============================================================================
