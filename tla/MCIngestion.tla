----------------------------- MODULE MCIngestion -----------------------------
(* Histories of file contents for the model-checking runs of Ingestion. *)
EXTENDS Ingestion, TLC

\* Files appear and are rewritten, and a content never comes back.
Fresh ==
  {e \in Version \X Version : e[1] < e[2]} \cup {<<None, v>> : v \in Version}

\* Files appear, are rewritten, removed, and restored to what they were.
Restoring == {e \in (Version \cup {None}) \X (Version \cup {None}) : e[1] # e[2]}

RunnerSymmetry == Permutations(Runner)
=============================================================================
