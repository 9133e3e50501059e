---------------------------- MODULE MCFigureBatch ----------------------------
(* Corpora for the model-checking runs of FigureBatch. *)
EXTENDS FigureBatch, TLC

\* The first document has two figures, the last one has one.
ThreeDocs == (1 :> {1, 2}) @@ (2 :> {}) @@ (3 :> {3})

TwoDocs == (1 :> {1}) @@ (2 :> {2})

OneDoc == (1 :> {1})
=============================================================================
