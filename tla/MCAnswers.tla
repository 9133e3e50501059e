------------------------------ MODULE MCAnswers ------------------------------
(* What an answer is made from: the chunks of a document, a local run, a       *)
(* search, and the citations.                                                  *)
(* The parts share no state: a behaviour is one of one part, and the state     *)
(* space their sum.                                                            *)
EXTENDS Documents, LocalRun, Search, Citations

CONSTANT Part

VARIABLE part

answersVars == <<part, documentVars, localVars, searchVars, citationVars>>

-----------------------------------------------------------------------------
(* Plans: chains, forks, joins, cycles, ids twice, unknown ones, ill-formed    *)
(* items.                                                                      *)

I(i, d, w) == [id |-> i, deps |-> d, wellFormed |-> w]

PlanItems ==
  {I("a", {}, TRUE), I("b", {}, TRUE), I("c", {}, TRUE), I("b", {"a"}, TRUE),
   I("a", {"c"}, TRUE), I("c", {"a", "b"}, TRUE), I("c", {"x"}, TRUE),
   I("b", {"b"}, TRUE), I("a", {}, FALSE)}

Proposals == UNION {[1 .. n -> PlanItems] : n \in 0 .. 3}

-----------------------------------------------------------------------------
(* A dated report of three chunks and an undated page of a publisher; uploads  *)
(* named like nothing else.                                                    *)

Chunk(s, i) == ("source" :> s) @@ ("chunk_index" :> i)

CorpusDef ==
  {Chunk("report", i) @@ ("published_date" :> 2020) @@ ("page" :> i + 1) : i \in 0 .. 2}
  \cup {Chunk("page", 0) @@ ("publisher" :> "www2.deloitte.com")}

NotesOrNone == {{}, {<<"notes", 0, 1>>, <<"notes", 1, 1>>}}
Alike == {{<<"notes", 0, 1>>, <<"notes", 0, 2>>}, {<<"report", 0, 1>>}}
Everything == NotesOrNone \cup Alike
CutoffDef == [kind \in {"cosine"} |-> 1]

Places == {<<"shared", "report", 0>>, <<"shared", "report", 1>>, <<"shared", "report", 2>>,
           <<"shared", "page", 0>>, <<"session", "notes", 0>>, <<"session", "notes", 1>>,
           <<"session", "report", 0>>}

Scores(r0, r1, r2, p, n0, n1) ==
  [q \in Places |-> CASE q[2] = "report" /\ q[1] = "shared" -> <<r0, r1, r2>>[q[3] + 1]
                      [] q[2] = "page" -> p
                      [] q[1] = "session" -> <<n0, n1>>[q[3] + 1]]

\* The two searches agree on little; in the last some are below the cutoff.
ScoringsDef ==
  {[cosine |-> Scores(4, 3, 2, 1, 5, 0), bm25 |-> Scores(0, 1, 2, 3, 0, 0)],
   [cosine |-> Scores(2, 4, 1, 3, 0, 1), bm25 |-> Scores(3, 0, 2, 1, 0, 0)],
   [cosine |-> Scores(4, 0, 0, 2, 1, 0), bm25 |-> Scores(0, 2, 1, 0, 0, 0)]}

F(p, d) == [publisher |-> p, from |-> d]
PlansDef ==
  {[strategy |-> "hybrid_rrf", filter |-> NoFilter],
   [strategy |-> "hybrid_rrf", filter |-> F("Deloitte", Whatever)],
   [strategy |-> "hybrid_rrf", filter |-> F("?", 2024)],
   [strategy |-> "semantic", filter |-> F("weforum.org", Whatever)],
   [strategy |-> "lexical", filter |-> NoFilter],
   [strategy |-> "hybrid_weighted", filter |-> F(Whatever, 2019)]}

LikeDef ==
  [v \in {"Deloitte", "weforum.org", "?"} |->
     CASE v = "Deloitte" -> {"www2.deloitte.com"}
       [] v = "weforum.org" -> {}
       [] v = "?" -> {"www2.deloitte.com", Empty}]

Backends == {<<"pgvector">>, <<"milvus">>, <<"pgvector", "milvus">>}
ShortDef == {<<"shared", "report", 0>>}

-----------------------------------------------------------------------------
(* Two chunks of a document, one of another, and a page of the web.            *)

MarksDef == {<<>>, <<1>>, <<2>>, <<3>>}
RetrievedDef == {<<>>, <<"a1">>, <<"a2", "b1">>, <<"b1", "a1">>, <<"w">>, <<"a1", "a2">>}
LabelDef == [c \in {"a1", "a2", "b1", "w"} |->
  CASE c \in {"a1", "a2"} -> "A" [] c = "b1" -> "B" [] c = "w" -> "W"]

-----------------------------------------------------------------------------
(* Every document of four lines of the common kinds, on one page or two; fences, *)
(* figures without markers and small ones; and running headers.                *)

Page(p, kinds) ==
  [i \in DOMAIN kinds |->
    IF kinds[i] = "header" THEN [kind |-> "prose", key |-> <<0, 0, 0>>]
    ELSE [kind |-> kinds[i], key |-> <<p, i, 0>>]]
Document(layout) == [p \in DOMAIN layout |-> Page(p, layout[p])]

Common == UNION {[1 .. n -> {"heading", "row", "prose", "chart"}] : n \in 0 .. 4}
OnTwo(lines) == <<SubSeq(lines, 1, 2), SubSeq(lines, 3, Len(lines))>>
Starts == {<<>>, <<"fence">>, <<"header", "heading", "heading">>}
Ends == {<<"fence", "prose", "fence">>, <<"blank", "icon", "unmarked">>,
         <<"unmarked", "chart">>, <<"header", "prose", "prose", "header">>}

PrintedDef ==
  {Document(<<lines>>) : lines \in Common}
  \cup {Document(OnTwo(lines)) : lines \in {l \in Common : Len(l) > 2}}
  \cup {Document(<<start \o <<"row", "row", "number">>, <<"header", "prose">> \o end>>) :
          start \in Starts, end \in Ends}
  \cup {Document(<<start \o <<"prose", "icon">>, <<"header">>, <<"header", "chart">> \o end>>) :
          start \in Starts, end \in Ends}

-----------------------------------------------------------------------------

\* The parts that do not run have one state.
Init ==
  /\ part \in Part
  /\ part # "local" => raw = <<>>
  /\ part # "search" =>
       /\ backend = <<"milvus">> /\ expanding = TRUE /\ caller = "chat"
       /\ session = {} /\ scoring = CHOOSE s \in Scorings : TRUE
  /\ part # "citations" => tier = "none" /\ gate = "off"
  /\ part # "documents" => printed = Document(<<<<>>>>) /\ parser = "text"
  /\ LocalRunInit
  /\ SearchInit
  /\ CitationsInit
  /\ DocumentsInit

Next ==
  \/ part = "documents" /\ DocumentsNext /\ UNCHANGED <<part, localVars, searchVars, citationVars>>
  \/ part = "local" /\ LocalRunNext /\ UNCHANGED <<part, documentVars, searchVars, citationVars>>
  \/ part = "search" /\ SearchNext /\ UNCHANGED <<part, documentVars, localVars, citationVars>>
  \/ part = "citations" /\ CitationsNext /\ UNCHANGED <<part, documentVars, localVars, searchVars>>

Spec == Init /\ [][Next]_answersVars /\ LocalRunFairness
=============================================================================
