------------------------------ MODULE Citations ------------------------------
(***************************************************************************)
(* What the [n] of an answer point at: the two tiers of a chat turn and    *)
(* /agents/run, with the grounding gate at each of its places.  An answer  *)
(* is its markers; each carries, unseen by the code, what its author meant *)
(* by it.  The words, and the prompts, are left out.                       *)
(***************************************************************************)
EXTENDS Naturals, Sequences, SequencesExt, Subsequences

CONSTANTS
  Doc,        \* the labels of sources: report keys, URLs
  Retrieved,  \* what a search may answer: sequences of chunks
  Label,      \* the document of each chunk
  Textless,   \* the chunks of the web, of which only the URL comes back
  Nodes,      \* the number of nodes of a plan
  Marks,      \* what a node may write: sequences of numbers
  MaxMarker, MaxMarkers,
  Invented,   \* the meaning of a marker its author made up
  Fabricated, \* the same, made up by a node
  NoAnswer

ASSUME CitationsAssumption ==
  /\ Nodes \in Nat \ {0} /\ MaxMarker \in Nat /\ MaxMarkers \in Nat
  /\ Label \in [DOMAIN Label -> Doc]
  /\ Retrieved \subseteq Seq(DOMAIN Label)
  /\ Marks \subseteq Seq(Nat \ {0})
  /\ Invented \notin Doc /\ Fabricated \notin Doc \cup {Invented}

VARIABLES
  tier,      \* who answers: "none" and "simple" and "complex" of a turn, or "run"
  gate,      \* the grounding gate: "off", "deterministic", "llm"
  stage,     \* where the answer is
  results,   \* the results of the nodes, as they are on the blackboard
  merging,   \* the node whose sources are merged,
  taken,     \* and how many of them are
  shown,     \* the numbered sources the reader is given
  draft,     \* the markers generated
  abstained, \* whether the text was replaced
  flagged,   \* the markers of the note below the answer
  streamed,  \* what the client of a turn was sent
  stored     \* the answer kept as the turn

mergeVars == <<merging, taken>>
citationVars ==
  <<tier, gate, stage, results, mergeVars, shown, draft, abstained, flagged, streamed, stored>>

Marker == [n : Nat \ {0}, means : Doc \cup {Invented, Fabricated}]
Source == [label : Doc, texts : SUBSET DOMAIN Label]

\* What somebody reads or keeps: markers, whether an abstention, flagged markers.
Text(ms, a, f) == [markers |-> ms, abstention |-> a, note |-> f]

CitationsTypeOK ==
  /\ tier \in {"none", "simple", "complex", "run"}
  /\ gate \in {"off", "deterministic", "llm"}
  /\ stage \in {"route", "retrieve", "nodes", "merge", "say", "check", "store", "done", "gone"}
  /\ \A i \in DOMAIN results :
       i \in 1 .. Nodes /\ results[i].sources \in Retrieved /\ results[i].markers \in Seq(Marker)
  /\ merging \in 1 .. Nodes + 1 /\ taken \in Nat
  /\ shown \in Seq(Source)
  /\ draft \in Seq(Marker) /\ Len(draft) <= MaxMarkers
  /\ abstained \in BOOLEAN
  /\ flagged \subseteq Nat \ {0}

CitationsInit ==
  /\ tier \in {"none", "simple", "complex", "run"}
  /\ gate \in {"off", "deterministic", "llm"}
  /\ stage = "route"
  /\ results = <<>> /\ merging = 1 /\ taken = 0
  /\ shown = <<>> /\ draft = <<>>
  /\ abstained = FALSE /\ flagged = {}
  /\ streamed = NoAnswer /\ stored = NoAnswer

-----------------------------------------------------------------------------
(* The checks, and the merged list *)

\* verify_citations: the markers outside 1 .. count.
Invalid(ms, count) == {ms[i].n : i \in DOMAIN ms} \ 1 .. count

\* LlmGroundingGate.check lets stand what the model does not call UNSUPPORTED, be there
\* text or not; no gate lets an answer without sources stand.
MayReplace(hasSources) == ~hasSources \/ gate = "llm"
MustReplace(hasSources) == ~hasSources

HasText(chunks) == \E i \in DOMAIN chunks : chunks[i] \notin Textless

\* No sources is a result to check; sources of the web alone are not.
Verifiable(chunks) == chunks = <<>> \/ HasText(chunks)

\* What check_node_result looks at, when there is a gate.
Checked(chunks) == gate # "off" /\ Verifiable(chunks)

\* Mutated: the first text of a document stays its only one.
AbsorbFirst(merged, chunk) ==
  IF \E i \in DOMAIN merged : merged[i].label = Label[chunk] THEN merged
  ELSE Append(merged, [label |-> Label[chunk], texts |-> {chunk} \ Textless])

\* One entry per document, with the text of each of its chunks.
Absorb(merged, chunk) ==
  IF \E i \in DOMAIN merged : merged[i].label = Label[chunk]
  THEN [i \in DOMAIN merged |->
          IF merged[i].label = Label[chunk]
          THEN [merged[i] EXCEPT !.texts = @ \cup ({chunk} \ Textless)] ELSE merged[i]]
  ELSE Append(merged, [label |-> Label[chunk], texts |-> {chunk} \ Textless])

Position(merged, label) == CHOOSE i \in DOMAIN merged : merged[i].label = label

\* Mutated: the markers stay as the node wrote them.
RenumberNothing(result, merged) == result.markers

\* The node's [n] is its n-th source; one that is none of them is dropped.
Renumber(result, merged) ==
  LET kept == Picked(result.markers,
                     {i \in DOMAIN result.markers : result.markers[i].n \in DOMAIN result.sources})
  IN  [i \in DOMAIN kept |-> [kept[i] EXCEPT !.n = Position(merged, Label[result.sources[@]])]]

\* The markers in the findings the answer is composed from.
Findings ==
  UNION {ToSet(Renumber(results[i], shown)) : i \in DOMAIN results}

-----------------------------------------------------------------------------
(* The turn *)

RouteTier ==
  /\ stage = "route"
  /\ stage' = CASE tier = "none" -> "say"
                [] tier = "simple" -> "retrieve"
                [] tier \in {"complex", "run"} -> "nodes"
  /\ UNCHANGED <<tier, gate, results, mergeVars, shown, draft, abstained, flagged, streamed, stored>>

\* The simple tier shows each hit; with the gate on and no hit it abstains.
Gather ==
  /\ stage = "retrieve"
  /\ \E chunks \in Retrieved :
       /\ ToSet(chunks) \cap Textless = {}
       /\ shown' = [i \in DOMAIN chunks |-> [label |-> Label[chunks[i]], texts |-> {chunks[i]}]]
       /\ IF chunks = <<>> /\ gate # "off"
          THEN /\ abstained' = TRUE
               /\ streamed' = Text(<<>>, TRUE, {})
               /\ stage' = "store"
          ELSE stage' = "say" /\ UNCHANGED <<abstained, streamed>>
  /\ UNCHANGED <<tier, gate, results, mergeVars, draft, flagged, stored>>

\* A node answers over its own sources, numbered from one, and may make one up; then
\* check_node_result, on the way to the blackboard.
NodeAnswers(i) ==
  /\ stage = "nodes"
  /\ i \notin DOMAIN results
  /\ \E chunks \in Retrieved, ns \in Marks :
       LET marked == [k \in DOMAIN ns |->
             [n |-> ns[k],
              means |-> IF ns[k] \in DOMAIN chunks THEN Label[chunks[ns[k]]] ELSE Fabricated]]
           answer == [sources |-> chunks, markers |-> marked, abstention |-> FALSE]
           replaced == [sources |-> chunks, markers |-> <<>>, abstention |-> TRUE]
       IN  \/ /\ ~Checked(chunks) \/ ~MustReplace(chunks # <<>>)
              /\ results' = [k \in DOMAIN results \cup {i} |-> IF k = i THEN answer ELSE results[k]]
           \/ /\ Checked(chunks) /\ MayReplace(chunks # <<>>)
              /\ results' = [k \in DOMAIN results \cup {i} |-> IF k = i THEN replaced ELSE results[k]]
  /\ UNCHANGED <<tier, gate, stage, mergeVars, shown, draft, abstained, flagged, streamed, stored>>

\* The run ends with the results there are.
CollectAll ==
  /\ stage = "nodes"
  /\ stage' = "merge"
  /\ UNCHANGED <<tier, gate, results, mergeVars, shown, draft, abstained, flagged, streamed, stored>>

\* The results that landed are merged in the order of the plan, source by source.
TakeSource ==
  /\ stage = "merge"
  /\ merging \in DOMAIN results /\ taken < Len(results[merging].sources)
  /\ shown' = Absorb(shown, results[merging].sources[taken + 1])
  /\ taken' = taken + 1
  /\ UNCHANGED <<tier, gate, stage, results, merging, draft, abstained, flagged, streamed, stored>>

NextResult ==
  /\ stage = "merge" /\ merging <= Nodes
  /\ merging \in DOMAIN results => taken = Len(results[merging].sources)
  /\ merging' = merging + 1 /\ taken' = 0
  /\ UNCHANGED <<tier, gate, stage, results, shown, draft, abstained, flagged, streamed, stored>>

\* A turn is sent the merged list before the answer.
Announce ==
  /\ stage = "merge" /\ merging > Nodes
  /\ stage' = IF DOMAIN results = {} THEN "store" ELSE "say"
  /\ streamed' = IF DOMAIN results = {} /\ tier = "complex" THEN Text(<<>>, FALSE, {}) ELSE streamed
  /\ UNCHANGED <<tier, gate, results, mergeVars, shown, draft, abstained, flagged, stored>>

\* The model writes a marker: over the shown sources, or one of the findings, or its own.
Say ==
  /\ stage = "say"
  /\ Len(draft) < MaxMarkers
  /\ \E m \in
       IF tier \in {"none", "simple"}
       THEN {[n |-> n, means |-> IF n \in DOMAIN shown THEN shown[n].label ELSE Invented]
               : n \in 1 .. MaxMarker}
       ELSE Findings \cup [n : 1 .. MaxMarker, means : {Invented}] :
       draft' = Append(draft, m)
  /\ streamed' = IF tier = "run" THEN streamed ELSE Text(draft', FALSE, {})
  /\ UNCHANGED <<tier, gate, stage, results, mergeVars, shown, abstained, flagged, stored>>

Said ==
  /\ stage = "say"
  /\ streamed' = IF tier = "run" THEN streamed ELSE Text(draft, FALSE, {})
  /\ stage' = "check"
  /\ UNCHANGED <<tier, gate, results, mergeVars, shown, draft, abstained, flagged, stored>>

\* A streamed answer is out: all that can be added is the note.
CheckStreamed ==
  /\ stage = "check" /\ tier # "run"
  /\ flagged' = IF gate = "off" \/ (shown = <<>> /\ tier # "complex") THEN {}
                ELSE Invalid(draft, Len(shown))
  /\ streamed' = Text(draft, FALSE, flagged')
  /\ stage' = "store"
  /\ UNCHANGED <<tier, gate, results, mergeVars, shown, draft, abstained, stored>>

\* An answer that is not streamed can still be replaced.
CheckComposed ==
  /\ stage = "check" /\ tier = "run"
  /\ \/ /\ gate # "off" /\ MayReplace(shown # <<>>)
        /\ abstained' = TRUE
        /\ UNCHANGED flagged
     \/ /\ gate = "off" \/ ~MustReplace(shown # <<>>)
        /\ flagged' = IF gate = "off" THEN {} ELSE Invalid(draft, Len(shown))
        /\ UNCHANGED abstained
  /\ stage' = "store"
  /\ UNCHANGED <<tier, gate, results, mergeVars, shown, draft, streamed, stored>>

\* The turn is stored, or the run answered.
Store ==
  /\ stage = "store"
  /\ stored' = Text(IF abstained THEN <<>> ELSE draft, abstained, flagged)
  /\ stage' = "done"
  /\ UNCHANGED <<tier, gate, results, mergeVars, shown, draft, abstained, flagged, streamed>>

\* The client leaves: the generator is closed where it yields.
Disconnect ==
  /\ tier # "run" /\ stage \in {"say", "check", "store"}
  /\ stage' = "gone"
  /\ UNCHANGED <<tier, gate, results, mergeVars, shown, draft, abstained, flagged, streamed, stored>>

Told == stage \in {"done", "gone"} /\ UNCHANGED citationVars

CitationsNext ==
  \/ RouteTier \/ Gather
  \/ \E i \in 1 .. Nodes : NodeAnswers(i)
  \/ CollectAll \/ TakeSource \/ NextResult \/ Announce
  \/ Say \/ Said
  \/ CheckStreamed \/ CheckComposed \/ Store \/ Disconnect
  \/ Told

CitationsSpec == CitationsInit /\ [][CitationsNext]_citationVars

-----------------------------------------------------------------------------

\* A number in an answer with the gate on, unless the note names it, points at the very
\* document the one who first wrote it had before him: across the numberings of the nodes,
\* their merging, and the model that composes.  A number a node made up does not survive.
MarkersMean ==
  stage = "done" /\ gate # "off" /\ tier # "none" =>
    \A i \in DOMAIN stored.markers :
      LET m == stored.markers[i]
      IN  /\ m.means # Fabricated
          /\ m.n \in DOMAIN shown \/ m.n \in stored.note
          /\ m.n \in DOMAIN shown /\ m.means # Invented => shown[m.n].label = m.means

\* The merged list names each document once, and has the text of every chunk any landed
\* node cited, however many nodes cited it; it names nothing else.
EveryChunkIsCarried ==
  tier \in {"complex", "run"} /\ stage \in {"say", "check", "done"} =>
    LET cited == UNION {ToSet(results[i].sources) : i \in DOMAIN results}
    IN  /\ \A i, j \in DOMAIN shown : shown[i].label = shown[j].label => i = j
        /\ UNION {shown[i].texts : i \in DOMAIN shown} = cited \ Textless
        /\ {shown[i].label : i \in DOMAIN shown} = {Label[c] : c \in cited}

\* With the gate on, nothing is answered from memory that can still be replaced: a simple
\* turn that found nothing and a run without a source abstain, and a node without a source
\* hands on an abstention.  The answer of a complex turn is streamed by the time it is
\* checked: if its nodes found nothing it stands, with a note of its numbers (MarkersMean).
NothingFromMemory ==
  gate # "off" =>
    /\ stage = "done" /\ tier \in {"simple", "run"} /\ shown = <<>> =>
         stored.abstention \/ (DOMAIN results = {} /\ stored.markers = <<>>)
    /\ \A i \in DOMAIN results : results[i].sources = <<>> => results[i].abstention

\* What is stored as the turn is what the client was sent, note and abstention included.
StoredIsStreamed ==
  stage = "done" /\ tier # "run" => stored = streamed

\* The states are well-formed, every chunk cited is carried, nothing but a streamed
\* complex turn is answered from memory, and what is kept is what was sent.
CitationsInv == CitationsTypeOK /\ EveryChunkIsCarried /\ NothingFromMemory /\ StoredIsStreamed
=============================================================================
