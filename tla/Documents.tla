------------------------------ MODULE Documents ------------------------------
(***************************************************************************)
(* From a file to the chunks of the index: a parse that may fail, the      *)
(* transcription of its figures, the text the layout parse left out, and   *)
(* the chunking of sections, prose, tables and fenced blocks, page by page.*)
(*                                                                         *)
(* A page is a sequence of lines, a line a kind and a key: the place it is *)
(* printed at, and 0, or what is in a picture printed there.  A line of    *)
(* prose is one word and lengths are counted in lines.  The layout parser  *)
(* and the text layer are external: what they make of what is printed is   *)
(* Exported and TextLayer.                                                 *)
(***************************************************************************)
EXTENDS Integers, Sequences, FiniteSets, SequencesExt, Subsequences

CONSTANTS
  Printed,       \* the documents: sequences of pages of elements
  ChunkSize, Overlap, MinChars,
  MaxFigures     \* 0 for no limit

ElementKinds == {"heading", "prose", "number", "row", "fence", "blank", "chart", "icon", "unmarked"}

\* The key of an element is its page and number, unless it is a running header.
ASSUME DocumentsAssumption ==
  /\ ChunkSize \in Nat \ {0} /\ Overlap \in 0 .. ChunkSize - 1
  /\ MinChars \in Nat /\ MaxFigures \in Nat
  /\ \A document \in Printed :
       /\ document \in Seq(Seq([kind : ElementKinds, key : Nat \X Nat \X {0}]))
       /\ \A p \in DOMAIN document : \A i \in DOMAIN document[p] :
            \/ document[p][i].key = <<p, i, 0>>
            \/ document[p][i].kind = "prose" /\ document[p][i].key[1] = 0

VARIABLES
  printed,       \* what is on the paper
  parser,        \* "docling", "pypdf", or "text" for a .txt or .docx file
  paginated,     \* whether the layout parse reports its pages
  vlm,           \* FIGURE_VLM: "off", "on", or "misconfigured" (no API key)
  hybrid,        \* PDF_HYBRID_RECOVERY
  parsing,       \* where the ingestion of the document is
  slots,         \* the figures dealt with so far: page, key and transcription
  pages,         \* the text of each page
  indexed        \* the chunks: lines, page and section

settingVars == <<printed, parser, paginated, vlm, hybrid>>
documentVars == <<settingVars, parsing, slots, pages, indexed>>

-----------------------------------------------------------------------------
(* Lines *)

Line(kind, key) == [kind |-> kind, key |-> key]
Blank == Line("blank", <<0, 0, 9>>)
NoSection == <<>>
Inside(e, n) == [e.key EXCEPT ![3] = n]
Figures == {"chart", "icon", "unmarked"}

OfKind(lines, kinds) == {i \in DOMAIN lines : lines[i].kind \in kinds}
NotOfKind(lines, kinds) == DOMAIN lines \ OfKind(lines, kinds)
Each(lines, Of(_)) == FlattenSeq([i \in DOMAIN lines |-> Of(lines[i])])

\* The stretches of 1 .. last that end at cuts, or there.
Spans(last, cuts) ==
  LET ends == cuts \cup ({last} \ {0})
  IN  [n \in 1 .. Cardinality(ends) |->
         [from |-> IF n = 1 THEN 1 ELSE Ith(ends, n - 1) + 1, to |-> Ith(ends, n)]]

\* The layout parse puts a marker in place of a picture, or leaves it out.
Exported(elements) ==
  Each(elements, LAMBDA e : IF e.kind = "unmarked" THEN <<>>
                            ELSE IF e.kind \in Figures THEN <<Line("image", Inside(e, 3))>>
                            ELSE <<e>>)

\* The text layer is flat, and has the words inside a picture.
TextLayer(elements) ==
  Each(elements, LAMBDA e : CASE e.kind \in {"blank", "fence"} -> <<>>
                              [] e.kind = "row" -> <<Line("number", e.key)>>
                              [] e.kind \in {"heading"} \cup Figures -> <<Line("prose", e.key)>>
                              [] OTHER -> <<e>>)

-----------------------------------------------------------------------------
(* Figures *)

\* The pictures of the document, in reading order.
Pictures ==
  FlattenSeq([p \in DOMAIN printed |->
    Each(printed[p], LAMBDA e : IF e.kind \in Figures THEN <<[page |-> p, figure |-> e]>>
                                ELSE <<>>)])

\* What the model answers: a chart as a table, anything else as a sentence.
Transcription(e) ==
  IF e.kind = "chart"
  THEN <<Line("row", Inside(e, 1)), Line("row", Inside(e, 2))>>
  ELSE <<Line("prose", Inside(e, 1))>>

\* Icons are too small, and attempts are counted, failed ones too.
Sent(n) == Cardinality({m \in 1 .. n : Pictures[m].figure.kind # "icon"})
Selected(n) ==
  /\ Pictures[n].figure.kind # "icon"
  /\ MaxFigures = 0 \/ Sent(n - 1) < MaxFigures

\* The transcriptions of a page, an empty one for a figure without.
TextsOf(p) ==
  LET own == Picked(slots, {n \in DOMAIN slots : slots[n].page = p})
  IN  [k \in DOMAIN own |-> own[k].text]

\* Mutated: without the count, each text goes to a marker while there are markers.
InjectZipped(lines, texts) ==
  LET Nth(i) == Cardinality({j \in OfKind(lines, {"image"}) : j <= i})
  IN FlattenSeq([i \in DOMAIN lines |->
       IF lines[i].kind # "image" THEN <<lines[i]>>
       ELSE IF Nth(i) \in DOMAIN texts THEN <<Blank>> \o texts[Nth(i)] ELSE <<Blank>>])

\* The k-th text replaces the k-th marker; if their numbers differ the texts follow the page.
Inject(lines, texts) ==
  LET markers == OfKind(lines, {"image"})
      Spaced(text) == IF text = <<>> THEN <<Blank>> ELSE <<Blank>> \o text \o <<Blank>>
  IN IF Cardinality(markers) = Len(texts)
     THEN FlattenSeq([i \in DOMAIN lines |->
            IF i \in markers THEN Spaced(texts[Rank(markers, i)]) ELSE <<lines[i]>>])
     ELSE Picked(lines, NotOfKind(lines, {"image"})) \o FlattenSeq(
            [i \in DOMAIN texts |-> IF texts[i] = <<>> THEN <<>> ELSE <<Blank>> \o texts[i]])

-----------------------------------------------------------------------------
(* Text that the layout parse dropped *)

Lettered(l) == l.kind \in {"prose", "heading"}
Keys(lines) == {lines[i].key : i \in DOMAIN lines}

\* A running header is on three pages, and on a quarter of them.
Repeated(layer) ==
  LET On(key) == Cardinality({p \in DOMAIN layer : key \in Keys(layer[p])})
  IN {key \in UNION {Keys(layer[p]) : p \in DOMAIN layer} :
        On(key) >= 3 /\ 4 * On(key) >= Len(layer)}

Dropped(lines, texts, headers) ==
  Picked(texts, {i \in DOMAIN texts :
    /\ Lettered(texts[i])
    /\ texts[i].key \notin headers \cup Keys(lines)
    /\ \A j \in 1 .. i - 1 : texts[j].key # texts[i].key})

Append2(lines, extra) == IF extra = <<>> THEN lines ELSE lines \o <<Blank>> \o extra

\* Page by page when the counts agree; otherwise the whole text, on the last page.
Recovered(parsed, layer) ==
  IF Len(parsed) = Len(layer)
  THEN [p \in DOMAIN parsed |->
          Append2(parsed[p], Dropped(parsed[p], layer[p], Repeated(layer)))]
  ELSE [parsed EXCEPT ![Len(parsed)] =
          Append2(@, Dropped(FlattenSeq(parsed), FlattenSeq(layer), {}))]

-----------------------------------------------------------------------------
(* Chunks *)

\* Before a heading that some text precedes; headings in a row stay together.
SectionCuts(lines) ==
  {i - 1 : i \in {i \in OfKind(lines, {"heading"}) :
     \E j \in 1 .. i - 1 : /\ lines[j].kind \notin {"heading", "blank"}
                           /\ \A k \in j + 1 .. i - 1 : lines[k].kind = "blank"}}

\* The last heading of a block, or else the one in force before it.
HeadingOf(lines, before) ==
  LET headings == OfKind(lines, {"heading"})
  IN  IF headings = {} THEN before ELSE lines[Ith(headings, Cardinality(headings))].key

Fenced(lines, i) ==
  LET fences == OfKind(lines, {"fence"})
  IN i \in fences \/ Cardinality({j \in fences : j < i}) % 2 = 1
ClosesFence(lines, i) ==
  lines[i].kind = "fence" /\ Cardinality({j \in OfKind(lines, {"fence"}) : j <= i}) % 2 = 0
Tabled(lines, i) ==
  /\ lines[i].kind = "row" /\ ~Fenced(lines, i)
  /\ \E j \in {i - 1, i + 1} \cap DOMAIN lines : lines[j].kind = "row"

\* Tables, fenced blocks, and the prose between them.
SegmentMarkdown(lines) ==
  LET Sort(i) == CASE Fenced(lines, i) -> "fence" [] Tabled(lines, i) -> "table" [] OTHER -> "prose"
      cuts == {i \in 1 .. Len(lines) - 1 : Sort(i) # Sort(i + 1) \/ ClosesFence(lines, i)}
      spans == Spans(Len(lines), cuts)
  IN [n \in DOMAIN spans |-> [atomic |-> Sort(spans[n].from) # "prose",
                              lines |-> SubSeq(lines, spans[n].from, spans[n].to)]]

\* Windows of ChunkSize words, each sharing Overlap of them with the one before, until one
\* reaches the end.
ChunkText(lines) ==
  LET words == Picked(lines, NotOfKind(lines, {"blank"}))
      step == ChunkSize - Overlap
      turns == {n \in 0 .. Len(words) - 1 : n = 0 \/ (n - 1) * step + ChunkSize < Len(words)}
      Window(n) == SubSeq(words, n * step + 1,
                     IF n * step + ChunkSize < Len(words) THEN n * step + ChunkSize ELSE Len(words))
  IN [k \in 1 .. Cardinality(turns) |-> Window(Ith(turns, k))]

\* Pieces under the floor are merged with each other and with nothing else.
Flushed(acc) == IF acc.run = <<>> THEN acc.done ELSE Append(acc.done, acc.run)
TakePiece(acc, piece) ==
  IF Len(piece) >= MinChars THEN [done |-> Append(Flushed(acc), piece), run |-> <<>>]
  ELSE LET run == acc.run \o piece
       IN  IF Len(run) >= MinChars THEN [done |-> Append(acc.done, run), run |-> <<>>]
           ELSE [done |-> acc.done, run |-> run]
CoalesceSmall(pieces) ==
  LET taken[n \in 0 .. Len(pieces)] ==
        IF n = 0 THEN [done |-> <<>>, run |-> <<>>] ELSE TakePiece(taken[n - 1], pieces[n])
  IN  Flushed(taken[Len(pieces)])

ChunkMarkdown(lines) ==
  CoalesceSmall(Each(SegmentMarkdown(lines), LAMBDA s :
    IF s.atomic THEN <<s.lines>> ELSE ChunkText(s.lines)))

\* The chunks of a page, and the heading in force at its end.
ChunkPage(lines, page, before) ==
  LET spans == Spans(Len(lines), SectionCuts(lines))
  IN FlattenSeq([n \in DOMAIN spans |->
       LET texts == ChunkMarkdown(SubSeq(lines, spans[n].from, spans[n].to))
           section == HeadingOf(SubSeq(lines, 1, spans[n].to), before)
       IN [t \in DOMAIN texts |-> [lines |-> texts[t], page |-> page, section |-> section]]])

\* Mutated: a page starts without a section.
IngestEachPage(texts) ==
  FlattenSeq([p \in DOMAIN texts |->
    ChunkPage(texts[p], IF Len(texts) > 1 THEN p ELSE 0, NoSection)])

\* The heading in force at the end of a page is that of the next one's beginning.
IngestPages(texts) ==
  FlattenSeq([p \in DOMAIN texts |->
    ChunkPage(texts[p], IF Len(texts) > 1 THEN p ELSE 0,
              HeadingOf(FlattenSeq(SubSeq(texts, 1, p - 1)), NoSection))])

-----------------------------------------------------------------------------
(* The ingestion of a document *)

DocumentsInit ==
  /\ printed \in Printed
  /\ parser \in {"docling", "pypdf", "text"}
  /\ parser = "text" => Pictures = <<>>
  /\ paginated \in BOOLEAN /\ hybrid \in BOOLEAN
  /\ vlm \in {"off", "on", "misconfigured"}
  /\ parser # "docling" => paginated /\ vlm = "off" /\ ~hybrid
  /\ parsing = "load"
  /\ slots = <<>>
  /\ pages = <<>>
  /\ indexed = <<>>

Flat == [p \in DOMAIN printed |-> TextLayer(printed[p])]

\* A file without pages is one.
LoadText ==
  /\ parsing = "load" /\ parser = "text"
  /\ pages' = <<FlattenSeq(printed)>>
  /\ parsing' = "chunk"
  /\ UNCHANGED <<settingVars, slots, indexed>>

\* pypdf, by choice or because the layout parse failed at anything, also at
\* building the annotator.
LoadFlat ==
  /\ parsing = "load" /\ parser \in {"pypdf", "docling"}
  /\ pages' = Flat
  /\ parsing' = "chunk"
  /\ UNCHANGED <<settingVars, slots, indexed>>

\* pypdf fails too: the caller gets the exception, and nothing is indexed.
LoadFails ==
  /\ parsing = "load" /\ parser # "text"
  /\ parsing' = "failed"
  /\ UNCHANGED <<settingVars, slots, pages, indexed>>

Convert ==
  /\ parsing = "load" /\ parser = "docling" /\ vlm # "misconfigured"
  /\ parsing' = IF vlm = "on" THEN "figures" ELSE "export"
  /\ UNCHANGED <<settingVars, slots, pages, indexed>>

\* One picture: its transcription, or an empty slot if it is left out or the call fails.
Annotate ==
  LET n == Len(slots) + 1
  IN /\ parsing = "figures" /\ n <= Len(Pictures)
     /\ \E text \in {<<>>} \cup (IF Selected(n) THEN {Transcription(Pictures[n].figure)} ELSE {}) :
          slots' = Append(slots, [page |-> Pictures[n].page, figure |-> Pictures[n].figure, text |-> text])
     /\ UNCHANGED <<settingVars, parsing, pages, indexed>>

\* The pages with their figures; without pages, the whole document as one.
Export ==
  LET WithFigures(lines, texts) == IF texts = <<>> THEN lines ELSE Inject(lines, texts)
  IN /\ \/ parsing = "export"
        \/ parsing = "figures" /\ Len(slots) = Len(Pictures)
     /\ pages' = IF paginated
                 THEN [p \in DOMAIN printed |-> WithFigures(Exported(printed[p]), TextsOf(p))]
                 ELSE <<WithFigures(Exported(FlattenSeq(printed)),
                                    [n \in DOMAIN slots |-> slots[n].text])>>
     /\ parsing' = IF hybrid THEN "recover" ELSE "chunk"
     /\ UNCHANGED <<settingVars, slots, indexed>>

Recover ==
  /\ parsing = "recover"
  /\ pages' = Recovered(pages, Flat)
  /\ parsing' = "chunk recovered"
  /\ UNCHANGED <<settingVars, slots, indexed>>

\* pypdf fails: the parse stands.
RecoverFails ==
  /\ parsing = "recover"
  /\ parsing' = "chunk"
  /\ UNCHANGED <<settingVars, slots, pages, indexed>>

Index ==
  /\ parsing \in {"chunk", "chunk recovered"}
  /\ indexed' = IngestPages(pages)
  /\ parsing' = IF parsing = "chunk" THEN "indexed" ELSE "indexed recovered"
  /\ UNCHANGED <<settingVars, slots, pages>>

DocumentsDone == parsing \in {"indexed", "indexed recovered"}

DocumentsNext ==
  \/ LoadText \/ LoadFlat \/ LoadFails \/ Convert \/ Annotate \/ Export
  \/ Recover \/ RecoverFails \/ Index
  \/ (DocumentsDone \/ parsing = "failed") /\ UNCHANGED documentVars

DocumentsSpec == DocumentsInit /\ [][DocumentsNext]_documentVars

-----------------------------------------------------------------------------
(* Properties *)

DocumentsTypeOK ==
  /\ parser \in {"docling", "pypdf", "text"} /\ vlm \in {"off", "on", "misconfigured"}
  /\ {paginated, hybrid} \subseteq BOOLEAN
  /\ parsing \in {"load", "figures", "export", "recover", "chunk", "chunk recovered",
                  "indexed", "indexed recovered", "failed"}
  /\ Len(slots) <= Len(Pictures)
  /\ \A p \in DOMAIN pages : Keys(pages[p]) \subseteq Nat \X Nat \X Nat
  /\ \A c \in DOMAIN indexed : /\ indexed[c].page \in 0 .. Len(printed)
                              /\ indexed[c].lines # <<>>

KeysIndexed == UNION {Keys(indexed[c].lines) : c \in DOMAIN indexed}
LetteredOf(layer) == UNION {{layer[p][i].key : i \in {i \in DOMAIN layer[p] : Lettered(layer[p][i])}}
                              : p \in DOMAIN layer}

\* No text is lost on the way: every line of a page is in a chunk; with the recovery
\* also every line of letters of the text layer but for running headers; and every
\* transcription that was paid for, in its marker or not.
NothingIsLost ==
  DocumentsDone =>
    /\ \A p \in DOMAIN pages : \A i \in NotOfKind(pages[p], {"blank"}) :
         pages[p][i].key \in KeysIndexed
    /\ parsing = "indexed recovered" => LetteredOf(Flat) \ Repeated(Flat) \subseteq KeysIndexed
    /\ \A n \in DOMAIN slots : Keys(slots[n].text) \subseteq KeysIndexed

\* Two rows of a table that follow one another on a page are in the same chunks.
TablesAreWhole ==
  \A p \in DOMAIN pages : \A i \in 1 .. Len(pages[p]) - 1 :
    pages[p][i].kind = "row" /\ pages[p][i + 1].kind = "row" =>
      \A c \in DOMAIN indexed :
        pages[p][i].key \in Keys(indexed[c].lines) <=> pages[p][i + 1].key \in Keys(indexed[c].lines)

\* A chunk's section is the heading nearest above its text, on its page or before;
\* a chunk of headings alone has its own last one or one right below it.
SectionIsNearest ==
  LET all == FlattenSeq(pages)
      Nearest(i) == HeadingOf(SubSeq(all, 1, i), NoSection)
  IN \A c \in DOMAIN indexed : \A i \in DOMAIN all :
       all[i].key \in Keys(indexed[c].lines) /\ all[i].kind \notin {"heading", "blank"} =>
         \E j \in DOMAIN all : all[j] = all[i] /\ Nearest(j) = indexed[c].section

\* A page number is that of the page the text is printed on, also for recovered text
\* and for figures, as long as the layout parse reports pages.
PageIsTrue ==
  \A c \in DOMAIN indexed : \A i \in DOMAIN indexed[c].lines :
    indexed[c].page # 0 => indexed[c].lines[i].key[1] \in {0, indexed[c].page}

\* A transcription is between what is printed around its picture, when every picture of
\* the page has a marker.
FiguresStayInPlace ==
  parser = "docling" /\ paginated /\ parsing = "indexed" =>
    \A p \in DOMAIN pages :
      (\A i \in DOMAIN printed[p] : printed[p][i].kind # "unmarked") =>
        \A i, j \in DOMAIN pages[p] :
          LET k == pages[p][i].key  l == pages[p][j].key
          IN i < j /\ k[1] # 0 /\ l[1] # 0 => k[2] < l[2] \/ (k[2] = l[2] /\ k[3] <= l[3])

DocumentsInv ==
  /\ DocumentsTypeOK
  /\ TablesAreWhole
  /\ SectionIsNearest
  /\ PageIsTrue
  /\ FiguresStayInPlace

\* "Raising here ... fails fast and loudly instead of silently producing a corpus with
\* no figure data" (figure_vlm.py:126-127).
MisconfiguredIsLoud ==
  vlm = "misconfigured" => ~DocumentsDone

=============================================================================
