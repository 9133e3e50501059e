-------------------------------- MODULE Search --------------------------------
(***************************************************************************)
(* From a question to the context it is answered from: RetrievalService    *)
(* over the session's uploads and the shared corpus, on the three vector   *)
(* stores, with the expansion of hits by their neighbours and the retry    *)
(* without a filter.  Meanwhile the ingestion replaces documents.          *)
(*                                                                         *)
(* A text is <<origin, source, position, revision>>.  Its score is that of *)
(* its place: a revision changes the words, not what they are about.  Of an *)
(* upload the revision tells files of one name apart.                      *)
(* Stores answer from a pool larger than the corpus (_HYBRID_CANDIDATES).  *)
(***************************************************************************)
EXTENDS Integers, Sequences, FiniteSets, SequencesExt, Subsequences

CONSTANTS
  Backend,       \* the VECTOR_BACKENDs: sequences of "pgvector", "milvus"
  Corpus,        \* the metadata of each shared chunk, but for its text
  Legacy,        \* sources indexed before chunks had a chunk_index
  Sessions,      \* the uploads a conversation may have: sets of <<filename, position, copy>>
  Short,         \* places with fewer than min_chunk_chars
  Scorings,      \* what the scores may be: cosine and BM25 of each place
  Plans,         \* what the strategy router may answer
  Like,          \* the publishers that a publisher filter, cleaned, is part of
  Cutoff,        \* the threshold of each kind of score that has one
  K, Overfetch, Radius,
  MaxRevision,
  Whatever,           \* a filter that asks for nothing
  Empty          \* the empty string of a column

\* The positions of a document's chunks are its own, and what is known of a chunk is
\* not the empty string.
ASSUME SearchAssumption ==
  /\ Backend \subseteq Seq({"pgvector", "milvus"}) /\ <<>> \notin Backend
  /\ \A m \in Corpus :
       /\ m = [f \in DOMAIN m |-> m[f]]
       /\ {"source", "chunk_index"} \subseteq DOMAIN m /\ "text" \notin DOMAIN m
       /\ m["chunk_index"] \in Nat
       /\ \A f \in DOMAIN m : m[f] # Empty
       /\ \A rev \in 0 .. MaxRevision : <<"shared", m["source"], m["chunk_index"], rev>> # Empty
  /\ \A m, n \in Corpus :
       m["source"] = n["source"] /\ m["chunk_index"] = n["chunk_index"] => m = n
  /\ \A uploads \in Sessions :
       IsFiniteSet(uploads) /\ \A u \in uploads : u[2] \in Nat /\ u[3] \in Nat
  /\ \A scores \in Scorings :
       /\ \A m \in Corpus : LET place == <<"shared", m["source"], m["chunk_index"]>>
                          IN  scores.cosine[place] \in Int /\ scores.bm25[place] \in Int
       /\ \A uploads \in Sessions : \A u \in uploads :
            scores.cosine[<<"session", u[1], u[2]>>] \in Int
  /\ \A plan \in Plans : plan = [strategy |-> plan.strategy, filter |-> plan.filter]
  /\ Cutoff \in [DOMAIN Cutoff -> Int]
  /\ K \in Nat \ {0} /\ Overfetch \in Nat \ {0} /\ Radius \in Nat /\ MaxRevision \in Nat

VARIABLES
  backend, expanding, caller, scoring, session, \* the deployment and the turn
  stores,    \* the rows of each store, the primary first
  rewrite,   \* where the ingestion is in replacing a document
  dirty,     \* sources whose replacement was not committed
  step,      \* where the search is
  how,       \* the plan
  mine,      \* the hits of the session
  fusedIds,  \* what the first call of a hybrid search answered
  theirs,    \* the hits of the shared corpus
  found,     \* the hits before expansion
  neighbors, \* the texts fetched around them, by source
  widened,   \* how many of the hits are expanded
  consumed,  \* the places their windows took
  context,   \* the hits handed on
  relevant   \* chunks of which the last search was to find some, if they stayed

turnVars == <<backend, expanding, caller, scoring, session>>
writeVars == <<stores, rewrite, dirty>>
expandVars == <<neighbors, widened, consumed>>
gatherVars == <<step, how, mine, fusedIds, theirs, found, expandVars, context, relevant>>
searchVars == <<turnVars, writeVars, gatherVars>>

Sources == {m["source"] : m \in Corpus}
Idle == [at |-> "idle", source |-> Whatever, store |-> 0, revision |-> 0, length |-> 0]
NoFilter == [publisher |-> Whatever, from |-> Whatever]
Default == [strategy |-> "hybrid_rrf", filter |-> NoFilter]

-----------------------------------------------------------------------------
(* Rows *)

\* The metadata with a key more, unless it has it.
With(m, key, value) ==
  [f \in DOMAIN m \cup {key} |-> IF f \in DOMAIN m THEN m[f] ELSE value]

\* What index() adds to the metadata of a chunk.
Indexed(m, origin, rev) == With(m, "text", <<origin, m["source"], m["chunk_index"], rev>>)

Columns == {"text", "source", "publisher", "published_date"}
Promoted == Columns \cup {"chunk_index"}

\* Metadata as columns and a rest: absent is the empty string, or -1.  The str() of a
\* column is left out: loaders and routes put strings there, and no None.
Split(m) ==
  [column |-> [f \in Columns |-> IF f \in DOMAIN m THEN m[f] ELSE Empty],
   index |-> IF "chunk_index" \in DOMAIN m THEN m["chunk_index"] ELSE -1,
   rest |-> [f \in DOMAIN m \ Promoted |-> m[f]]]

Merge(row) ==
  [f \in DOMAIN row.rest \cup {g \in Columns : row.column[g] # Empty}
         \cup {g \in {"chunk_index"} : row.index >= 0} |->
     CASE f \in Columns -> row.column[f]
       [] f = "chunk_index" -> row.index
       [] OTHER -> row.rest[f]]

Stored(kind, m) == IF kind = "milvus" THEN Split(m) ELSE m
Read(kind, row) == IF kind = "milvus" THEN Merge(row) ELSE row

\* The metadata of every row of a store, as its reads give it.
Items(i) == {Read(backend[i], row) : row \in stores[i]}
Primary == Items(1)

Original(m) ==
  LET known == Indexed(m, "shared", 0)
  IN  IF m["source"] \in Legacy
      THEN [f \in DOMAIN known \ {"chunk_index"} |-> known[f]] ELSE known

Uploaded ==
  {Indexed([source |-> u[1], chunk_index |-> u[2]], "session", u[3]) : u \in session}

Place(text) == <<text[1], text[2], text[3]>>
Cosine(m) == scoring.cosine[Place(m["text"])]
Bm25(m) == scoring.bm25[Place(m["text"])]
Blend(m) == 7 * Cosine(m) + 3 * Bm25(m)
Substantive(m) == Place(m["text"]) \notin Short

SearchInit ==
  /\ backend \in Backend
  /\ expanding \in BOOLEAN
  /\ caller \in {"chat", "agent"}
  /\ scoring \in Scorings
  /\ session \in Sessions
  /\ stores = [i \in DOMAIN backend |-> {Stored(backend[i], Original(m)) : m \in Corpus}]
  /\ rewrite = Idle
  /\ dirty = {}
  /\ step = "route"
  /\ how = Default
  /\ mine = <<>> /\ fusedIds = <<>> /\ theirs = <<>>
  /\ found = <<>> /\ context = <<>> /\ relevant = {}
  /\ neighbors = <<>> /\ widened = 0 /\ consumed = {}

-----------------------------------------------------------------------------
(* The plan, and the searches of a store *)

Active(f) == f # NoFilter

IsDefault(p) == p.strategy = "hybrid_rrf" /\ ~Active(p.filter)

Strategic == backend = <<"milvus">>

\* The filter as the store evaluates it, on the columns.
Within(row, f) ==
  /\ f.publisher # Whatever => row.column["publisher"] \in Like[f.publisher]
  /\ f.from # Whatever => \/ row.column["published_date"] = Empty
                     \/ row.column["published_date"] >= f.from

Candidates(p) ==
  IF Active(p.filter) THEN {Merge(row) : row \in {r \in stores[1] : Within(r, p.filter)}}
                      ELSE Primary

Least(a, b) == IF a < b THEN a ELSE b
UpTo(n, s) == SubSeq(s, 1, Least(n, Len(s)))

\* Each strategy but the fusion of ranks has one score.
Kind(p) == CASE p.strategy = "lexical" -> "bm25"
             [] p.strategy = "hybrid_weighted" -> "normalized"
             [] OTHER -> "cosine"
Score(kind, m) == CASE kind = "cosine" -> Cosine(m)
                    [] kind = "bm25" -> Bm25(m)
                    [] kind = "normalized" -> Blend(m)
Hit(m, kind) == [meta |-> m, kind |-> kind, score |-> Score(kind, m), texts |-> <<m["text"]>>]

Searched(S, kind) == IF kind = "bm25" THEN {m \in S : Bm25(m) > 0} ELSE S

Higher(S, kind) == {p \in S \X S : Score(kind, p[1]) > Score(kind, p[2])}

\* The first n of S in some order of theirs that agrees with what is ahead of what.
Leading(S, ahead, n) ==
  {s \in BoundedSeq(S, n) :
     /\ \A i, j \in DOMAIN s : i < j => s[i] # s[j] /\ <<s[j], s[i]>> \notin ahead
     /\ \A m \in S :
          \/ \E i \in DOMAIN s : s[i] = m
          \/ Len(s) = n /\ \A i \in DOMAIN s : <<m, s[i]>> \notin ahead}

\* A search by one score: the store breaks ties.
Ranked(S, kind, n) ==
  {[i \in DOMAIN s |-> Hit(s[i], kind)] : s \in Leading(S, Higher(S, kind), n)}

\* The fusion of ranks: what is ahead in both searches stays ahead.
Fused(S, n) == Leading(S, Higher(S, "cosine") \cap Higher(S, "bm25"), n)

\* ThresholdFilter: a kind of score without a cutoff is never dropped.
Passes(kind, score) == kind \in DOMAIN Cutoff => score >= Cutoff[kind]
Keep(hits) == Picked(hits, {i \in DOMAIN hits : Passes(hits[i].kind, hits[i].score)})

\* Short chunks go, unless there are only such.
Trim(hits) ==
  LET long == {i \in DOMAIN hits : Substantive(hits[i].meta)}
  IN  UpTo(K, IF long # {} THEN Picked(hits, long) ELSE hits)

-----------------------------------------------------------------------------
(* gather, and retrieve_corpus *)

Route ==
  /\ step = "route"
  /\ how' \in Plans
  /\ step' = IF caller = "chat" THEN "session" ELSE "shared"
  /\ UNCHANGED <<turnVars, writeVars, mine, fusedIds, theirs, found, expandVars, context, relevant>>

\* The uploads first, by cosine, whatever the plan; the corpus only fills what they
\* leave open.
FromSession ==
  /\ step = "session"
  /\ \E hits \in Ranked(Uploaded, "cosine", K) : mine' = Keep(hits)
  /\ theirs' = <<>>
  /\ step' = IF Len(mine') < K THEN "shared" ELSE "merge"
  /\ UNCHANGED <<turnVars, writeVars, how, fusedIds, found, expandVars, context, relevant>>

Fetched(hits) ==
  /\ theirs' = Keep(Trim(hits))
  /\ step' = "merge"

\* Of the chunks above the cutoff the long ones cannot all be missed by a search of one
\* score, nor any of them where no chunk is below it.
Due(S, kind) ==
  {m["text"] : m \in {c \in S :
     /\ Passes(kind, Score(kind, c))
     /\ Substantive(c) \/ \A o \in S : Passes(kind, Score(kind, o))}}

OneScore == IF IsDefault(how) THEN backend[1] = "pgvector"
            ELSE Strategic /\ how.strategy # "hybrid_rrf"
TwoScores == how.strategy = "hybrid_rrf" /\ backend[1] = "milvus" /\ (IsDefault(how) \/ Strategic)

\* One search of the shared store.
SearchShared ==
  /\ step = "shared" /\ OneScore
  /\ LET S == Searched(Candidates(how), Kind(how))
     IN  /\ \E hits \in Ranked(S, Kind(how), K * Overfetch) : Fetched(hits)
         /\ relevant' = Due(S, Kind(how))
  /\ UNCHANGED <<turnVars, writeVars, how, mine, fusedIds, found, expandVars, context>>

\* A hybrid one asks for the ids first.
FuseShared ==
  /\ step = "shared" /\ TwoScores
  /\ \E s \in Fused(Candidates(how), K * Overfetch) :
       /\ fusedIds' = [i \in DOMAIN s |-> s[i]["text"]]
       /\ relevant' = IF \A i \in DOMAIN s : Passes("cosine", Cosine(s[i]))
                      THEN {s[i]["text"] : i \in DOMAIN s} ELSE {}
  /\ step' = "refetch"
  /\ UNCHANGED <<turnVars, writeVars, how, mine, theirs, found, expandVars, context>>

\* UnsupportedStrategyError.
Unsupported ==
  /\ step = "shared" /\ ~IsDefault(how) /\ ~Strategic
  /\ step' = "failed"
  /\ UNCHANGED <<turnVars, writeVars, how, mine, fusedIds, theirs, found, expandVars, context, relevant>>

\* Then the rows, for their vectors: those still there, in the order of the ids.
Refetch ==
  /\ step = "refetch"
  /\ LET row(id) == CHOOSE m \in Primary : m["text"] = id
         there == Picked(fusedIds, {i \in DOMAIN fusedIds :
                                      \E m \in Primary : m["text"] = fusedIds[i]})
     IN  Fetched([i \in DOMAIN there |-> Hit(row(there[i]), "cosine")])
  /\ UNCHANGED <<turnVars, writeVars, how, mine, fusedIds, found, expandVars, context, relevant>>

\* Python sorts the hits of both by score again; both sorts are stable.
Sorts(hits) ==
  {[i \in DOMAIN hits |-> hits[p[i]]] : p \in {q \in [DOMAIN hits -> DOMAIN hits] :
     \A i, j \in DOMAIN hits : i < j =>
       \/ hits[q[i]].score > hits[q[j]].score
       \/ hits[q[i]].score = hits[q[j]].score /\ q[i] < q[j]}}

\* order_session_first.
Merged ==
  /\ step = "merge"
  /\ IF caller = "chat"
     THEN \E uploads \in Sorts(mine), shared \in Sorts(theirs) : found' = UpTo(K, uploads \o shared)
     ELSE found' = theirs
  /\ neighbors' = <<>> /\ widened' = 0 /\ consumed' = {}
  /\ step' = IF caller # "chat" THEN "done"
             ELSE IF expanding /\ Radius > 0 THEN "expand" ELSE "gathered"
  /\ context' = IF step' = "expand" THEN <<>> ELSE found'
  /\ UNCHANGED <<turnVars, writeVars, how, mine, fusedIds, theirs, relevant>>

-----------------------------------------------------------------------------
(* NeighborExpander, on the shared store whatever the hit came from *)

\* fetch_neighbors: the texts of a source by position.
Neighbors(source) ==
  LET at == {m \in Primary : m["source"] = source /\ "chunk_index" \in DOMAIN m}
  IN  [i \in {m["chunk_index"] : m \in at} |-> (CHOOSE m \in at : m["chunk_index"] = i)["text"]]

Between(i, center) == IF i < center THEN i .. center - 1 ELSE center + 1 .. i

\* Up to Radius each way, as far as nothing is missing.  No deployment sets clamp_section,
\* which would stop at the end of a section too.
Window(center, texts) ==
  {center} \cup {i \in center - Radius .. center + Radius : Between(i, center) \subseteq DOMAIN texts}

Expandable(hit) == "chunk_index" \in DOMAIN hit.meta

Centers == {found[i].meta["source"] : i \in {j \in DOMAIN found : Expandable(found[j])}}

\* One round-trip for each source.
FetchNeighbors(source) ==
  /\ step = "expand"
  /\ source \in Centers \ DOMAIN neighbors
  /\ neighbors' = With(neighbors, source, Neighbors(source))
  /\ UNCHANGED <<turnVars, writeVars, step, how, mine, fusedIds, theirs, found, widened, consumed,
                 context, relevant>>

\* The texts of the window that no earlier hit has taken, in reading order.
Widen(hit, source, center) ==
  LET position(k) == center - Radius - 1 + k
      text(i) == IF i \in DOMAIN neighbors[source] THEN neighbors[source][i] ELSE hit.texts[1]
      fresh == {k \in 1 .. 2 * Radius + 1 :
                  /\ position(k) \in Window(center, neighbors[source])
                  /\ <<source, position(k)>> \notin consumed}
  IN  Picked([k \in 1 .. 2 * Radius + 1 |-> text(position(k))], fresh)

\* Mutated: a window is remembered by its center alone.
ConsumeCenter(source, center) == {<<source, center>>}

Consume(source, center) == {<<source, i>> : i \in Window(center, neighbors[source])}

\* Hits in rank order; one an earlier window took is dropped.
ExpandHit ==
  /\ step = "expand" /\ Centers \subseteq DOMAIN neighbors
  /\ widened < Len(found)
  /\ widened' = widened + 1
  /\ LET hit == found[widened + 1]
         source == hit.meta["source"]
         center == hit.meta["chunk_index"]
     IN  \/ /\ ~Expandable(hit)
            /\ context' = Append(context, hit)
            /\ UNCHANGED consumed
         \/ /\ Expandable(hit) /\ <<source, center>> \in consumed
            /\ UNCHANGED <<context, consumed>>
         \/ /\ Expandable(hit) /\ <<source, center>> \notin consumed
            /\ context' = Append(context, [hit EXCEPT !.texts = Widen(hit, source, center)])
            /\ consumed' = consumed \cup Consume(source, center)
  /\ UNCHANGED <<turnVars, writeVars, step, how, mine, fusedIds, theirs, found, neighbors, relevant>>

Expanded ==
  /\ step = "expand" /\ Centers \subseteq DOMAIN neighbors
  /\ widened = Len(found)
  /\ step' = "gathered"
  /\ UNCHANGED <<turnVars, writeVars, how, mine, fusedIds, theirs, found, expandVars, context, relevant>>

\* Mutated: a filter that leaves nothing leaves nothing.
NeverBroaden ==
  /\ step = "gathered"
  /\ step' = "done"
  /\ UNCHANGED <<turnVars, writeVars, how, mine, fusedIds, theirs, found, expandVars, context, relevant>>

\* The chat turn: a filter that leaves nothing is dropped, once.
Broaden ==
  /\ step = "gathered"
  /\ IF context = <<>> /\ Active(how.filter)
     THEN how' = [how EXCEPT !.filter = NoFilter] /\ step' = "session"
     ELSE step' = "done" /\ UNCHANGED how
  /\ UNCHANGED <<turnVars, writeVars, mine, fusedIds, theirs, found, expandVars, context, relevant>>

-----------------------------------------------------------------------------
(* The ingestion replaces a document it has stored before: deletes it from each *)
(* store in turn, then adds the new chunks to each.                             *)

StartRewrite(s) ==
  /\ rewrite.at = "idle"
  /\ rewrite.revision < MaxRevision
  /\ \E n \in 1 .. Cardinality({m \in Corpus : m["source"] = s}) :
       rewrite' = [at |-> "delete", source |-> s, store |-> 1,
                   revision |-> rewrite.revision + 1, length |-> n]
  /\ dirty' = dirty \cup {s}
  /\ UNCHANGED <<turnVars, gatherVars, stores>>

\* The next store, or the next thing to do.
Onwards(next) ==
  IF rewrite.store < Len(backend) THEN [rewrite EXCEPT !.store = @ + 1]
  ELSE [rewrite EXCEPT !.at = next, !.store = 1]

DeleteBySource ==
  /\ rewrite.at = "delete"
  /\ stores' = [stores EXCEPT ![rewrite.store] =
       {row \in @ : Read(backend[rewrite.store], row)["source"] # rewrite.source}]
  /\ rewrite' = Onwards("upsert")
  /\ UNCHANGED <<turnVars, gatherVars, dirty>>

Renewed ==
  {Indexed(m, "shared", rewrite.revision) :
     m \in {c \in Corpus : c["source"] = rewrite.source /\ c["chunk_index"] < rewrite.length}}

\* Mutated: only the primary is written.
UpsertPrimary ==
  /\ rewrite.at = "upsert"
  /\ stores' = [stores EXCEPT ![1] = @ \cup {Stored(backend[1], m) : m \in Renewed}]
  /\ rewrite' = [rewrite EXCEPT !.at = "idle", !.store = 1]
  /\ dirty' = dirty \ {rewrite.source}
  /\ UNCHANGED <<turnVars, gatherVars>>

\* The file is committed once the last store has it.
Upsert ==
  /\ rewrite.at = "upsert"
  /\ stores' = [stores EXCEPT ![rewrite.store] =
       @ \cup {Stored(backend[rewrite.store], m) : m \in Renewed}]
  /\ rewrite' = Onwards("idle")
  /\ dirty' = IF rewrite'.at = "idle" THEN dirty \ {rewrite.source} ELSE dirty
  /\ UNCHANGED <<turnVars, gatherVars>>

\* A store fails: the file stays to be done again.
WriteFails ==
  /\ rewrite.at # "idle"
  /\ rewrite' = [rewrite EXCEPT !.at = "idle", !.store = 1]
  /\ UNCHANGED <<turnVars, gatherVars, stores, dirty>>

Answered == step \in {"done", "failed"} /\ UNCHANGED searchVars

SearchNext ==
  \/ Route \/ FromSession \/ SearchShared \/ FuseShared \/ Unsupported \/ Refetch \/ Merged
  \/ \E s \in Centers : FetchNeighbors(s)
  \/ ExpandHit \/ Expanded \/ Broaden
  \/ \E s \in Sources : StartRewrite(s)
  \/ DeleteBySource \/ Upsert \/ WriteFails
  \/ Answered

SearchSpec == SearchInit /\ [][SearchNext]_searchVars

-----------------------------------------------------------------------------

SearchTypeOK ==
  /\ DOMAIN stores = DOMAIN backend
  /\ \A i \in DOMAIN stores : \A m \in Items(i) :
       /\ m["source"] \in Sources
       /\ m["text"][4] \in 0 .. rewrite.revision
       /\ "chunk_index" \in DOMAIN m => m["chunk_index"] \in Nat
  /\ dirty \subseteq Sources
  /\ step \in {"route", "session", "shared", "refetch", "merge", "expand", "gathered",
               "done", "failed"}
  /\ how \in {Default} \cup Plans \cup {[p EXCEPT !.filter = NoFilter] : p \in Plans}
  /\ \A hits \in {mine, theirs, found, context} : Len(hits) <= K

\* What was added to a store comes back as it was, whatever the store: absent keys stay
\* absent, a chunk without a position gets none; and once a replacement is committed,
\* every store of a fan-out holds the same chunks of the document.
SameInEveryStore ==
  \A i \in DOMAIN backend : \A m \in Items(i) :
    m["source"] \notin dirty =>
      /\ \E c \in Corpus : m \in {Original(c), Indexed(c, "shared", m["text"][4])}
      /\ \A j \in DOMAIN backend : m \in Items(j)

\* No upload is named like a document, nor two of a conversation alike.
NamedApart ==
  \A u \in session : u[1] \notin Sources /\ \A v \in session : v[1] = u[1] /\ v[2] = u[2] => v = u

\* No chunk is in the context twice, in two revisions neither, however the windows of the
\* hits overlap and whatever is replaced between the search and the expansion.
NothingTwice ==
  step = "gathered" =>
    \A h, i \in DOMAIN context : \A k \in DOMAIN context[h].texts, l \in DOMAIN context[i].texts :
      Place(context[h].texts[k]) = Place(context[i].texts[l]) => h = i /\ k = l

\* Every hit is handed on: its own text, or that of its place in a later revision, is
\* somewhere in the context, in an entry of its own or in the window of an earlier one.
EveryHitIsShown ==
  step \in {"gathered", "done"} =>
    \A i \in DOMAIN found : \E h \in DOMAIN context : \E k \in DOMAIN context[h].texts :
      /\ Place(context[h].texts[k]) = Place(found[i].meta["text"])
      /\ context[h].texts[k][4] >= found[i].meta["text"][4]

IsUpload(hit) == hit.meta["text"][1] = "session"

\* Nothing the search found is lost, or shown twice, by the windows around it.
ExpansionIsExact == NamedApart => NothingTwice /\ EveryHitIsShown

\* Uploads lead: no shared hit comes before one, however good; a relevant upload is left
\* out only for want of room.
UploadsLead ==
  step = "gathered" =>
    /\ \A i, j \in DOMAIN found : i < j /\ IsUpload(found[j]) => IsUpload(found[i])
    /\ Cardinality({i \in DOMAIN found : IsUpload(found[i])})
         = Least(K, Cardinality({m \in Uploaded : Passes("cosine", Cosine(m))}))

\* What a filtered search hands on is of that publisher, and not dated before the date
\* asked for; a document without a date is never left out for it.
WithinFilter ==
  step \in {"gathered", "done"} =>
    \A i \in DOMAIN found : ~IsUpload(found[i]) =>
      LET m == found[i].meta
      IN  /\ how.filter.publisher # Whatever =>
               \/ "publisher" \in DOMAIN m /\ m["publisher"] \in Like[how.filter.publisher]
               \/ Empty \in Like[how.filter.publisher]
          /\ how.filter.from # Whatever /\ "published_date" \in DOMAIN m =>
               m["published_date"] >= how.filter.from

\* The rows are well-formed, the stores agree, the uploads lead, and the filter holds.
SearchInv == SearchTypeOK /\ SameInEveryStore /\ UploadsLead /\ WithinFilter

\* A turn is left without context only by a search without a filter, and only if what that
\* one was to find was deleted while it was searched: the minimal length never empties it,
\* nor does the order of the ranks, as long as it brings up nothing below the cutoff.
NothingWithheld ==
  caller = "chat" /\ step = "done" /\ context = <<>> =>
    ~Active(how.filter) /\ relevant \cap {m["text"] : m \in Primary} = {}

\* expansion.py:39-40: session uploads pass through the expansion untouched.
UploadsPassThrough ==
  step = "gathered" =>
    \A i \in DOMAIN found : IsUpload(found[i]) => \E h \in DOMAIN context : context[h] = found[i]
=============================================================================
