------------------------------ MODULE Retrieval ------------------------------
(***************************************************************************)
(* One retrieval on a request's read-only connection (retrieval/,          *)
(* reranking/service.py and the readers of storage/repositories.py), for   *)
(* every mode that build_generation_retriever knows.                       *)
(*                                                                         *)
(* The connection is in autocommit mode: each SELECT reads the index of    *)
(* its own moment, and a build may apply between any two of them.  It may  *)
(* take chunks away, give their rowids to others, turn a document private  *)
(* or change the active embedding profile.                                 *)
(*                                                                         *)
(* What a text matches is given by constants: its distance from the query, *)
(* its BM25 score (the lower the better, 0 for no match) and its reranker  *)
(* score.  Chunks, documents and sections are numbers, in the order of     *)
(* their ids.  Scores of a fusion are exact here, in units of 1/Unit.      *)
(***************************************************************************)
EXTENDS Integers, Sequences, FiniteSets, FiniteSetsExt, SequencesExt

CONSTANTS
  Chunks, DocOf, SectionOf,
  Distance, Bm25, DocBm25, SectionBm25, RerankScore,
  Edges,          \* graph edges by edge_id: source, target, doc, section and chunk, 0 for none
  Mentions,       \* aliases found in the query, in the order of the SELECT: node, from, to
  Indexes,        \* contents the index may have: rows, private documents, profile
  Profile,        \* the embedding profile the program was started with
  Queries,        \* mode, top_k and filters
  CandidateFactor, MinCandidates, MaxCandidates,
  VectorCandidates, LexicalCandidates, RerankCandidates,
  DocCandidates, SectionCandidates, ChunkCandidates,
  MaxStarts, MaxHops, MaxNodes, MaxEdges, MaxDocs,
  RrfK, Unit,
  MaxApplies      \* bound: builds applied during the retrieval

Modes == {"vector", "lexical", "hybrid", "reranked", "hierarchical", "graph", "intelligent"}

ASSUME ChunksAssumption ==   \* ids, whose order breaks ties; 0 is none
  /\ Chunks \subseteq Nat \ {0} /\ IsFiniteSet(Chunks)
  /\ \A c \in Chunks : DocOf[c] \in Nat \ {0} /\ SectionOf[c] \in Nat \ {0}
  /\ \A c \in Chunks : Distance[c] \in Int /\ Bm25[c] \in Int /\ RerankScore[c] \in Int
  /\ \A c \in Chunks : DocBm25[DocOf[c]] \in Int /\ SectionBm25[SectionOf[c]] \in Int
ASSUME IndexesAssumption ==  \* chunk_id is UNIQUE in chunks
  \A i \in Indexes : /\ \A r \in DOMAIN i.rows : i.rows[r] \in Chunks
                     /\ \A r, o \in DOMAIN i.rows : i.rows[r] = i.rows[o] => r = o
ASSUME GraphAssumption ==    \* 0 is no document, section or chunk
  /\ \A n \in DOMAIN Edges : {Edges[n].doc, Edges[n].section, Edges[n].chunk} \subseteq Nat
  /\ Edges \in Seq(Range(Edges)) /\ Mentions \in Seq(Range(Mentions))
ASSUME LimitsAssumption ==
  {CandidateFactor, MinCandidates, MaxCandidates, VectorCandidates, LexicalCandidates,
   RerankCandidates, DocCandidates, SectionCandidates, ChunkCandidates, RrfK, Unit} \subseteq Nat
ASSUME WalkAssumption == {MaxHops, MaxNodes, MaxEdges} \subseteq Nat \ {0}   \* config.py:56-58
ASSUME ModesAssumption == \A q \in Queries : q.mode \in Modes /\ q.k \in Nat \ {0}
ASSUME VectorConfigAssumption ==   \* VectorRetrievalConfig.__post_init__
  CandidateFactor >= 2 /\ MinCandidates > 0 /\ MaxCandidates >= MinCandidates
ASSUME UnitAssumption == \A r \in 1..Cardinality(Chunks) : Unit % (RrfK + r) = 0

VARIABLES
  index,       \* knowledge.db: rowid of each chunk, private documents, active profile
  applies,
  pc, query,
  pool,        \* vector search: candidates asked for, and the most there may be
  candidates,  \* what the last SELECT said of the rowids that are still to be hydrated
  walk,        \* state of the graph traversal, or of the hierarchical descent
  lists,       \* ranked lists found so far, by retriever
  results,
  visible      \* history: chunks the query was allowed to see, at any moment of it

vars == <<index, applies, pc, query, pool, candidates, walk, lists, results, visible>>

Stored(i) == {i.rows[r] : r \in DOMAIN i.rows}
Public(i) == {c \in Stored(i) : DocOf[c] \notin i.private}

\* the WHERE clauses of a filter: an empty one does not constrain
Allows(filter, c) ==
  /\ filter.docs = {} \/ DocOf[c] \in filter.docs
  /\ filter.sections = {} \/ SectionOf[c] \in filter.sections

Allowed(i, filter) == {c \in Public(i) : Allows(filter, c)}

Cut(seq, k) == SubSeq(seq, 1, IF Len(seq) < k THEN Len(seq) ELSE k)

RankIn(seq, c) == CHOOSE n \in DOMAIN seq : seq[n] = c

\* the elements of S in the order R: the n-th has n - 1 before it
Below(S, R, x) == {y \in S : <<y, x>> \in R}
Sorted(S, R) ==
  [n \in 1..Cardinality(S) |-> CHOOSE x \in S : Cardinality(Below(S, R, x)) = n - 1]
InOrder(S, before(_, _)) == Sorted(S, {p \in S \X S : before(p[1], p[2])})

\* ORDER BY key, id
Ordered(S, key) == InOrder(S, LAMBDA a, b : key[a] < key[b] \/ (key[a] = key[b] /\ a < b))

\* the elements of a list that are in S
Only(seq, S) == InOrder(Range(seq) \cap S, LAMBDA a, b : RankIn(seq, a) < RankIn(seq, b))

NoCandidates == [r \in {} |-> 0]
NoWalk == [queue |-> <<>>, visited |-> {}, edges |-> 0, docs |-> <<>>, sections |-> <<>>,
           chunks |-> <<>>]
-----------------------------------------------------------------------------
(* The parts of a mode, one after the other.                               *)
FirstStep(mode) ==
  CASE mode \in {"vector", "hybrid", "reranked", "intelligent"} -> "validate"
    [] mode = "lexical" -> "lexical"
    [] mode = "hierarchical" -> "documents"
    [] mode = "graph" -> "resolve"

\* the step that follows the end of a retriever
After(step, mode) ==
  CASE step = "vector" -> IF mode = "vector" THEN "cut"
                          ELSE IF mode = "reranked" THEN "rerank" ELSE "lexical"
    [] step = "lexical" -> IF mode = "lexical" THEN "cut" ELSE "fuse"
    [] step = "hybrid" -> IF mode = "hybrid" THEN "done" ELSE "documents"
    [] step = "hierarchical" -> IF mode = "hierarchical" THEN "cut" ELSE "resolve"
    [] step = "graph" -> IF mode = "graph" THEN "cut" ELSE "blend"

Finds(name, seq) ==
  /\ lists' = [lists EXCEPT ![name] = seq]
  /\ pc' = After(name, query.mode)

At(step) == pc = step /\ UNCHANGED <<index, applies, query, visible>>
Goes(step) == pc' = step
-----------------------------------------------------------------------------
Init ==
  /\ index \in Indexes /\ applies = 0
  /\ query \in Queries /\ pc = FirstStep(query.mode)
  /\ pool = [asked |-> 0, most |-> 0]
  /\ candidates = NoCandidates /\ walk = NoWalk
  /\ lists = [name \in {"vector", "lexical", "hybrid", "hierarchical", "graph"} |-> <<>>]
  /\ results = <<>>
  /\ visible = Allowed(index, query.filter)

\* IndexRepository.apply, between two reads
Apply ==
  /\ pc \notin {"done", "failed"} /\ applies < MaxApplies
  /\ \E i \in Indexes \ {index} : index' = i /\ visible' = visible \cup Allowed(i, query.filter)
  /\ applies' = applies + 1
  /\ UNCHANGED <<pc, query, pool, candidates, walk, lists, results>>

\* VectorRetriever._validate_profile; then the query is encoded with that profile
ValidateProfile ==
  /\ At("validate")
  /\ Goes(IF index.profile = Profile THEN "count" ELSE "failed")
  /\ UNCHANGED <<pool, candidates, walk, lists, results>>

\* top_k of the vector search in each mode
Wanted == IF query.mode = "reranked" THEN RerankCandidates
          ELSE IF query.mode = "vector" THEN query.k ELSE Max({query.k, VectorCandidates})

\* _search_candidates: the size of the index bounds the pool
CountVectors ==
  /\ At("count")
  /\ LET n == Cardinality(DOMAIN index.rows)
         most == Min({n, MaxCandidates})
     IN IF n = 0
        THEN pool' = pool /\ Finds("vector", <<>>)
        ELSE /\ pool' = [asked |-> Min({most, Max({Wanted * CandidateFactor, MinCandidates})}),
                         most |-> most]
             /\ Goes("candidates") /\ UNCHANGED lists
  /\ UNCHANGED <<candidates, walk, results>>

\* vector_candidates: the nearest rowids with their distances; any of those equally far
ReadCandidates ==
  /\ At("candidates")
  /\ \E near \in SUBSET DOMAIN index.rows :
       /\ Cardinality(near) = Min({pool.asked, Cardinality(DOMAIN index.rows)})
       /\ \A r \in near, o \in DOMAIN index.rows \ near :
            Distance[index.rows[r]] <= Distance[index.rows[o]]
       /\ candidates' = [r \in near |-> Distance[index.rows[r]]]
  /\ Goes("hydrate")
  /\ UNCHANGED <<pool, walk, lists, results>>

\* the chunks that have the rowids now, by the distances that were read before
Hydrated(filter) ==
  LET rows == {r \in DOMAIN candidates \cap DOMAIN index.rows :
                 index.rows[r] \in Allowed(index, filter)}
      before(r, o) == \/ candidates[r] < candidates[o]
                      \/ candidates[r] = candidates[o] /\ index.rows[r] < index.rows[o]
      sorted == InOrder(rows, before)
  IN [n \in DOMAIN sorted |-> index.rows[sorted[n]]]

\* seeded bug: the search is not repeated with more candidates
HydrateOnce ==
  /\ At("hydrate")
  /\ Finds("vector", Cut(Hydrated(query.filter), Wanted)) /\ UNCHANGED pool
  /\ candidates' = NoCandidates
  /\ UNCHANGED <<walk, results>>

\* hydrate_filtered_candidates, and a larger pool while too few are allowed
Hydrate ==
  /\ At("hydrate")
  /\ LET allowed == Hydrated(query.filter)
     IN IF Len(allowed) >= Wanted \/ pool.asked >= pool.most
        THEN Finds("vector", Cut(allowed, Wanted)) /\ UNCHANGED pool
        ELSE /\ pool' = [pool EXCEPT !.asked =
                           Min({pool.most, Max({@ + 1, @ * CandidateFactor})})]
             /\ Goes("candidates") /\ UNCHANGED lists
  /\ candidates' = NoCandidates
  /\ UNCHANGED <<walk, results>>

\* lexical_search: one SELECT with its filter
LexicalSearch(filter, k) ==
  Cut(Ordered({c \in Allowed(index, filter) : Bm25[c] > 0}, Bm25), k)

Lexical ==
  /\ At("lexical")
  /\ Finds("lexical", LexicalSearch(query.filter,
             IF query.mode = "lexical" THEN query.k ELSE Max({query.k, LexicalCandidates})))
  /\ UNCHANGED <<pool, candidates, walk, results>>
-----------------------------------------------------------------------------
\* reciprocal_rank_fusion, intelligent_rrf with equal weights: by score, best rank and id
FoundIn(ranked) == UNION {Range(ranked[n]) : n \in DOMAIN ranked}
ListsOf(ranked, c) == {n \in DOMAIN ranked : c \in Range(ranked[n])}
RrfScore(ranked, c) ==
  SumFunctionOnSet([n \in ListsOf(ranked, c) |-> Unit \div (RrfK + RankIn(ranked[n], c))],
                   ListsOf(ranked, c))
BestRank(ranked, c) == Min({RankIn(ranked[n], c) : n \in ListsOf(ranked, c)})

\* seeded bug: the score of a list replaces that of the list before it
FusedOverwritten(ranked) ==
  LET found == FoundIn(ranked)
      last(c) == Max({n \in DOMAIN ranked : c \in Range(ranked[n])})
      rank(c) == RankIn(ranked[last(c)], c)
  IN InOrder(found, LAMBDA a, b : rank(a) < rank(b) \/ (rank(a) = rank(b) /\ a < b))

Fused(ranked) ==
  LET score(c) == RrfScore(ranked, c)  best(c) == BestRank(ranked, c)
  IN InOrder(FoundIn(ranked),
             LAMBDA a, b : \/ score(a) > score(b)
                           \/ score(a) = score(b) /\ best(a) < best(b)
                           \/ score(a) = score(b) /\ best(a) = best(b) /\ a < b)

\* HybridRetriever.retrieve
Fuse ==
  /\ At("fuse")
  /\ LET fused == Cut(Fused(<<lists["vector"], lists["lexical"]>>), query.k)
     IN Finds("hybrid", fused) /\ results' = IF query.mode = "hybrid" THEN fused ELSE results
  /\ UNCHANGED <<pool, candidates, walk>>

\* IntelligentRetriever.retrieve
Blend ==
  /\ At("blend")
  /\ results' = Cut(Fused(<<lists["hybrid"], lists["hierarchical"], lists["graph"]>>), query.k)
  /\ Goes("done")
  /\ UNCHANGED <<pool, candidates, walk, lists>>

\* RerankedRetriever.retrieve: by reranker score, then by vector rank
Reranked(found) ==
  InOrder(Range(found),
          LAMBDA a, b : \/ RerankScore[a] > RerankScore[b]
                        \/ RerankScore[a] = RerankScore[b] /\ RankIn(found, a) < RankIn(found, b))

Rerank ==
  /\ At("rerank")
  /\ results' = Cut(Reranked(lists["vector"]), query.k)
  /\ Goes("done")
  /\ UNCHANGED <<pool, candidates, walk, lists>>

\* the other modes return the first top_k of what they found
Return ==
  /\ At("cut")
  /\ results' = Cut(lists[query.mode], query.k)
  /\ Goes("done")
  /\ UNCHANGED <<pool, candidates, walk, lists>>
-----------------------------------------------------------------------------
(* HierarchicalRetriever.retrieve                                          *)

\* search_document_profiles
DocumentSearch(wanted) ==
  LET docs == {d \in {DocOf[c] : c \in Public(index)} :
                 DocBm25[d] > 0 /\ (wanted = {} \/ d \in wanted)}
  IN Cut(Ordered(docs, DocBm25), DocCandidates)

\* without a document the lexical search is the fallback
SearchDocuments ==
  /\ At("documents")
  /\ LET docs == DocumentSearch(query.filter.docs)
     IN IF docs = <<>>
        THEN Goes("unscoped") /\ UNCHANGED walk
        ELSE Goes("sections") /\ walk' = [walk EXCEPT !.docs = docs]
  /\ UNCHANGED <<pool, candidates, lists, results>>

Unscoped ==
  /\ At("unscoped")
  /\ Finds("hierarchical", LexicalSearch(query.filter, query.k))
  /\ UNCHANGED <<pool, candidates, walk, results>>

\* search_sections
SectionSearch(docs) ==
  LET sections == {s \in {SectionOf[c] : c \in {b \in Public(index) : DocOf[b] \in Range(docs)}} :
                     SectionBm25[s] > 0}
  IN Cut(Ordered(sections, SectionBm25), SectionCandidates)

\* the caller's sections restrict those found, and none left is no result
SearchSections ==
  /\ At("sections")
  /\ LET sections == SectionSearch(walk.docs)
         kept == IF query.filter.sections = {} THEN sections
                 ELSE Only(sections, query.filter.sections)
     IN IF query.filter.sections # {} /\ kept = <<>>
        THEN Finds("hierarchical", <<>>) /\ walk' = NoWalk
        ELSE Goes("scoped") /\ walk' = [walk EXCEPT !.sections = kept] /\ UNCHANGED lists
  /\ UNCHANGED <<pool, candidates, results>>

\* the chunks of those documents and sections; no section found is no constraint
Scope(docs, sections) == [docs |-> Range(docs), sections |-> Range(sections)]

Scoped ==
  /\ At("scoped")
  /\ Finds("hierarchical", Cut(LexicalSearch(Scope(walk.docs, walk.sections),
                                             Max({query.k, ChunkCandidates})), query.k))
  /\ walk' = NoWalk
  /\ UNCHANGED <<pool, candidates, results>>
-----------------------------------------------------------------------------
(* GraphRetriever.retrieve                                                 *)

\* resolve_entities: greedy, no alias inside another one, each node once
TakeMention(acc, m) ==
  IF \/ Len(acc.nodes) = MaxStarts
     \/ \E t \in acc.taken : m.from < t.to /\ t.from < m.to
     \/ m.node \in Range(acc.nodes) THEN acc
  ELSE [nodes |-> Append(acc.nodes, m.node), taken |-> acc.taken \cup {m}]

Starts == FoldLeft(TakeMention, [nodes |-> <<>>, taken |-> {}], Mentions).nodes

Resolve ==
  /\ At("resolve")
  /\ IF Starts = <<>>
     THEN Finds("graph", <<>>) /\ UNCHANGED walk
     ELSE /\ walk' = [NoWalk EXCEPT !.queue = [n \in DOMAIN Starts |-> <<Starts[n], 0>>],
                                    !.visited = Range(Starts)]
          /\ Goes("walk") /\ UNCHANGED lists
  /\ UNCHANGED <<pool, candidates, results>>

\* the edges the builder derives from an index: those whose provenance is public
EdgesOf(i) ==
  {n \in DOMAIN Edges : /\ Edges[n].doc = 0 \/ \E c \in Public(i) : DocOf[c] = Edges[n].doc
                        /\ Edges[n].chunk = 0 \/ Edges[n].chunk \in Public(i)}

AddNew(seq, x, most) ==
  IF x = 0 \/ x \in Range(seq) \/ Len(seq) >= most THEN seq ELSE Append(seq, x)

\* one edge of the node that was taken from the queue; past MaxEdges the queue is cleared
Visit(w, node, hop, edge) ==
  LET neighbor == IF edge.source = node THEN edge.target ELSE edge.source
      new == neighbor \notin w.visited /\ Cardinality(w.visited) < MaxNodes
  IN IF w.edges = MaxEdges THEN [w EXCEPT !.queue = <<>>]
     ELSE [queue |-> IF new THEN Append(w.queue, <<neighbor, hop + 1>>) ELSE w.queue,
           visited |-> IF new THEN w.visited \cup {neighbor} ELSE w.visited,
           edges |-> w.edges + 1,
           docs |-> AddNew(w.docs, edge.doc, MaxDocs),
           sections |-> AddNew(w.sections, edge.section, Len(w.sections) + 1),
           chunks |-> AddNew(w.chunks, edge.chunk, Len(w.chunks) + 1)]

Expand(w, node, hop, incident) ==
  FoldLeft(LAMBDA acc, n : Visit(acc, node, hop, Edges[n]), w,
           InOrder(incident, LAMBDA m, n : m < n))

\* seeded bug: a node at the last hop is expanded too
WalkTooFar ==
  /\ At("walk") /\ walk.queue # <<>> /\ Cardinality(walk.visited) <= MaxNodes
  /\ LET node == Head(walk.queue)[1]  hop == Head(walk.queue)[2]
         rest == [walk EXCEPT !.queue = Tail(@)]
         incident == {n \in EdgesOf(index) : node \in {Edges[n].source, Edges[n].target}}
     IN walk' = IF hop > MaxHops THEN rest ELSE Expand(rest, node, hop, incident)
  /\ Goes("walk")
  /\ UNCHANGED <<pool, candidates, lists, results>>

\* one node of the breadth-first walk: its edges are one SELECT
Walk ==
  /\ At("walk") /\ walk.queue # <<>> /\ Cardinality(walk.visited) <= MaxNodes
  /\ LET node == Head(walk.queue)[1]  hop == Head(walk.queue)[2]
         rest == [walk EXCEPT !.queue = Tail(@)]
         incident == {n \in EdgesOf(index) : node \in {Edges[n].source, Edges[n].target}}
     IN walk' = IF hop >= MaxHops THEN rest ELSE Expand(rest, node, hop, incident)
  /\ Goes("walk")
  /\ UNCHANGED <<pool, candidates, lists, results>>

\* public_chunks_by_ids reads the rowids of the chunks
LookUpChunks ==
  /\ At("walk") /\ (walk.queue = <<>> \/ Cardinality(walk.visited) > MaxNodes)
  /\ candidates' = [r \in {o \in DOMAIN index.rows : index.rows[o] \in Range(walk.chunks)}
                      |-> index.rows[r]]
  /\ Goes("chunks")
  /\ UNCHANGED <<pool, walk, lists, results>>

\* seeded bug: what the graph names is returned as it is
HydrateUnchecked ==
  /\ At("chunks")
  /\ lists' = [lists EXCEPT !["graph"] = walk.chunks]
  /\ Goes("fill") /\ candidates' = NoCandidates
  /\ UNCHANGED <<pool, walk, results>>

\* and hydrates them: a rowid that has another chunk by now is passed over
HydrateChunks ==
  /\ At("chunks")
  /\ lists' = [lists EXCEPT !["graph"] =
       Only(walk.chunks, {index.rows[r] : r \in DOMAIN candidates \cap DOMAIN index.rows}
                           \cap Allowed(index, query.filter))]
  /\ Goes("fill") /\ candidates' = NoCandidates
  /\ UNCHANGED <<pool, walk, results>>

\* a lexical search in the documents of the walk fills up to top_k
Fill ==
  /\ At("fill")
  /\ LET mine == query.filter
         docs == IF mine.docs = {} THEN walk.docs ELSE Only(walk.docs, mine.docs)
         sections == IF mine.sections = {} THEN walk.sections
                     ELSE Only(walk.sections, mine.sections)
         found == lists["graph"]
         more == Only(LexicalSearch(Scope(docs, sections), query.k), Chunks \ Range(found))
     IN IF docs # <<>> /\ Len(found) < query.k /\ (mine.sections = {} \/ sections # <<>>)
        THEN Finds("graph", Cut(found \o more, query.k))
        ELSE Finds("graph", Cut(found, query.k))
  /\ walk' = NoWalk
  /\ UNCHANGED <<pool, candidates, results>>
-----------------------------------------------------------------------------
Next ==
  \/ Apply
  \/ ValidateProfile \/ CountVectors \/ ReadCandidates \/ Hydrate \/ Lexical
  \/ Fuse \/ Blend \/ Rerank \/ Return
  \/ SearchDocuments \/ Unscoped \/ SearchSections \/ Scoped
  \/ Resolve \/ Walk \/ LookUpChunks \/ HydrateChunks \/ Fill

Spec == Init /\ [][Next]_vars
-----------------------------------------------------------------------------
Nodes == (UNION {{e.source, e.target} : e \in Range(Edges)}) \cup {m.node : m \in Range(Mentions)}
ListNames == {"vector", "lexical", "hybrid", "hierarchical", "graph"}

\* RetrievalFilter, "constraints applied before candidate metadata is exposed": whatever
\* builds apply between the reads, only chunks are returned that were public and within the
\* filter at a moment of the retrieval (hydrate_filtered_candidates, public_chunks_by_ids),
\* no more than were asked for, and whatever lists they were gathered from, each of them once.
ResultsWereVisible ==
  /\ pc = "done" => Range(results) \subseteq visible /\ Len(results) <= query.k
  /\ \A seq \in {lists[n] : n \in ListNames} \cup {results} : IsInjective(seq)

\* The growing pool finds what a search of the whole index would, unless a build was applied:
\* the results come by distance, and an allowed chunk that is surely within the largest pool
\* is left out only for as many as were asked for and none of them farther (_search_candidates).
VectorSearchIsExact ==
  pc = "done" /\ query.mode = "vector" /\ applies = 0 =>
    /\ \A m, n \in DOMAIN results : m < n => Distance[results[m]] <= Distance[results[n]]
    /\ \A c \in Allowed(index, query.filter) \ Range(results) :
         Cardinality({d \in Stored(index) : Distance[d] <= Distance[c]}) <= MaxCandidates
           => /\ Len(results) = query.k
              /\ \A d \in Range(results) : Distance[d] <= Distance[c]

\* No list's opinion is lost in a fusion: a chunk that stands before another one in every
\* list the other is in stands before it in the fused list too (reciprocal_rank_fusion).
FusionKeepsAgreement ==
  pc = "done" /\ query.mode \in {"hybrid", "intelligent"} =>
    LET ranked == IF query.mode = "hybrid" THEN <<lists["vector"], lists["lexical"]>>
                  ELSE <<lists["hybrid"], lists["hierarchical"], lists["graph"]>>
        leads(a, b) == \A n \in DOMAIN ranked : b \in Range(ranked[n]) =>
                         a \in Range(ranked[n]) /\ RankIn(ranked[n], a) < RankIn(ranked[n], b)
    IN \A a \in UNION {Range(ranked[n]) : n \in DOMAIN ranked}, b \in Range(results) :
         leads(a, b) => a \in Range(results) /\ RankIn(results, a) < RankIn(results, b)

\* nodes that a path of at most h of the edges N connects with an entity of the query
Ends(n) == {Edges[n].source, Edges[n].target}
Connects(path, h, N) ==
  /\ path[0] \in Range(Starts)
  /\ \A i \in 1..h : \E n \in N : {path[i - 1], path[i]} = Ends(n)
Near(N, h) ==
  {m \in Nodes : \E j \in 0..h : \E path \in [0..j -> Nodes] : path[j] = m /\ Connects(path, j, N)}

\* what the edges N are derived from, as far as the walk may go
Provenance(N) ==
  {Edges[n].chunk : n \in {m \in N : Ends(m) \cap Near(N, MaxHops - 1) # {}}} \ {0}

\* The chunks of a graph walk are provenance of edges at most MaxHops from an entity of the
\* query, and all of those, if the walk met no limit and no build (GraphRetriever.retrieve).
GraphWalkIsNear ==
  pc = "chunks" =>
    /\ Range(walk.chunks) \subseteq Provenance(DOMAIN Edges)
    /\ applies = 0 /\ walk.edges < MaxEdges /\ Cardinality(walk.visited) < MaxNodes
         => Provenance(EdgesOf(index)) \subseteq Range(walk.chunks)
=============================================================================
