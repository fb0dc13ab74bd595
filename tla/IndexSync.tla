------------------------------ MODULE IndexSync ------------------------------
(***************************************************************************)
(* knowledge.db and the processes that build it: the daily sync timer, and *)
(* an operator's `sync apply`, `index build` or `index rebuild`            *)
(* (cli.py, indexing/ and storage/repositories.py).                        *)
(*                                                                         *)
(* A build acquires its sources, plans against what it reads of the index, *)
(* embeds for minutes, and applies the plan in one BEGIN IMMEDIATE         *)
(* transaction.  Nothing keeps two builds apart: between any two of those  *)
(* steps another one may apply, fail or die.                               *)
(*                                                                         *)
(* A chunk id is derived from its document, section and content            *)
(* (ingestion/chunking.py), so the text of a chunk never changes; its      *)
(* document's header (title and metadata) does, and the embedded text      *)
(* starts with the title.  Rows of vec_chunks and fts_chunks are keyed by  *)
(* the rowid of the chunk, and SQLite gives the rowid of a deleted chunk   *)
(* out again.                                                              *)
(***************************************************************************)
EXTENDS Naturals, FiniteSets

CONSTANTS
  Sources, Docs, Chunks,
  SourceOf,    \* source of a document
  DocOf,       \* document of a chunk
  Headers,     \* frontmatter of a document: its title and the metadata
  TitleOf,     \* title of a header
  Public,      \* headers of the documents whose visibility is public
  Profiles,    \* embedding profiles
  Versioned,   \* sources with a git revision; the others are local files
  Contents,    \* contents each source may have: documents with headers, and chunks
  Builds,      \* processes that build the index
  Requests,    \* command lines: mode, profile and sources
  MaxEdits     \* bound: changes of the sources

Maps(f, A, B) == DOMAIN f \subseteq A /\ \A x \in DOMAIN f : f[x] \in B

ASSUME SourcesAssumption ==
  /\ SourceOf \in [Docs -> Sources] /\ DocOf \in [Chunks -> Docs]
  /\ Versioned \subseteq Sources /\ Public \subseteq Headers /\ Chunks \subseteq Nat /\ IsFiniteSet(Chunks)
ASSUME ContentsAssumption ==
  \A s \in Sources : \A content \in Contents[s] :
    /\ Maps(content.docs, {d \in Docs : SourceOf[d] = s}, Headers)
    /\ content.chunks \subseteq {c \in Chunks : DocOf[c] \in DOMAIN content.docs}
ASSUME RequestsAssumption ==
  Requests \subseteq [mode : {"sync", "build", "rebuild"}, profile : Profiles,
                      scope : SUBSET Sources]
ASSUME BoundAssumption == MaxEdits \in Nat

VARIABLES
  source,     \* the sources as they are: documents, chunks and revision, 0 for a file
  edits,
  snapshots,  \* source_snapshots: revision of each indexed source
  docs,       \* documents: header of each row
  chunks,     \* chunks: rowid and header of each row
  states,     \* chunk_embedding_state: profile and embedded title of a chunk
  vec,        \* vec_chunks, by rowid: what the vector was made of
  fts,        \* fts_chunks, by rowid: what was indexed
  active,     \* index_metadata: the active embedding profile, if any
  structure,  \* document_profiles and sections, which the graph rows go with
  pc,         \* next step of each build
  build,      \* what the build has read and decided
  run,        \* status of its row in index_runs
  stale,      \* history: builds that another one has overtaken since they read the index
  overtaken   \* history: a stale build was applied

index == <<snapshots, docs, chunks, states, vec, fts, active, structure>>
history == <<stale, overtaken>>
vars == <<source, edits, snapshots, docs, chunks, states, vec, fts, active, structure,
          pc, build, run, stale, overtaken>>

Stages == {"idle", "inspect", "check", "plan", "embed", "apply", "done"}
Statuses == {"none", "running", "completed", "failed"}

Nothing == [x \in {} |-> x]

Upserted(new, old) ==
  [x \in DOMAIN new \cup DOMAIN old |-> IF x \in DOMAIN new THEN new[x] ELSE old[x]]

Without(f, gone) == [x \in DOMAIN f \ gone |-> f[x]]

InScope(b) == {d \in Docs : SourceOf[d] \in build[b].scope}
StoredIn(b) == {c \in DOMAIN chunks : DocOf[c] \in InScope(b)}

\* acquire_sources: inspect, parse and chunk every source of the request
Acquired(request) ==
  [mode |-> request.mode, profile |-> request.profile, scope |-> request.scope,
   docs |-> [d \in {e \in Docs : /\ SourceOf[e] \in request.scope
                                 /\ e \in DOMAIN source[SourceOf[e]].docs}
               |-> source[SourceOf[d]].docs[d]],
   chunks |-> UNION {source[s].chunks : s \in request.scope},
   revisions |-> [s \in request.scope |-> source[s].revision],
   provider |-> FALSE, reset |-> FALSE, needs |-> {}, deleted |-> {}]

NoBuild ==
  [mode |-> "none", profile |-> "none", scope |-> {},
   docs |-> Nothing, chunks |-> {}, revisions |-> Nothing,
   provider |-> FALSE, reset |-> FALSE, needs |-> {}, deleted |-> {}]
-----------------------------------------------------------------------------
(* The plan of a build, from what the index holds when it is made.         *)
Title(b, c) == TitleOf[build[b].docs[DocOf[c]]]

\* seeded bug: only the content is compared, not the title it is embedded with
UpToDateContent(b, c) == c \in DOMAIN states /\ states[c].profile = build[b].profile

\* the profile and the hash of the embedded text are those of the last embedding
UpToDate(b, c) ==
  c \in DOMAIN states /\ states[c] = [profile |-> build[b].profile, title |-> Title(b, c)]

\* plan.new and plan.changed
NeedsEmbedding(b) ==
  {c \in build[b].chunks :
     c \notin DOMAIN chunks \/ build[b].mode = "rebuild" \/ ~UpToDate(b, c)}

\* plan.deleted
Deleted(b) == StoredIn(b) \ build[b].chunks

\* ensure_profile_compatible: only a rebuild of every indexed source changes the profile
ProfileDiffers(b) == \E p \in active : p # build[b].profile
Incompatible(b) ==
  /\ ProfileDiffers(b)
  /\ build[b].mode = "rebuild" => DOMAIN snapshots \ build[b].scope # {}

\* SyncPlan.has_changes: the revision or the embedded text of some source differs
HasChanges(b) ==
  \/ build[b].scope \ DOMAIN snapshots # {}
  \/ \E s \in build[b].scope \cap DOMAIN snapshots : snapshots[s] # build[b].revisions[s]
  \/ NeedsEmbedding(b) # {} \/ Deleted(b) # {}
-----------------------------------------------------------------------------
\* rebuild_knowledge_structure: everything is derived again, from the public rows
Derived(documents, rows) ==
  LET public == {d \in DOMAIN documents : documents[d] \in Public}
  IN [profiles |-> [d \in public |-> documents[d]],
      sections |-> {c \in DOMAIN rows : DocOf[c] \in public /\ rows[c].header \in Public}]

Version(content, revision) ==
  [docs |-> content.docs, chunks |-> content.chunks, revision |-> revision]

Goto(b, stage) == pc' = [pc EXCEPT ![b] = stage]

\* the process ends, and what it had read goes with it
Exit(b) == Goto(b, "done") /\ build' = [build EXCEPT ![b] = NoBuild]

Init ==
  /\ \E contents \in [Sources -> UNION {Contents[s] : s \in Sources}] :
       /\ \A s \in Sources : contents[s] \in Contents[s]
       /\ source = [s \in Sources |-> Version(contents[s], IF s \in Versioned THEN 1 ELSE 0)]
  /\ edits = 0
  /\ snapshots = Nothing /\ docs = Nothing /\ chunks = Nothing /\ states = Nothing
  /\ vec = Nothing /\ fts = Nothing
  /\ active = {}
  /\ structure = Derived(Nothing, Nothing)
  /\ pc = [b \in Builds |-> "idle"]
  /\ build = [b \in Builds |-> NoBuild]
  /\ run = [b \in Builds |-> "none"]
  /\ stale = {} /\ overtaken = FALSE

\* the checkout is fast-forwarded, or a local file is saved: that one has no revision
Edit(s) ==
  /\ edits < MaxEdits
  /\ edits' = edits + 1
  /\ \E content \in Contents[s] :
       /\ content # [docs |-> source[s].docs, chunks |-> source[s].chunks]
       /\ source' = [source EXCEPT ![s] =
            Version(content, IF s \in Versioned THEN source[s].revision + 1 ELSE 0)]
  /\ UNCHANGED <<index, pc, build, run, history>>

Acquire(b) ==
  /\ pc[b] = "idle"
  /\ \E request \in Requests : build' = [build EXCEPT ![b] = Acquired(request)]
  /\ Goto(b, "inspect")
  /\ UNCHANGED <<source, edits, index, run, history>>

\* plan_sync, or the preliminary plan of `index build`: goes on, and with a provider only
\* if something is to be embedded
Inspect(b) ==
  /\ pc[b] = "inspect"
  /\ ~Incompatible(b)
  /\ build[b].mode = "sync" => HasChanges(b)
  /\ build' = [build EXCEPT ![b].provider = NeedsEmbedding(b) # {}]
  /\ Goto(b, "check")
  /\ UNCHANGED <<source, edits, index, run, history>>

\* apply: no changes
Unchanged(b) ==
  /\ pc[b] = "inspect"
  /\ ~Incompatible(b)
  /\ build[b].mode = "sync" /\ ~HasChanges(b)
  /\ Exit(b)
  /\ UNCHANGED <<source, edits, index, run, history>>

\* IndexProfileMismatch or RebuildScopeError, before there is a run
Mismatch(b) ==
  /\ pc[b] \in {"inspect", "check"}
  /\ Incompatible(b)
  /\ Exit(b)
  /\ UNCHANGED <<source, edits, index, run, history>>

\* KnowledgeIndexer.build reads the active profile again and decides on the reset
CheckProfile(b) ==
  /\ pc[b] = "check"
  /\ ~Incompatible(b)
  /\ build' = [build EXCEPT ![b].reset = ProfileDiffers(b)]
  /\ Goto(b, "plan")
  /\ UNCHANGED <<source, edits, index, run, history>>

\* stored_chunk_states, build_index_plan and begin_run
BeginRun(b) ==
  /\ pc[b] = "plan"
  /\ build' = [build EXCEPT ![b].needs = NeedsEmbedding(b), ![b].deleted = Deleted(b)]
  /\ run' = [run EXCEPT ![b] = "running"]
  /\ Goto(b, "embed")
  /\ UNCHANGED <<source, edits, index, history>>

\* _embed: the provider was chosen by the earlier plan
Embed(b) ==
  /\ pc[b] = "embed"
  /\ build[b].needs = {} \/ build[b].provider
  /\ Goto(b, "apply")
  /\ UNCHANGED <<source, edits, index, build, run, history>>

\* an error of the provider or of the database, or no provider; the transaction rolls back
MarkRunFailed(b) ==
  /\ pc[b] \in {"embed", "apply"}
  /\ run' = [run EXCEPT ![b] = "failed"]
  /\ Exit(b)
  /\ UNCHANGED <<source, edits, index, history>>

\* the process dies, or fails before its run begins: the row of a run stays as it is
Die(b) ==
  /\ pc[b] \notin {"idle", "done"}
  /\ Exit(b)
  /\ UNCHANGED <<source, edits, index, run, history>>
-----------------------------------------------------------------------------
(* IndexRepository.apply, one transaction.                                 *)

\* documents of the sources of the build that are not there any more
StaleDocs(b) == {d \in DOMAIN docs \cap InScope(b) : d \notin DOMAIN build[b].docs}

\* _delete_stale_chunks, and the cascade of _delete_stale_documents
GoneChunks(b) == build[b].deleted \cup {c \in DOMAIN chunks : DocOf[c] \in StaleDocs(b)}

Inserted(b) == build[b].chunks \ DOMAIN chunks
Kept(b) == DOMAIN chunks \ GoneChunks(b)
UsedRows == {chunks[c].row : c \in DOMAIN chunks}
LastRow == CHOOSE last \in UsedRows \cup {0} : \A row \in UsedRows : row <= last

(* SQLite gives an inserted row the id after the largest one.  A source is *)
(* cleaned up before the next one is inserted, so the rows of its deleted  *)
(* chunks may be given out again in the same transaction: the ids are new  *)
(* ones above every row that stays, in the order of each document.         *)
RowIds(b) ==
  {ids \in [Inserted(b) -> 1..(LastRow + Cardinality(Inserted(b)))] :
     \A c \in Inserted(b) :
       /\ \A k \in Kept(b) : ids[c] > chunks[k].row
       /\ \A d \in Inserted(b) \ {c} :
            ids[c] # ids[d] /\ (DocOf[c] = DocOf[d] /\ c < d => ids[c] < ids[d])}

\* _upsert_chunk for every chunk of the build, and the deletions
ChunksAfter(b, ids) ==
  [c \in Kept(b) \cup build[b].chunks |->
     [row |-> IF c \in DOMAIN chunks THEN chunks[c].row ELSE ids[c],
      header |-> IF c \in build[b].chunks THEN build[b].docs[DocOf[c]] ELSE chunks[c].header]]

\* what a planned chunk is entered with in the three tables of the search
Entry(b, c) == [profile |-> build[b].profile, chunk |-> c, title |-> Title(b, c)]

\* seeded bug: the rows of deleted chunks stay
ReindexedOnly(b, table, after) ==
  LET rowOf(c) == after[c].row
  IN Upserted([row \in {rowOf(c) : c \in build[b].needs} |->
                 Entry(b, CHOOSE c \in build[b].needs : rowOf(c) = row)], table)

\* DELETE and INSERT of vec_chunks and fts_chunks at the row of each planned chunk; the
\* cascade does not reach those tables
Reindexed(b, table, after) ==
  LET rowOf(c) == after[c].row
  IN Upserted([row \in {rowOf(c) : c \in build[b].needs} |->
                 Entry(b, CHOOSE c \in build[b].needs : rowOf(c) = row)],
              Without(table, {chunks[c].row : c \in build[b].deleted \cap DOMAIN chunks}))

\* seeded bug: the reset empties vec_chunks only
StatesAfterReset(b) ==
  Upserted([c \in build[b].needs |-> [profile |-> build[b].profile, title |-> Title(b, c)]],
           Without(states, GoneChunks(b)))

\* the upsert of chunk_embedding_state, after the deletions
StatesAfter(b) ==
  Upserted([c \in build[b].needs |-> [profile |-> build[b].profile, title |-> Title(b, c)]],
           IF build[b].reset THEN Nothing ELSE Without(states, GoneChunks(b)))

Apply(b) ==
  /\ pc[b] = "apply"
  /\ \E ids \in RowIds(b) :
       LET after == ChunksAfter(b, ids)
           documents == Without(Upserted(build[b].docs, docs), StaleDocs(b))
       IN /\ chunks' = after
          /\ docs' = documents
          /\ vec' = Reindexed(b, IF build[b].reset THEN Nothing ELSE vec, after)
          /\ fts' = Reindexed(b, fts, after)
          /\ structure' = Derived(documents, after)
  /\ states' = StatesAfter(b)
  /\ snapshots' = Upserted(build[b].revisions, snapshots)
  /\ active' = {build[b].profile}
  /\ run' = [run EXCEPT ![b] = "completed"]
  /\ Exit(b)
  /\ stale' = stale \cup {d \in Builds \ {b} : pc[d] \in {"plan", "embed", "apply"}}
  /\ overtaken' = (overtaken \/ b \in stale)
  /\ UNCHANGED <<source, edits>>

\* every process has ended
Terminated ==
  /\ \A b \in Builds : pc[b] = "done"
  /\ UNCHANGED vars
-----------------------------------------------------------------------------
Step(b) ==
  \/ Acquire(b) \/ Inspect(b) \/ Unchanged(b) \/ Mismatch(b) \/ CheckProfile(b)
  \/ BeginRun(b) \/ Embed(b) \/ MarkRunFailed(b) \/ Die(b) \/ Apply(b)

Next ==
  \/ \E s \in Sources : Edit(s)
  \/ \E b \in Builds : Step(b)
  \/ Terminated

Spec == Init /\ [][Next]_vars
-----------------------------------------------------------------------------
ChunkRows == [row : Nat \ {0}, header : Headers]
Entries == [profile : Profiles, chunk : Chunks, title : {TitleOf[h] : h \in Headers}]
States == [profile : Profiles, title : {TitleOf[h] : h \in Headers}]

\* The tables keep their types and their foreign key: a chunk has a document.
TypeOK ==
  /\ Maps(snapshots, Sources, Nat)
  /\ Maps(docs, Docs, Headers)
  /\ Maps(chunks, Chunks, ChunkRows)
  /\ \A c \in DOMAIN chunks : DocOf[c] \in DOMAIN docs
  /\ Maps(states, Chunks, States)
  /\ Maps(vec, Nat \ {0}, Entries) /\ Maps(fts, Nat \ {0}, Entries)
  /\ active \subseteq Profiles /\ Cardinality(active) <= 1
  /\ pc \in [Builds -> Stages] /\ run \in [Builds -> Statuses]
  /\ stale \subseteq Builds /\ overtaken \in BOOLEAN

\* Whatever builds overlap, fail or die: where chunk_embedding_state has a row, the vector
\* and the full-text row of that chunk are those it speaks of.  Nothing else tells a later
\* plan that a chunk may be left alone (build_index_plan).
StatesAreTrue ==
  \A c \in DOMAIN states :
    /\ c \in DOMAIN chunks
    /\ chunks[c].row \in DOMAIN vec \cap DOMAIN fts
    /\ vec[chunks[c].row] = [profile |-> states[c].profile, chunk |-> c,
                             title |-> states[c].title]
    /\ fts[chunks[c].row].chunk = c /\ fts[chunks[c].row].title = states[c].title

\* Where no build was overtaken between its plan and its apply, the tables agree: one
\* vector and one full-text row for each chunk and none besides, all in the active
\* profile and with the title its document has now.
IndexIsWhole ==
  ~overtaken =>
    /\ DOMAIN vec = UsedRows /\ DOMAIN fts = UsedRows
    /\ DOMAIN states = DOMAIN chunks
    /\ \A c \in DOMAIN chunks :
         /\ chunks[c].header = docs[DocOf[c]]
         /\ active = {states[c].profile} /\ states[c].title = TitleOf[docs[DocOf[c]]]

\* the index holds the sources of a build as it acquired them
Exact(made) ==
  LET mine(d) == SourceOf[d] \in made.scope
  IN /\ {d \in DOMAIN docs : mine(d)} = DOMAIN made.docs
     /\ \A d \in DOMAIN made.docs : docs[d] = made.docs[d]
     /\ {c \in DOMAIN chunks : mine(DocOf[c])} = made.chunks
     /\ \A c \in made.chunks :
          /\ chunks[c].header = docs[DocOf[c]]
          /\ c \in DOMAIN states
          /\ states[c] = [profile |-> made.profile, title |-> TitleOf[docs[DocOf[c]]]]
     /\ structure = Derived(docs, chunks)

\* A build that was not overtaken leaves its sources as it acquired them, whatever state
\* earlier builds, overtaken ones included, have left behind: the next sync repairs them,
\* and no run completes with a stale derived structure (IndexRepository.apply).
FreshBuildsAreExact ==
  [][\A b \in Builds : \A made \in {build[b]} :
       run[b] = "running" /\ run'[b] = "completed" /\ b \notin stale => Exact(made)']_vars
-----------------------------------------------------------------------------
\* indexing/sync.py: a source is "unchanged" where what is indexed is what was observed.
UnchangedIsCurrent ==
  [][\A b \in Builds : Unchanged(b) => \A d \in DOMAIN build[b].docs :
                       d \in DOMAIN docs /\ docs[d] = build[b].docs[d]]_vars
=============================================================================
