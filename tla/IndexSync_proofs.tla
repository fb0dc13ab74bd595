--------------------------- MODULE IndexSync_proofs ---------------------------
(* What the tables of the index say of one another, for every number of    *)
(* builds, sources and chunks.  The inductive invariant adds what a build  *)
(* carries from its acquisition to its apply, and that no two chunks share *)
(* a row: a table that is keyed by rowid speaks of one chunk only then.    *)
EXTENDS IndexSync, FiniteSetTheorems, TLAPS

USE SourcesAssumption, ContentsAssumption, RequestsAssumption, BoundAssumption

BuildRecords ==
  [mode : {"none", "sync", "build", "rebuild"}, profile : Profiles \cup {"none"},
   scope : SUBSET Sources, docs : UNION {[D -> Headers] : D \in SUBSET Docs},
   chunks : SUBSET Chunks, revisions : UNION {[S -> Nat] : S \in SUBSET Sources},
   provider : BOOLEAN, reset : BOOLEAN, needs : SUBSET Chunks, deleted : SUBSET Chunks]

\* What is to be found in a source: its own documents, and chunks of these.
SourceInv ==
  /\ DOMAIN source = Sources
  /\ \A s \in Sources :
       /\ Maps(source[s].docs, {d \in Docs : SourceOf[d] = s}, Headers)
       /\ source[s].chunks \subseteq {c \in Chunks : DocOf[c] \in DOMAIN source[s].docs}
       /\ source[s].revision \in Nat

Working(b) == pc[b] \notin {"idle", "done"}

\* A build inserts chunks of its own documents, and never deletes what it inserts.
BuildInv ==
  /\ build \in [Builds -> BuildRecords]
  /\ \A b \in Builds :
       /\ build[b].needs \subseteq build[b].chunks
       /\ build[b].deleted \cap build[b].chunks = {}
       /\ \A c \in build[b].chunks : DocOf[c] \in DOMAIN build[b].docs
       /\ Working(b) => build[b].profile \in Profiles

DistinctRows ==
  \A c, d \in DOMAIN chunks : chunks[c].row = chunks[d].row => c = d

IInv == TypeOK /\ SourceInv /\ BuildInv /\ DistinctRows /\ StatesAreTrue
-----------------------------------------------------------------------------
LEMMA UpsertedMaps ==
  ASSUME NEW f, NEW g, NEW A, NEW B, Maps(f, A, B), Maps(g, A, B)
  PROVE  Maps(Upserted(f, g), A, B)
  BY DEF Maps, Upserted

LEMMA WithoutMaps ==
  ASSUME NEW f, NEW gone, NEW A, NEW B, Maps(f, A, B)
  PROVE  Maps(Without(f, gone), A, B)
  BY DEF Maps, Without

LEMMA NothingMaps ==
  ASSUME NEW A, NEW B
  PROVE  Maps(Nothing, A, B)
  BY DEF Maps, Nothing

LEMMA InitIInv == Init => IInv
<1> SUFFICES ASSUME Init PROVE IInv
  OBVIOUS
<1> USE DEF Init
<1>1. TypeOK
  <2>1. /\ Maps(snapshots, Sources, Nat) /\ Maps(docs, Docs, Headers)
        /\ Maps(chunks, Chunks, ChunkRows) /\ Maps(states, Chunks, States)
        /\ Maps(vec, Nat \ {0}, Entries) /\ Maps(fts, Nat \ {0}, Entries)
    BY NothingMaps
  <2>2. \A c \in DOMAIN chunks : DocOf[c] \in DOMAIN docs
    BY DEF Nothing
  <2>3. Cardinality(active) <= 1
    BY FS_EmptySet
  <2>4. pc \in [Builds -> Stages] /\ run \in [Builds -> Statuses]
    BY DEF Stages, Statuses
  <2> QED
    BY <2>1, <2>2, <2>3, <2>4 DEF TypeOK
<1>2. SourceInv
  <2>1. PICK contents \in [Sources -> UNION {Contents[s] : s \in Sources}] :
          /\ \A s \in Sources : contents[s] \in Contents[s]
          /\ source = [s \in Sources |-> Version(contents[s], IF s \in Versioned THEN 1 ELSE 0)]
    OBVIOUS
  <2> QED
    BY <2>1 DEF SourceInv, Version, Maps
<1>3. NoBuild \in BuildRecords
  <2>1. Nothing \in [{} -> Headers] /\ Nothing \in [{} -> Nat]
    BY DEF Nothing
  <2> QED
    BY <2>1 DEF NoBuild, BuildRecords
<1>4. BuildInv
  BY <1>3 DEF BuildInv, NoBuild, Working
<1>5. DistinctRows /\ StatesAreTrue
  BY DEF DistinctRows, StatesAreTrue, Nothing
<1> QED
  BY <1>1, <1>2, <1>4, <1>5 DEF IInv
-----------------------------------------------------------------------------
(* The steps that leave the index alone: all but Apply. *)

LEMMA IndexKept ==
  ASSUME IInv, UNCHANGED <<index, history>>,
         pc' \in [Builds -> Stages], run' \in [Builds -> Statuses]
  PROVE  TypeOK' /\ DistinctRows' /\ StatesAreTrue'
<1>1. TypeOK'
  BY DEF IInv, TypeOK, index, history
<1>2. DistinctRows'
  BY DEF IInv, DistinctRows, index
<1>3. StatesAreTrue'
  BY DEF IInv, StatesAreTrue, index
<1> QED
  BY <1>1, <1>2, <1>3

LEMMA SourceKept ==
  ASSUME SourceInv, UNCHANGED source
  PROVE  SourceInv'
  BY DEF SourceInv

LEMMA NoBuildIsOne == NoBuild \in BuildRecords
<1>1. Nothing \in [{} -> Headers] /\ Nothing \in [{} -> Nat]
  BY DEF Nothing
<1> QED
  BY <1>1 DEF NoBuild, BuildRecords

LEMMA ExitBuild ==
  ASSUME BuildInv, NEW b \in Builds, Exit(b), pc \in [Builds -> Stages]
  PROVE  BuildInv' /\ pc' \in [Builds -> Stages]
<1>1. /\ build' = [build EXCEPT ![b] = NoBuild]
      /\ pc' = [pc EXCEPT ![b] = "done"]
  BY DEF Exit, Goto
<1>2. build' \in [Builds -> BuildRecords] /\ pc' \in [Builds -> Stages]
  BY <1>1, NoBuildIsOne DEF BuildInv, Stages
<1>3. ASSUME NEW d \in Builds
      PROVE  /\ build'[d].needs \subseteq build'[d].chunks
             /\ build'[d].deleted \cap build'[d].chunks = {}
             /\ \A c \in build'[d].chunks : DocOf[c] \in DOMAIN build'[d].docs
             /\ Working(d)' => build'[d].profile \in Profiles
  <2>1. CASE d = b
    BY <1>1, <2>1 DEF BuildInv, NoBuild, Working
  <2>2. CASE d # b
    BY <1>1, <2>2 DEF BuildInv, Working
  <2> QED
    BY <2>1, <2>2
<1> QED
  BY <1>2, <1>3 DEF BuildInv

\* What is acquired are the documents and chunks of the sources of the request.
LEMMA AcquiredIsABuild ==
  ASSUME SourceInv, NEW request \in Requests
  PROVE  /\ Acquired(request) \in BuildRecords
         /\ Acquired(request).needs = {} /\ Acquired(request).deleted = {}
         /\ Acquired(request).profile \in Profiles
         /\ \A c \in Acquired(request).chunks : DocOf[c] \in DOMAIN Acquired(request).docs
<1> DEFINE made == Acquired(request)
<1>1. /\ request.mode \in {"sync", "build", "rebuild"} /\ request.profile \in Profiles
      /\ request.scope \subseteq Sources
  OBVIOUS
<1>2. made.docs \in UNION {[D -> Headers] : D \in SUBSET Docs}
  <2>1. DOMAIN made.docs \subseteq Docs
    BY DEF Acquired
  <2>2. \A d \in DOMAIN made.docs : made.docs[d] \in Headers
    BY <1>1 DEF Acquired, SourceInv, Maps
  <2>3. made.docs = [d \in DOMAIN made.docs |-> made.docs[d]]
    BY DEF Acquired
  <2>4. made.docs \in [DOMAIN made.docs -> Headers]
    BY <2>2, <2>3
  <2> QED
    BY <2>1, <2>4
<1>3. made.revisions \in UNION {[S -> Nat] : S \in SUBSET Sources}
  <2>1. made.revisions \in [request.scope -> Nat]
    BY <1>1 DEF Acquired, SourceInv
  <2> QED
    BY <1>1, <2>1
<1>4. made.chunks \subseteq Chunks
  <2>1. made.chunks = UNION {source[s].chunks : s \in request.scope}
    BY DEF Acquired
  <2>2. ASSUME NEW s \in request.scope
        PROVE  source[s].chunks \subseteq Chunks
    BY <1>1 DEF SourceInv
  <2> HIDE DEF made
  <2> QED
    BY <2>1, <2>2
<1>5. \A c \in made.chunks : DocOf[c] \in DOMAIN made.docs
  <2> SUFFICES ASSUME NEW c \in made.chunks PROVE DocOf[c] \in DOMAIN made.docs
    OBVIOUS
  <2>1. PICK s \in request.scope : c \in source[s].chunks
    BY DEF Acquired
  <2>2. c \in Chunks /\ DocOf[c] \in DOMAIN source[s].docs
    BY <1>1, <2>1 DEF SourceInv
  <2>3. DocOf[c] \in Docs /\ SourceOf[DocOf[c]] = s
    BY <1>1, <2>2 DEF SourceInv, Maps
  <2> QED
    BY <2>1, <2>2, <2>3 DEF Acquired
<1>6. /\ made.mode = request.mode /\ made.profile = request.profile
      /\ made.scope = request.scope /\ made.provider = FALSE /\ made.reset = FALSE
      /\ made.needs = {} /\ made.deleted = {}
  BY DEF Acquired
<1>7. made = [mode |-> made.mode, profile |-> made.profile, scope |-> made.scope,
              docs |-> made.docs, chunks |-> made.chunks, revisions |-> made.revisions,
              provider |-> made.provider, reset |-> made.reset, needs |-> made.needs,
              deleted |-> made.deleted]
  BY DEF Acquired
<1>8. made \in BuildRecords
  <2> HIDE DEF made
  <2> QED
    BY <1>1, <1>2, <1>3, <1>4, <1>6, <1>7 DEF BuildRecords
<1> QED
  BY <1>1, <1>5, <1>6, <1>8

LEMMA EditStep ==
  ASSUME IInv, NEW s \in Sources, Edit(s)
  PROVE  IInv'
<1>1. PICK content \in Contents[s] :
        source' = [source EXCEPT ![s] =
          Version(content, IF s \in Versioned THEN source[s].revision + 1 ELSE 0)]
  BY DEF Edit
<1>2. SourceInv'
  <2>1. DOMAIN source' = Sources
    BY <1>1 DEF IInv, SourceInv
  <2>2. ASSUME NEW t \in Sources
        PROVE  /\ Maps(source'[t].docs, {d \in Docs : SourceOf[d] = t}, Headers)
               /\ source'[t].chunks
                    \subseteq {c \in Chunks : DocOf[c] \in DOMAIN source'[t].docs}
               /\ source'[t].revision \in Nat
    <3>1. CASE t = s
      <4>1. source'[s] = Version(content, IF s \in Versioned THEN source[s].revision + 1 ELSE 0)
        BY <1>1 DEF IInv, SourceInv
      <4>2. /\ source'[s].docs = content.docs /\ source'[s].chunks = content.chunks
            /\ source'[s].revision = IF s \in Versioned THEN source[s].revision + 1 ELSE 0
        BY <4>1 DEF Version
      <4>0. source[s].revision \in Nat
        BY DEF IInv, SourceInv
      <4>3. /\ Maps(content.docs, {d \in Docs : SourceOf[d] = s}, Headers)
            /\ content.chunks \subseteq {c \in Chunks : DocOf[c] \in DOMAIN content.docs}
        OBVIOUS
      <4> QED
        BY <3>1, <4>0, <4>2, <4>3
    <3>2. CASE t # s
      <4>1. source'[t] = source[t]
        BY <1>1, <3>2 DEF IInv, SourceInv
      <4> QED
        BY <4>1 DEF IInv, SourceInv
    <3> QED
      BY <3>1, <3>2
  <2> QED
    BY <2>1, <2>2 DEF SourceInv
<1>3. TypeOK' /\ DistinctRows' /\ StatesAreTrue'
  BY IndexKept DEF Edit, IInv, TypeOK
<1>4. BuildInv'
  BY DEF Edit, IInv, BuildInv, Working
<1> QED
  BY <1>2, <1>3, <1>4 DEF IInv

LEMMA AcquireStep ==
  ASSUME IInv, NEW b \in Builds, Acquire(b)
  PROVE  IInv'
<1>1. PICK request \in Requests : build' = [build EXCEPT ![b] = Acquired(request)]
  BY DEF Acquire
<1>2. pc' = [pc EXCEPT ![b] = "inspect"]
  BY DEF Acquire, Goto
<1>3. SourceInv' /\ TypeOK' /\ DistinctRows' /\ StatesAreTrue'
  BY <1>2, SourceKept, IndexKept DEF Acquire, IInv, TypeOK, Stages
<1>4. BuildInv'
  <2>1. build' \in [Builds -> BuildRecords]
    BY <1>1, AcquiredIsABuild DEF IInv, BuildInv
  <2>2. ASSUME NEW d \in Builds
        PROVE  /\ build'[d].needs \subseteq build'[d].chunks
               /\ build'[d].deleted \cap build'[d].chunks = {}
               /\ \A c \in build'[d].chunks : DocOf[c] \in DOMAIN build'[d].docs
               /\ Working(d)' => build'[d].profile \in Profiles
    <3>1. CASE d = b
      <4>1. build'[d] = Acquired(request)
        BY <1>1, <3>1 DEF IInv, BuildInv
      <4> QED
        BY <4>1, AcquiredIsABuild DEF IInv
    <3>2. CASE d # b
      <4>1. build'[d] = build[d] /\ (Working(d)' <=> Working(d))
        BY <1>1, <1>2, <3>2 DEF IInv, BuildInv, Working, TypeOK
      <4> QED
        BY <4>1 DEF IInv, BuildInv
    <3> QED
      BY <3>1, <3>2
  <2> QED
    BY <2>1, <2>2 DEF BuildInv
<1> QED
  BY <1>3, <1>4 DEF IInv

\* Inspect, CheckProfile and BeginRun note in the build what they have read.
LEMMA NotedBuild ==
  ASSUME BuildInv, pc \in [Builds -> Stages], NEW b \in Builds, Working(b),
         NEW made \in BuildRecords, NEW stage \in Stages,
         build' = [build EXCEPT ![b] = made], Goto(b, stage),
         made.chunks = build[b].chunks, made.docs = build[b].docs,
         made.profile = build[b].profile,
         made.needs \subseteq made.chunks, made.deleted \cap made.chunks = {}
  PROVE  BuildInv' /\ pc' \in [Builds -> Stages]
<1>1. build' \in [Builds -> BuildRecords] /\ pc' \in [Builds -> Stages]
  BY DEF BuildInv, Goto
<1>2. ASSUME NEW d \in Builds
      PROVE  /\ build'[d].needs \subseteq build'[d].chunks
             /\ build'[d].deleted \cap build'[d].chunks = {}
             /\ \A c \in build'[d].chunks : DocOf[c] \in DOMAIN build'[d].docs
             /\ Working(d)' => build'[d].profile \in Profiles
  <2>1. CASE d = b
    <3>1. build'[d] = made
      BY <2>1 DEF BuildInv
    <3> QED
      BY <2>1, <3>1 DEF BuildInv
  <2>2. CASE d # b
    <3>1. build'[d] = build[d] /\ (Working(d)' <=> Working(d))
      BY <2>2 DEF BuildInv, Working, Goto
    <3> QED
      BY <3>1 DEF BuildInv
  <2> QED
    BY <2>1, <2>2
<1> QED
  BY <1>1, <1>2 DEF BuildInv

LEMMA InspectStep ==
  ASSUME IInv, NEW b \in Builds, Inspect(b)
  PROVE  IInv'
<1> DEFINE made == [build[b] EXCEPT !.provider = NeedsEmbedding(b) # {}]
<1>1. build[b] \in BuildRecords
  BY DEF IInv, BuildInv
<1>2. /\ made \in BuildRecords /\ made.chunks = build[b].chunks /\ made.docs = build[b].docs
      /\ made.profile = build[b].profile
      /\ made.needs = build[b].needs /\ made.deleted = build[b].deleted
  BY <1>1 DEF BuildRecords
<1>3. build' = [build EXCEPT ![b] = made]
  BY DEF Inspect
<1>4. Working(b) /\ Goto(b, "check")
  BY DEF Inspect, Working
<1>5. BuildInv' /\ pc' \in [Builds -> Stages]
  <2> HIDE DEF made
  <2> QED
    BY <1>2, <1>3, <1>4, NotedBuild DEF IInv, TypeOK, Stages, BuildInv
<1>6. SourceInv' /\ TypeOK' /\ DistinctRows' /\ StatesAreTrue'
  BY <1>5, SourceKept, IndexKept DEF Inspect, IInv, TypeOK
<1> QED
  BY <1>5, <1>6 DEF IInv

LEMMA CheckProfileStep ==
  ASSUME IInv, NEW b \in Builds, CheckProfile(b)
  PROVE  IInv'
<1> DEFINE made == [build[b] EXCEPT !.reset = ProfileDiffers(b)]
<1>1. build[b] \in BuildRecords
  BY DEF IInv, BuildInv
<1>2. /\ made \in BuildRecords /\ made.chunks = build[b].chunks /\ made.docs = build[b].docs
      /\ made.profile = build[b].profile
      /\ made.needs = build[b].needs /\ made.deleted = build[b].deleted
  BY <1>1 DEF BuildRecords, ProfileDiffers
<1>3. build' = [build EXCEPT ![b] = made]
  BY DEF CheckProfile
<1>4. Working(b) /\ Goto(b, "plan")
  BY DEF CheckProfile, Working
<1>5. BuildInv' /\ pc' \in [Builds -> Stages]
  <2> HIDE DEF made
  <2> QED
    BY <1>2, <1>3, <1>4, NotedBuild DEF IInv, TypeOK, Stages, BuildInv
<1>6. SourceInv' /\ TypeOK' /\ DistinctRows' /\ StatesAreTrue'
  BY <1>5, SourceKept, IndexKept DEF CheckProfile, IInv, TypeOK
<1> QED
  BY <1>5, <1>6 DEF IInv

LEMMA BeginRunStep ==
  ASSUME IInv, NEW b \in Builds, BeginRun(b)
  PROVE  IInv'
<1> DEFINE made == [build[b] EXCEPT !.needs = NeedsEmbedding(b), !.deleted = Deleted(b)]
<1>1. build[b] \in BuildRecords
  BY DEF IInv, BuildInv
<1>2. NeedsEmbedding(b) \subseteq build[b].chunks /\ Deleted(b) \cap build[b].chunks = {}
  BY DEF NeedsEmbedding, Deleted
<1>3. NeedsEmbedding(b) \in SUBSET Chunks /\ Deleted(b) \in SUBSET Chunks
  <2>1. build[b].chunks \subseteq Chunks
    BY <1>1 DEF BuildRecords
  <2>2. DOMAIN chunks \subseteq Chunks
    BY DEF IInv, TypeOK, Maps
  <2> QED
    BY <1>2, <2>1, <2>2 DEF Deleted, StoredIn
<1>4. /\ made \in BuildRecords /\ made.chunks = build[b].chunks /\ made.docs = build[b].docs
      /\ made.profile = build[b].profile
      /\ made.needs = NeedsEmbedding(b) /\ made.deleted = Deleted(b)
  BY <1>1, <1>3 DEF BuildRecords
<1>5. build' = [build EXCEPT ![b] = made]
  BY DEF BeginRun
<1>6. Working(b) /\ Goto(b, "embed")
  BY DEF BeginRun, Working
<1>7. BuildInv' /\ pc' \in [Builds -> Stages]
  <2> HIDE DEF made
  <2> QED
    BY <1>2, <1>4, <1>5, <1>6, NotedBuild DEF IInv, TypeOK, Stages, BuildInv
<1>8. run' \in [Builds -> Statuses]
  BY DEF BeginRun, IInv, TypeOK, Statuses
<1>9. SourceInv' /\ TypeOK' /\ DistinctRows' /\ StatesAreTrue'
  BY <1>7, <1>8, SourceKept, IndexKept DEF BeginRun, IInv, TypeOK
<1> QED
  BY <1>7, <1>9 DEF IInv
-----------------------------------------------------------------------------
(* Apply *)

\* A build keeps every chunk it has and the index knows: the cascade takes none of them.
LEMMA KeptAndInserted ==
  ASSUME BuildInv, NEW b \in Builds
  PROVE  /\ GoneChunks(b) \cap build[b].chunks = {}
         /\ Kept(b) \cap Inserted(b) = {}
         /\ Kept(b) \cup build[b].chunks = Kept(b) \cup Inserted(b)
         /\ Kept(b) \subseteq DOMAIN chunks
<1>1. GoneChunks(b) \cap build[b].chunks = {}
  BY DEF BuildInv, GoneChunks, StaleDocs
<1> QED
  BY <1>1 DEF Kept, Inserted

LEMMA RowsAfter ==
  ASSUME IInv, NEW b \in Builds, NEW ids \in RowIds(b)
  PROVE  LET after == ChunksAfter(b, ids)
         IN /\ DOMAIN after = Kept(b) \cup Inserted(b)
            /\ \A c \in Kept(b) : after[c].row = chunks[c].row
            /\ \A c \in Inserted(b) : after[c].row = ids[c] /\ ids[c] \in Nat \ {0}
            /\ Maps(after, Chunks, ChunkRows)
            /\ \A c, d \in DOMAIN after : after[c].row = after[d].row => c = d
<1> DEFINE after == ChunksAfter(b, ids)
<1>1. DOMAIN after = Kept(b) \cup Inserted(b)
  BY KeptAndInserted DEF ChunksAfter, IInv
<1>2. \A c \in Kept(b) : after[c].row = chunks[c].row
  BY KeptAndInserted DEF ChunksAfter, IInv
<1>3. \A c \in Inserted(b) : after[c].row = ids[c]
  BY KeptAndInserted DEF ChunksAfter, Inserted
<1>4. /\ ids \in [Inserted(b) -> 1..(LastRow + Cardinality(Inserted(b)))]
      /\ \A c \in Inserted(b) :
           /\ \A k \in Kept(b) : ids[c] > chunks[k].row
           /\ \A d \in Inserted(b) \ {c} : ids[c] # ids[d]
  BY DEF RowIds
<1>5. \A c \in Inserted(b) : ids[c] \in Nat \ {0}
  BY <1>4
<1>6. \A c \in DOMAIN chunks : /\ c \in Chunks /\ chunks[c].row \in Nat \ {0}
                               /\ chunks[c].header \in Headers
  BY DEF IInv, TypeOK, Maps, ChunkRows
<1>7. \A c \in build[b].chunks : c \in Chunks /\ build[b].docs[DocOf[c]] \in Headers
  <2> SUFFICES ASSUME NEW c \in build[b].chunks
               PROVE  c \in Chunks /\ build[b].docs[DocOf[c]] \in Headers
    OBVIOUS
  <2>1. build[b] \in BuildRecords /\ DocOf[c] \in DOMAIN build[b].docs
    BY DEF IInv, BuildInv
  <2>2. c \in Chunks /\ build[b].docs \in UNION {[D -> Headers] : D \in SUBSET Docs}
    BY <2>1 DEF BuildRecords
  <2>3. PICK D \in SUBSET Docs : build[b].docs \in [D -> Headers]
    BY <2>2
  <2> QED
    BY <2>1, <2>2, <2>3
<1>8. Maps(after, Chunks, ChunkRows)
  <2> SUFFICES ASSUME NEW c \in DOMAIN after
               PROVE  c \in Chunks /\ after[c] \in ChunkRows
    BY DEF Maps
  <2>1. after[c] = [row |-> IF c \in DOMAIN chunks THEN chunks[c].row ELSE ids[c],
                    header |-> IF c \in build[b].chunks THEN build[b].docs[DocOf[c]]
                                                        ELSE chunks[c].header]
    BY DEF ChunksAfter
  <2>2. c \in DOMAIN chunks \/ c \in Inserted(b)
    BY <1>1, KeptAndInserted DEF IInv
  <2>3. c \in build[b].chunks \/ c \in DOMAIN chunks
    BY <2>2 DEF Inserted
  <2> QED
    BY <2>1, <2>2, <2>3, <1>5, <1>6, <1>7 DEF ChunkRows
<1>9. \A c, d \in DOMAIN after : after[c].row = after[d].row => c = d
  <2> SUFFICES ASSUME NEW c \in DOMAIN after, NEW d \in DOMAIN after,
                      after[c].row = after[d].row
               PROVE  c = d
    OBVIOUS
  <2> HIDE DEF after
  <2>1. CASE c \in Kept(b) /\ d \in Kept(b)
    BY <1>2, <2>1, KeptAndInserted DEF IInv, DistinctRows
  <2>2. CASE c \in Kept(b) /\ d \in Inserted(b)
    BY <1>2, <1>3, <1>4, <1>5, <1>6, <2>2, KeptAndInserted DEF IInv
  <2>3. CASE c \in Inserted(b) /\ d \in Kept(b)
    BY <1>2, <1>3, <1>4, <1>5, <1>6, <2>3, KeptAndInserted DEF IInv
  <2>4. CASE c \in Inserted(b) /\ d \in Inserted(b)
    BY <1>3, <1>4, <2>4
  <2> QED
    BY <1>1, <2>1, <2>2, <2>3, <2>4
<1> QED
  BY <1>1, <1>2, <1>3, <1>5, <1>8, <1>9

LEMMA EntryIsTyped ==
  ASSUME BuildInv, NEW b \in Builds, Working(b), NEW c \in build[b].needs
  PROVE  /\ Entry(b, c) \in Entries
         /\ [profile |-> build[b].profile, title |-> Title(b, c)] \in States
<1>1. build[b] \in BuildRecords /\ build[b].profile \in Profiles /\ c \in build[b].chunks
      /\ DocOf[c] \in DOMAIN build[b].docs
  BY DEF BuildInv
<1>2. c \in Chunks /\ build[b].docs \in UNION {[D -> Headers] : D \in SUBSET Docs}
  BY <1>1 DEF BuildRecords
<1>3. PICK D \in SUBSET Docs : build[b].docs \in [D -> Headers]
  BY <1>2
<1>4. Title(b, c) \in {TitleOf[h] : h \in Headers}
  BY <1>1, <1>3 DEF Title
<1> QED
  BY <1>1, <1>2, <1>4 DEF Entry, Entries, States

(* A table keyed by rowid after an apply: an entry for each chunk that was   *)
(* planned, and the entries of the chunks that stay and were not.            *)
LEMMA RowsReindexed ==
  ASSUME IInv, NEW b \in Builds, Working(b), NEW ids \in RowIds(b), NEW table,
         Maps(table, Nat \ {0}, Entries)
  PROVE  LET after == ChunksAfter(b, ids)
             new == Reindexed(b, table, after)
         IN /\ Maps(new, Nat \ {0}, Entries)
            /\ \A c \in build[b].needs :
                 after[c].row \in DOMAIN new /\ new[after[c].row] = Entry(b, c)
            /\ \A c \in Kept(b) \ build[b].needs :
                 after[c].row \in DOMAIN table =>
                   /\ after[c].row \in DOMAIN new
                   /\ new[after[c].row] = table[after[c].row]
<1> DEFINE after == ChunksAfter(b, ids)
           planned == {after[c].row : c \in build[b].needs}
           fresh == [row \in planned |->
                       Entry(b, CHOOSE c \in build[b].needs : after[c].row = row)]
           gone == {chunks[c].row : c \in build[b].deleted \cap DOMAIN chunks}
           new == Reindexed(b, table, after)
<1>1. new = Upserted(fresh, Without(table, gone))
  BY DEF Reindexed
<1>2. /\ DOMAIN after = Kept(b) \cup Inserted(b)
      /\ \A c \in Kept(b) : after[c].row = chunks[c].row
      /\ Maps(after, Chunks, ChunkRows)
      /\ \A c, d \in DOMAIN after : after[c].row = after[d].row => c = d
  BY RowsAfter
<1>3. build[b].needs \subseteq DOMAIN after
  BY <1>2, KeptAndInserted DEF IInv, BuildInv
<1> HIDE DEF after
<1>4. \A c \in build[b].needs : fresh[after[c].row] = Entry(b, c)
  <2> SUFFICES ASSUME NEW c \in build[b].needs
               PROVE  fresh[after[c].row] = Entry(b, c)
    OBVIOUS
  <2> DEFINE other == CHOOSE d \in build[b].needs : after[d].row = after[c].row
  <2>1. other \in build[b].needs /\ after[other].row = after[c].row
    OBVIOUS
  <2>2. other = c
    BY <2>1, <1>2, <1>3
  <2>3. fresh[after[c].row] = Entry(b, other)
    OBVIOUS
  <2> QED
    BY <2>2, <2>3
<1>5. Maps(fresh, Nat \ {0}, Entries)
  <2>1. planned \subseteq Nat \ {0}
    BY <1>2, <1>3 DEF Maps, ChunkRows
  <2>2. \A c \in build[b].needs : Entry(b, c) \in Entries
    BY EntryIsTyped DEF IInv
  <2> QED
    BY <2>1, <2>2, <1>4 DEF Maps
<1>6. Maps(new, Nat \ {0}, Entries)
  BY <1>1, <1>5, UpsertedMaps, WithoutMaps
<1>7. ASSUME NEW c \in build[b].needs
      PROVE  after[c].row \in DOMAIN new /\ new[after[c].row] = Entry(b, c)
  <2>1. after[c].row \in DOMAIN fresh
    OBVIOUS
  <2> HIDE DEF fresh, new
  <2> QED
    BY <2>1, <1>1, <1>4 DEF Upserted
<1>8. ASSUME NEW c \in Kept(b) \ build[b].needs, after[c].row \in DOMAIN table
      PROVE  /\ after[c].row \in DOMAIN new
             /\ new[after[c].row] = table[after[c].row]
  <2>1. after[c].row \notin planned
    BY <1>2, <1>3
  <2>2. after[c].row \notin gone
    BY <1>2 DEF IInv, DistinctRows, Kept, GoneChunks
  <2>3. DOMAIN fresh = planned
    OBVIOUS
  <2> HIDE DEF fresh, new, planned, gone
  <2>4. /\ after[c].row \in DOMAIN Without(table, gone)
        /\ Without(table, gone)[after[c].row] = table[after[c].row]
    BY <1>8, <2>2 DEF Without
  <2> QED
    BY <2>1, <2>3, <2>4, <1>1 DEF Upserted
<1> USE DEF after
<1> QED
  BY <1>6, <1>7, <1>8

LEMMA ApplyStep ==
  ASSUME IInv, NEW b \in Builds, Apply(b)
  PROVE  IInv'
<1>1. PICK ids \in RowIds(b) :
        LET after == ChunksAfter(b, ids)
        IN /\ chunks' = after
           /\ docs' = Without(Upserted(build[b].docs, docs), StaleDocs(b))
           /\ vec' = Reindexed(b, IF build[b].reset THEN Nothing ELSE vec, after)
           /\ fts' = Reindexed(b, fts, after)
  BY DEF Apply
<1>2. Working(b) /\ pc[b] = "apply"
  BY DEF Apply, Working
<1>3. /\ states' = StatesAfter(b) /\ active' = {build[b].profile}
      /\ snapshots' = Upserted(build[b].revisions, snapshots)
      /\ run' = [run EXCEPT ![b] = "completed"] /\ Exit(b) /\ UNCHANGED source
  BY DEF Apply
<1> DEFINE after == ChunksAfter(b, ids)
           table == IF build[b].reset THEN Nothing ELSE vec
<1>4. /\ build[b] \in BuildRecords /\ build[b].profile \in Profiles
      /\ build[b].needs \subseteq build[b].chunks
      /\ \A c \in build[b].chunks : DocOf[c] \in DOMAIN build[b].docs
  BY <1>2 DEF IInv, BuildInv
<1>5. /\ DOMAIN after = Kept(b) \cup Inserted(b)
      /\ \A c \in Kept(b) : after[c].row = chunks[c].row
      /\ Maps(after, Chunks, ChunkRows)
      /\ \A c, d \in DOMAIN after : after[c].row = after[d].row => c = d
  BY RowsAfter
<1>6. /\ Maps(vec, Nat \ {0}, Entries) /\ Maps(fts, Nat \ {0}, Entries)
      /\ Maps(table, Nat \ {0}, Entries)
  BY NothingMaps DEF IInv, TypeOK
<1>7. /\ Maps(vec', Nat \ {0}, Entries)
      /\ \A c \in build[b].needs :
           after[c].row \in DOMAIN vec' /\ vec'[after[c].row] = Entry(b, c)
      /\ \A c \in Kept(b) \ build[b].needs :
           after[c].row \in DOMAIN table =>
             after[c].row \in DOMAIN vec' /\ vec'[after[c].row] = table[after[c].row]
  BY <1>1, <1>2, <1>6, RowsReindexed
<1>8. /\ Maps(fts', Nat \ {0}, Entries)
      /\ \A c \in build[b].needs :
           after[c].row \in DOMAIN fts' /\ fts'[after[c].row] = Entry(b, c)
      /\ \A c \in Kept(b) \ build[b].needs :
           after[c].row \in DOMAIN fts =>
             after[c].row \in DOMAIN fts' /\ fts'[after[c].row] = fts[after[c].row]
  BY <1>1, <1>2, <1>6, RowsReindexed
<1>9. BuildInv' /\ pc' \in [Builds -> Stages]
  BY <1>3, ExitBuild DEF IInv, TypeOK
<1>10. /\ Maps(docs', Docs, Headers)
       /\ \A c \in DOMAIN chunks' : DocOf[c] \in DOMAIN docs'
  <2>1. Maps(build[b].docs, Docs, Headers)
    <3>1. build[b].docs \in UNION {[D -> Headers] : D \in SUBSET Docs}
      BY <1>4 DEF BuildRecords
    <3>2. PICK D \in SUBSET Docs : build[b].docs \in [D -> Headers]
      BY <3>1
    <3> QED
      BY <3>2 DEF Maps
  <2>2. Maps(docs', Docs, Headers)
    BY <1>1, <2>1, UpsertedMaps, WithoutMaps DEF IInv, TypeOK
  <2>3. DOMAIN docs' = (DOMAIN build[b].docs \cup DOMAIN docs) \ StaleDocs(b)
    BY <1>1 DEF Without, Upserted
  <2>4. ASSUME NEW c \in Inserted(b)
        PROVE  DocOf[c] \in DOMAIN docs'
    BY <1>4, <2>3 DEF Inserted, StaleDocs
  <2>5. ASSUME NEW c \in Kept(b)
        PROVE  DocOf[c] \in DOMAIN docs'
    BY <2>3 DEF Kept, GoneChunks, IInv, TypeOK
  <2> QED
    BY <1>1, <1>5, <2>2, <2>4, <2>5
<1>11. DOMAIN states' = build[b].needs
         \cup (IF build[b].reset THEN {} ELSE DOMAIN states \ GoneChunks(b))
  BY <1>3 DEF StatesAfter, Upserted, Without, Nothing
<1>12. \A c \in build[b].needs :
         states'[c] = [profile |-> build[b].profile, title |-> Title(b, c)]
  BY <1>3 DEF StatesAfter, Upserted
<1>13. ASSUME NEW c \in DOMAIN states', c \notin build[b].needs
       PROVE  /\ ~build[b].reset /\ c \in DOMAIN states \ GoneChunks(b)
              /\ states'[c] = states[c]
  <2>1. ~build[b].reset /\ c \in DOMAIN states \ GoneChunks(b)
    BY <1>11, <1>13
  <2> QED
    BY <1>3, <1>13, <2>1 DEF StatesAfter, Upserted, Without
<1>14. Maps(states', Chunks, States)
  <2> SUFFICES ASSUME NEW c \in DOMAIN states'
               PROVE  c \in Chunks /\ states'[c] \in States
    BY DEF Maps
  <2>1. CASE c \in build[b].needs
    <3>1. c \in Chunks
      BY <1>4, <2>1 DEF BuildRecords
    <3> QED
      BY <1>2, <1>12, <2>1, <3>1, EntryIsTyped DEF IInv
  <2>2. CASE c \notin build[b].needs
    BY <1>13, <2>2 DEF IInv, TypeOK, Maps
  <2> QED
    BY <2>1, <2>2
<1>15. TypeOK'
  <2>1. Maps(snapshots', Sources, Nat)
    <3>1. build[b].revisions \in UNION {[S -> Nat] : S \in SUBSET Sources}
      BY <1>4 DEF BuildRecords
    <3>2. PICK S \in SUBSET Sources : build[b].revisions \in [S -> Nat]
      BY <3>1
    <3>3. Maps(build[b].revisions, Sources, Nat)
      BY <3>2 DEF Maps
    <3> QED
      BY <1>3, <3>3, UpsertedMaps DEF IInv, TypeOK
  <2>2. active' \subseteq Profiles /\ Cardinality(active') <= 1
    <3>1. Cardinality({build[b].profile}) = 1
      BY FS_Singleton, Zenon
    <3>2. active' = {build[b].profile}
      BY <1>3
    <3> QED
      BY <1>4, <3>1, <3>2
  <2>3. run' \in [Builds -> Statuses]
    BY <1>3 DEF IInv, TypeOK, Statuses
  <2>4. stale' \subseteq Builds /\ overtaken' \in BOOLEAN
    BY DEF Apply, IInv, TypeOK
  <2>5. Maps(chunks', Chunks, ChunkRows)
    BY <1>1, <1>5
  <2> QED
    BY <1>7, <1>8, <1>9, <1>10, <1>14, <2>1, <2>2, <2>3, <2>4, <2>5 DEF TypeOK
<1>16. DistinctRows'
  BY <1>1, <1>5 DEF DistinctRows
<1>17. StatesAreTrue'
  <2> SUFFICES ASSUME NEW c \in DOMAIN states'
               PROVE  /\ c \in DOMAIN after
                      /\ after[c].row \in DOMAIN vec' \cap DOMAIN fts'
                      /\ vec'[after[c].row] = [profile |-> states'[c].profile, chunk |-> c,
                                               title |-> states'[c].title]
                      /\ fts'[after[c].row].chunk = c
                      /\ fts'[after[c].row].title = states'[c].title
    BY <1>1 DEF StatesAreTrue
  <2>1. CASE c \in build[b].needs
    <3>1. c \in DOMAIN after
      BY <1>4, <1>5, <2>1, KeptAndInserted DEF IInv
    <3>2. vec'[after[c].row] = Entry(b, c) /\ fts'[after[c].row] = Entry(b, c)
      BY <1>7, <1>8, <2>1
    <3>3. states'[c].profile = build[b].profile /\ states'[c].title = Title(b, c)
      <4>1. states'[c] = [profile |-> build[b].profile, title |-> Title(b, c)]
        BY <1>12, <2>1
      <4> QED
        BY <4>1
    <3>4. after[c].row \in DOMAIN vec' \cap DOMAIN fts'
      BY <1>7, <1>8, <2>1
    <3> HIDE DEF after
    <3> QED
      BY <3>1, <3>2, <3>3, <3>4 DEF Entry
  <2>2. CASE c \notin build[b].needs
    <3>1. /\ ~build[b].reset /\ c \in DOMAIN states \ GoneChunks(b)
          /\ states'[c] = states[c]
      BY <1>13, <2>2
    <3>2. /\ c \in DOMAIN chunks
          /\ chunks[c].row \in DOMAIN vec \cap DOMAIN fts
          /\ vec[chunks[c].row] = [profile |-> states[c].profile, chunk |-> c,
                                   title |-> states[c].title]
          /\ fts[chunks[c].row].chunk = c /\ fts[chunks[c].row].title = states[c].title
      BY <3>1 DEF IInv, StatesAreTrue
    <3>3. c \in Kept(b) \ build[b].needs
      BY <2>2, <3>1, <3>2 DEF Kept
    <3>4. c \in DOMAIN after /\ after[c].row = chunks[c].row /\ table = vec
      BY <1>5, <3>1, <3>3
    <3> HIDE DEF after, table
    <3>5. /\ after[c].row \in DOMAIN vec' \cap DOMAIN fts'
          /\ vec'[after[c].row] = vec[chunks[c].row]
          /\ fts'[after[c].row] = fts[chunks[c].row]
      BY <1>7, <1>8, <3>2, <3>3, <3>4
    <3> QED
      BY <3>1, <3>2, <3>4, <3>5
  <2> QED
    BY <2>1, <2>2
<1>18. SourceInv'
  BY <1>3, SourceKept DEF IInv
<1> QED
  BY <1>9, <1>15, <1>16, <1>17, <1>18 DEF IInv
-----------------------------------------------------------------------------
LEMMA OtherSteps ==
  ASSUME IInv, NEW b \in Builds,
         Unchanged(b) \/ Mismatch(b) \/ Embed(b) \/ MarkRunFailed(b) \/ Die(b)
  PROVE  IInv'
<1>1. UNCHANGED <<source, index, history>> /\ run' \in [Builds -> Statuses]
  BY DEF Unchanged, Mismatch, Embed, MarkRunFailed, Die, IInv, TypeOK, Statuses
<1>2. BuildInv' /\ pc' \in [Builds -> Stages]
  <2>1. CASE Embed(b)
    <3>1. Working(b) /\ UNCHANGED build /\ pc' = [pc EXCEPT ![b] = "apply"]
      BY <2>1 DEF Embed, Goto, Working
    <3> QED
      BY <3>1 DEF IInv, TypeOK, BuildInv, Working, Stages
  <2>2. CASE ~Embed(b)
    BY <2>2, ExitBuild DEF Unchanged, Mismatch, MarkRunFailed, Die, IInv, TypeOK
  <2> QED
    BY <2>1, <2>2
<1> QED
  BY <1>1, <1>2, IndexKept, SourceKept DEF IInv

LEMMA NextIInv == IInv /\ [Next]_vars => IInv'
<1> SUFFICES ASSUME IInv, [Next]_vars PROVE IInv'
  OBVIOUS
<1>1. ASSUME NEW s \in Sources, Edit(s) PROVE IInv'
  BY <1>1, EditStep
<1>2. ASSUME NEW b \in Builds, Step(b) PROVE IInv'
  <2>1. CASE Acquire(b)
    BY <2>1, AcquireStep
  <2>2. CASE Inspect(b)
    BY <2>2, InspectStep
  <2>3. CASE CheckProfile(b)
    BY <2>3, CheckProfileStep
  <2>4. CASE BeginRun(b)
    BY <2>4, BeginRunStep
  <2>5. CASE Apply(b)
    BY <2>5, ApplyStep
  <2>6. CASE Unchanged(b) \/ Mismatch(b) \/ Embed(b) \/ MarkRunFailed(b) \/ Die(b)
    BY <2>6, OtherSteps
  <2> QED
    BY <1>2, <2>1, <2>2, <2>3, <2>4, <2>5, <2>6 DEF Step
<1>3. CASE UNCHANGED vars
  <2>1. UNCHANGED <<source, index, history, build, pc, run>>
    BY <1>3 DEF vars, index, history
  <2>2. BuildInv'
    BY <2>1 DEF IInv, BuildInv, Working
  <2> QED
    BY <2>1, <2>2, IndexKept, SourceKept DEF IInv, TypeOK
<1> QED
  BY <1>1, <1>2, <1>3 DEF Next, Terminated

LEMMA IndexSafe == Spec => []IInv
  BY InitIInv, NextIInv, PTL DEF Spec

(* The tables of the index keep their types and their foreign key, however many    *)
(* builds overlap (IndexRepository.apply in storage/repositories.py).              *)
THEOREM TablesAreTyped == Spec => []TypeOK
<1>1. IInv => TypeOK
  BY DEF IInv
<1> QED
  BY <1>1, IndexSafe, PTL

(* Whatever builds overlap, fail or die, a row of chunk_embedding_state never       *)
(* speaks of a vector or a full-text row that is not there, or is of another chunk,  *)
(* another profile or another title: what a later plan leaves alone is really done.  *)
THEOREM EmbeddingStatesAreTrue == Spec => []StatesAreTrue
<1>1. IInv => StatesAreTrue
  BY DEF IInv
<1> QED
  BY <1>1, IndexSafe, PTL
-----------------------------------------------------------------------------
(* What a build nobody has overtaken knows when it applies: the plan it made is    *)
(* the one it would make now, and so are the profile check and the reset.          *)
PlanOK(b) ==
  /\ DOMAIN build[b].docs \subseteq InScope(b)
  /\ DOMAIN build[b].revisions = build[b].scope
  /\ b \notin stale /\ pc[b] \in {"plan", "embed", "apply"} =>
       ~Incompatible(b) /\ (build[b].reset <=> ProfileDiffers(b))
  /\ b \notin stale /\ pc[b] \in {"embed", "apply"} =>
       build[b].needs = NeedsEmbedding(b) /\ build[b].deleted = Deleted(b)

PlanInv ==
  /\ \A d \in DOMAIN docs : SourceOf[d] \in DOMAIN snapshots
  /\ \A b \in Builds : PlanOK(b)

LEMMA OthersPlans ==
  ASSUME NEW d, PlanOK(d), UNCHANGED <<index, history>>,
         build'[d] = build[d], pc'[d] = pc[d]
  PROVE  PlanOK(d)'
  BY DEF PlanOK, InScope, Incompatible, ProfileDiffers, NeedsEmbedding, UpToDate, Title,
         Deleted, StoredIn, index, history

LEMMA NoBuildsPlan ==
  ASSUME NEW b, build'[b] = NoBuild, pc'[b] = "done"
  PROVE  PlanOK(b)'
  BY DEF PlanOK, NoBuild, Nothing, InScope

LEMMA InitPlanInv == Init => PlanInv
<1> SUFFICES ASSUME Init PROVE PlanInv
  OBVIOUS
<1>1. \A d \in DOMAIN docs : SourceOf[d] \in DOMAIN snapshots
  BY DEF Init, Nothing
<1>2. ASSUME NEW b \in Builds PROVE PlanOK(b)
  <2>1. build[b] = NoBuild /\ pc[b] = "idle"
    BY DEF Init
  <2> QED
    BY <2>1 DEF PlanOK, NoBuild, Nothing
<1> QED
  BY <1>1, <1>2 DEF PlanInv

\* A step of b that is not its apply disturbs no plan but its own.
LEMMA OwnPlan ==
  ASSUME IInv, PlanInv, NEW b \in Builds, UNCHANGED <<index, history>>,
         \A d \in Builds \ {b} : build'[d] = build[d] /\ pc'[d] = pc[d],
         PlanOK(b)'
  PROVE  PlanInv'
<1>1. \A d \in Builds : PlanOK(d)'
  BY OthersPlans DEF PlanInv
<1>2. \A d \in DOMAIN docs' : SourceOf[d] \in DOMAIN snapshots'
  BY DEF PlanInv, index
<1> QED
  BY <1>1, <1>2 DEF PlanInv

LEMMA AcquirePlan ==
  ASSUME IInv, PlanInv, NEW b \in Builds, Acquire(b)
  PROVE  PlanInv'
<1>1. PICK request \in Requests : build' = [build EXCEPT ![b] = Acquired(request)]
  BY DEF Acquire
<1>2. pc' = [pc EXCEPT ![b] = "inspect"] /\ UNCHANGED <<index, history>>
  BY DEF Acquire, Goto
<1>3. build'[b] = Acquired(request) /\ pc'[b] = "inspect"
  BY <1>1, <1>2 DEF IInv, BuildInv, TypeOK
<1>4. PlanOK(b)'
  BY <1>3 DEF PlanOK, Acquired, InScope
<1>5. \A d \in Builds \ {b} : build'[d] = build[d] /\ pc'[d] = pc[d]
  BY <1>1, <1>2 DEF IInv, BuildInv, TypeOK
<1> QED
  BY <1>2, <1>4, <1>5, OwnPlan

LEMMA InspectPlan ==
  ASSUME IInv, PlanInv, NEW b \in Builds, Inspect(b)
  PROVE  PlanInv'
<1>1. build[b] \in BuildRecords /\ PlanOK(b)
  BY DEF IInv, BuildInv, PlanInv
<1>2. /\ build' = [build EXCEPT ![b].provider = NeedsEmbedding(b) # {}]
      /\ pc' = [pc EXCEPT ![b] = "check"] /\ UNCHANGED <<index, history>>
  BY DEF Inspect, Goto
<1>3. /\ build'[b].docs = build[b].docs /\ build'[b].scope = build[b].scope
      /\ build'[b].revisions = build[b].revisions /\ pc'[b] = "check"
  BY <1>1, <1>2 DEF IInv, BuildInv, BuildRecords, TypeOK
<1>4. PlanOK(b)'
  BY <1>1, <1>3 DEF PlanOK, InScope
<1>5. \A d \in Builds \ {b} : build'[d] = build[d] /\ pc'[d] = pc[d]
  BY <1>2 DEF IInv, BuildInv, TypeOK
<1> QED
  BY <1>2, <1>4, <1>5, OwnPlan

LEMMA CheckProfilePlan ==
  ASSUME IInv, PlanInv, NEW b \in Builds, CheckProfile(b)
  PROVE  PlanInv'
<1>1. build[b] \in BuildRecords /\ PlanOK(b) /\ ~Incompatible(b)
  BY DEF IInv, BuildInv, PlanInv, CheckProfile
<1>2. /\ build' = [build EXCEPT ![b].reset = ProfileDiffers(b)]
      /\ pc' = [pc EXCEPT ![b] = "plan"] /\ UNCHANGED <<index, history>>
  BY DEF CheckProfile, Goto
<1>3. /\ build'[b].docs = build[b].docs /\ build'[b].scope = build[b].scope
      /\ build'[b].revisions = build[b].revisions /\ build'[b].mode = build[b].mode
      /\ build'[b].profile = build[b].profile
      /\ build'[b].reset = ProfileDiffers(b) /\ pc'[b] = "plan"
  <2> DEFINE made == [build[b] EXCEPT !.reset = ProfileDiffers(b)]
  <2>1. build' = [build EXCEPT ![b] = made]
    BY <1>2
  <2>2. /\ made.docs = build[b].docs /\ made.scope = build[b].scope
        /\ made.revisions = build[b].revisions /\ made.mode = build[b].mode
        /\ made.profile = build[b].profile /\ made.reset = ProfileDiffers(b)
    BY <1>1 DEF BuildRecords
  <2> HIDE DEF made
  <2>3. build'[b] = made /\ pc'[b] = "plan"
    BY <1>2, <2>1 DEF IInv, BuildInv, TypeOK
  <2> QED
    BY <2>2, <2>3
<1>4. (ProfileDiffers(b)' <=> ProfileDiffers(b)) /\ ~Incompatible(b)'
  BY <1>1, <1>2, <1>3 DEF Incompatible, ProfileDiffers, index
<1>5. PlanOK(b)'
  BY <1>1, <1>3, <1>4 DEF PlanOK, InScope
<1>6. \A d \in Builds \ {b} : build'[d] = build[d] /\ pc'[d] = pc[d]
  BY <1>2 DEF IInv, BuildInv, TypeOK
<1> QED
  BY <1>2, <1>5, <1>6, OwnPlan

LEMMA BeginRunPlan ==
  ASSUME IInv, PlanInv, NEW b \in Builds, BeginRun(b)
  PROVE  PlanInv'
<1>1. build[b] \in BuildRecords /\ PlanOK(b) /\ pc[b] = "plan"
  BY DEF IInv, BuildInv, PlanInv, BeginRun
<1>2. /\ build' = [build EXCEPT ![b].needs = NeedsEmbedding(b), ![b].deleted = Deleted(b)]
      /\ pc' = [pc EXCEPT ![b] = "embed"] /\ UNCHANGED <<index, history>>
  BY DEF BeginRun, Goto
<1>3. /\ build'[b].docs = build[b].docs /\ build'[b].scope = build[b].scope
      /\ build'[b].revisions = build[b].revisions /\ build'[b].mode = build[b].mode
      /\ build'[b].profile = build[b].profile /\ build'[b].chunks = build[b].chunks
      /\ build'[b].reset = build[b].reset /\ pc'[b] = "embed"
      /\ build'[b].needs = NeedsEmbedding(b) /\ build'[b].deleted = Deleted(b)
  <2> DEFINE made == [build[b] EXCEPT !.needs = NeedsEmbedding(b), !.deleted = Deleted(b)]
  <2>1. build' = [build EXCEPT ![b] = made]
    BY <1>2
  <2>2. /\ made.docs = build[b].docs /\ made.scope = build[b].scope
        /\ made.revisions = build[b].revisions /\ made.mode = build[b].mode
        /\ made.profile = build[b].profile /\ made.chunks = build[b].chunks
        /\ made.reset = build[b].reset
        /\ made.needs = NeedsEmbedding(b) /\ made.deleted = Deleted(b)
    BY <1>1 DEF BuildRecords
  <2> HIDE DEF made
  <2>3. build'[b] = made /\ pc'[b] = "embed"
    BY <1>2, <2>1 DEF IInv, BuildInv, TypeOK
  <2> QED
    BY <2>2, <2>3
<1>4. /\ ProfileDiffers(b)' <=> ProfileDiffers(b)
      /\ Incompatible(b)' <=> Incompatible(b)
  BY <1>2, <1>3 DEF Incompatible, ProfileDiffers, index
<1>5. NeedsEmbedding(b)' = NeedsEmbedding(b) /\ Deleted(b)' = Deleted(b)
  BY <1>2, <1>3 DEF NeedsEmbedding, UpToDate, Title, Deleted, StoredIn, InScope, index
<1>6. PlanOK(b)'
  BY <1>1, <1>2, <1>3, <1>4, <1>5 DEF PlanOK, InScope, history
<1>7. \A d \in Builds \ {b} : build'[d] = build[d] /\ pc'[d] = pc[d]
  BY <1>2 DEF IInv, BuildInv, TypeOK
<1> QED
  BY <1>2, <1>6, <1>7, OwnPlan

LEMMA OtherPlans ==
  ASSUME IInv, PlanInv, NEW b \in Builds,
         Unchanged(b) \/ Mismatch(b) \/ Embed(b) \/ MarkRunFailed(b) \/ Die(b)
  PROVE  PlanInv'
<1>1. UNCHANGED <<index, history>>
  BY DEF Unchanged, Mismatch, Embed, MarkRunFailed, Die
<1>2. CASE Embed(b)
  <2>1. /\ UNCHANGED build /\ pc' = [pc EXCEPT ![b] = "apply"]
        /\ pc[b] = "embed" /\ pc'[b] = "apply"
    BY <1>2 DEF Embed, Goto, IInv, TypeOK
  <2>2. PlanOK(b)
    BY DEF PlanInv
  <2>3. PlanOK(b)'
    BY <1>1, <2>1, <2>2 DEF PlanOK, InScope, Incompatible, ProfileDiffers, NeedsEmbedding,
       UpToDate, Title, Deleted, StoredIn, index, history
  <2>4. \A d \in Builds \ {b} : build'[d] = build[d] /\ pc'[d] = pc[d]
    BY <2>1 DEF IInv, TypeOK
  <2> QED
    BY <1>1, <2>3, <2>4, OwnPlan
<1>3. CASE ~Embed(b)
  <2>1. build' = [build EXCEPT ![b] = NoBuild] /\ pc' = [pc EXCEPT ![b] = "done"]
    BY <1>3 DEF Unchanged, Mismatch, MarkRunFailed, Die, Exit, Goto
  <2>2. build'[b] = NoBuild /\ pc'[b] = "done"
    BY <2>1 DEF IInv, BuildInv, TypeOK
  <2>3. PlanOK(b)'
    BY <2>2, NoBuildsPlan
  <2>4. \A d \in Builds \ {b} : build'[d] = build[d] /\ pc'[d] = pc[d]
    BY <2>1 DEF IInv, BuildInv, TypeOK
  <2> QED
    BY <1>1, <2>3, <2>4, OwnPlan
<1> QED
  BY <1>2, <1>3

LEMMA ApplyPlan ==
  ASSUME IInv, PlanInv, NEW b \in Builds, Apply(b)
  PROVE  PlanInv'
<1>1. /\ build' = [build EXCEPT ![b] = NoBuild] /\ pc' = [pc EXCEPT ![b] = "done"]
      /\ stale' = stale \cup {d \in Builds \ {b} : pc[d] \in {"plan", "embed", "apply"}}
      /\ snapshots' = Upserted(build[b].revisions, snapshots)
      /\ docs' = Without(Upserted(build[b].docs, docs), StaleDocs(b))
  BY DEF Apply, Exit, Goto
<1>2. ASSUME NEW d \in Builds PROVE PlanOK(d)'
  <2>1. CASE d = b
    <3>1. build'[b] = NoBuild /\ pc'[b] = "done"
      BY <1>1 DEF IInv, BuildInv, TypeOK
    <3> QED
      BY <2>1, <3>1, NoBuildsPlan
  <2>2. CASE d # b
    <3>1. build'[d] = build[d] /\ pc'[d] = pc[d]
      BY <1>1, <2>2 DEF IInv, BuildInv, TypeOK
    <3>2. pc'[d] \in {"plan", "embed", "apply"} => d \in stale'
      BY <1>1, <2>2, <3>1
    <3>3. PlanOK(d)
      BY DEF PlanInv
    <3> QED
      BY <3>1, <3>2, <3>3 DEF PlanOK, InScope
  <2> QED
    BY <2>1, <2>2
<1>3. ASSUME NEW d \in DOMAIN docs' PROVE SourceOf[d] \in DOMAIN snapshots'
  <2>1. DOMAIN snapshots' = build[b].scope \cup DOMAIN snapshots
    BY <1>1 DEF Upserted, PlanInv, PlanOK
  <2>2. d \in DOMAIN build[b].docs \/ d \in DOMAIN docs
    BY <1>1 DEF Without, Upserted
  <2> QED
    BY <2>1, <2>2 DEF PlanInv, PlanOK, InScope
<1> QED
  BY <1>2, <1>3 DEF PlanInv

(* The plan of a build that nobody has overtaken, at its apply. *)
LEMMA FreshPlan ==
  ASSUME IInv, PlanInv, NEW b \in Builds, b \notin stale, pc[b] = "apply"
  PROVE  /\ GoneChunks(b) = build[b].deleted /\ build[b].deleted \subseteq DOMAIN chunks
         /\ \A c \in Kept(b) : DocOf[c] \in InScope(b) => c \in build[b].chunks
         /\ Inserted(b) \subseteq build[b].needs
         /\ build[b].reset => /\ build[b].needs = build[b].chunks
                              /\ Kept(b) \subseteq build[b].chunks
         /\ \A c \in build[b].chunks \ build[b].needs :
              /\ c \in Kept(b) /\ c \in DOMAIN states /\ ~build[b].reset
              /\ states[c] = [profile |-> build[b].profile, title |-> Title(b, c)]
         /\ ~build[b].reset => active \subseteq {build[b].profile}
<1>1. /\ build[b].needs = NeedsEmbedding(b) /\ build[b].deleted = Deleted(b)
      /\ ~Incompatible(b) /\ (build[b].reset <=> ProfileDiffers(b))
  BY DEF PlanInv, PlanOK
<1>2. GoneChunks(b) = build[b].deleted /\ build[b].deleted \subseteq DOMAIN chunks
  <2>1. GoneChunks(b) \cap build[b].chunks = {}
    BY KeptAndInserted DEF IInv
  <2> QED
    BY <1>1, <2>1 DEF GoneChunks, StaleDocs, Deleted, StoredIn
<1>3. \A c \in Kept(b) : DocOf[c] \in InScope(b) => c \in build[b].chunks
  BY <1>1, <1>2 DEF Kept, Deleted, StoredIn
<1>4. Inserted(b) \subseteq build[b].needs
  BY <1>1 DEF Inserted, NeedsEmbedding
<1>5. ASSUME build[b].reset
      PROVE  build[b].needs = build[b].chunks /\ Kept(b) \subseteq build[b].chunks
  <2>1. build[b].mode = "rebuild" /\ DOMAIN snapshots \subseteq build[b].scope
    BY <1>1, <1>5 DEF Incompatible
  <2>2. build[b].needs = build[b].chunks
    BY <1>1, <2>1 DEF NeedsEmbedding
  <2>3. ASSUME NEW c \in Kept(b) PROVE DocOf[c] \in InScope(b)
    <3>1. DocOf[c] \in DOMAIN docs
      BY DEF Kept, IInv, TypeOK
    <3>2. DocOf[c] \in Docs /\ SourceOf[DocOf[c]] \in DOMAIN snapshots
      BY <3>1 DEF IInv, TypeOK, Maps, PlanInv
    <3> QED
      BY <2>1, <3>2 DEF InScope
  <2> QED
    BY <1>3, <2>2, <2>3
<1>6. ASSUME NEW c \in build[b].chunks \ build[b].needs
      PROVE  /\ c \in Kept(b) /\ c \in DOMAIN states /\ ~build[b].reset
             /\ states[c] = [profile |-> build[b].profile, title |-> Title(b, c)]
  <2>1. c \in DOMAIN chunks /\ build[b].mode # "rebuild" /\ UpToDate(b, c)
    BY <1>1 DEF NeedsEmbedding
  <2>2. c \in Kept(b)
    BY <2>1, KeptAndInserted DEF Kept, IInv
  <2>3. ~build[b].reset
    BY <1>1, <2>1 DEF Incompatible
  <2> QED
    BY <2>1, <2>2, <2>3 DEF UpToDate
<1>7. ~build[b].reset => active \subseteq {build[b].profile}
  BY <1>1 DEF ProfileDiffers
<1> QED
  BY <1>2, <1>3, <1>4, <1>5, <1>6, <1>7

\* What a fresh apply leaves of the documents, chunks and states of its own sources.
LEMMA FreshApply ==
  ASSUME IInv, PlanInv, NEW b \in Builds, b \notin stale, Apply(b)
  PROVE  /\ \A c \in build[b].chunks :
              /\ c \in DOMAIN chunks' /\ c \in DOMAIN states'
              /\ chunks'[c].header = docs'[DocOf[c]]
              /\ states'[c] = [profile |-> build[b].profile,
                               title |-> TitleOf[docs'[DocOf[c]]]]
         /\ \A d \in DOMAIN build[b].docs :
              d \in DOMAIN docs' /\ docs'[d] = build[b].docs[d]
         /\ DOMAIN chunks' = Kept(b) \cup build[b].chunks
         /\ DOMAIN docs' = (DOMAIN build[b].docs \cup DOMAIN docs) \ StaleDocs(b)
<1>1. PICK ids \in RowIds(b) :
        /\ chunks' = ChunksAfter(b, ids)
        /\ docs' = Without(Upserted(build[b].docs, docs), StaleDocs(b))
        /\ states' = StatesAfter(b)
  BY DEF Apply
<1>2. pc[b] = "apply"
  BY DEF Apply
<1>3. DOMAIN docs' = (DOMAIN build[b].docs \cup DOMAIN docs) \ StaleDocs(b)
  BY <1>1 DEF Without, Upserted
<1>4. ASSUME NEW d \in DOMAIN build[b].docs
      PROVE  d \in DOMAIN docs' /\ docs'[d] = build[b].docs[d]
  <2>1. d \notin StaleDocs(b)
    BY DEF StaleDocs
  <2>2. d \in DOMAIN docs'
    BY <1>3, <2>1
  <2> QED
    BY <1>1, <2>1, <2>2 DEF Without, Upserted
<1>5. DOMAIN chunks' = Kept(b) \cup build[b].chunks
  BY <1>1 DEF ChunksAfter
<1>6. ASSUME NEW c \in build[b].chunks
      PROVE  /\ c \in DOMAIN states'
             /\ chunks'[c].header = docs'[DocOf[c]]
             /\ states'[c] = [profile |-> build[b].profile,
                              title |-> TitleOf[docs'[DocOf[c]]]]
  <2>1. DocOf[c] \in DOMAIN build[b].docs
    BY DEF IInv, BuildInv
  <2>2. docs'[DocOf[c]] = build[b].docs[DocOf[c]]
    BY <1>4, <2>1
  <2>3. chunks'[c].header = build[b].docs[DocOf[c]]
    BY <1>1 DEF ChunksAfter
  <2>4. Title(b, c) = TitleOf[docs'[DocOf[c]]]
    BY <2>2 DEF Title
  <2>5. c \in DOMAIN states'
        /\ states'[c] = [profile |-> build[b].profile, title |-> Title(b, c)]
    <3>1. CASE c \in build[b].needs
      BY <1>1, <3>1 DEF StatesAfter, Upserted
    <3>2. CASE c \notin build[b].needs
      <4>1. /\ c \in Kept(b) /\ c \in DOMAIN states /\ ~build[b].reset
            /\ states[c] = [profile |-> build[b].profile, title |-> Title(b, c)]
        BY <1>2, <3>2, FreshPlan
      <4>2. c \notin GoneChunks(b)
        BY <4>1 DEF Kept
      <4>3. c \in DOMAIN states' /\ states'[c] = states[c]
        BY <1>1, <3>2, <4>1, <4>2 DEF StatesAfter, Upserted, Without
      <4> QED
        BY <4>1, <4>3
    <3> QED
      BY <3>1, <3>2
  <2> QED
    BY <2>2, <2>3, <2>4, <2>5
<1> QED
  BY <1>3, <1>4, <1>5, <1>6

LEMMA FreshIsExact ==
  ASSUME IInv, PlanInv, NEW b \in Builds, b \notin stale, Apply(b), NEW made, made = build[b]
  PROVE  Exact(made)'
<1>1. /\ \A c \in build[b].chunks :
           /\ c \in DOMAIN chunks' /\ c \in DOMAIN states'
           /\ chunks'[c].header = docs'[DocOf[c]]
           /\ states'[c] = [profile |-> build[b].profile,
                            title |-> TitleOf[docs'[DocOf[c]]]]
      /\ \A d \in DOMAIN build[b].docs :
           d \in DOMAIN docs' /\ docs'[d] = build[b].docs[d]
      /\ DOMAIN chunks' = Kept(b) \cup build[b].chunks
      /\ DOMAIN docs' = (DOMAIN build[b].docs \cup DOMAIN docs) \ StaleDocs(b)
  BY FreshApply
<1>2. DOMAIN build[b].docs \subseteq InScope(b) /\ DOMAIN docs \subseteq Docs
  BY DEF PlanInv, PlanOK, IInv, TypeOK, Maps
<1>3. {d \in DOMAIN docs' : SourceOf[d] \in made.scope} = DOMAIN made.docs
  BY <1>1, <1>2 DEF StaleDocs, InScope
<1>4. {c \in DOMAIN chunks' : SourceOf[DocOf[c]] \in made.scope} = made.chunks
  <2>1. ASSUME NEW c \in Kept(b), SourceOf[DocOf[c]] \in build[b].scope
        PROVE  c \in build[b].chunks
    <3>1. DocOf[c] \in Docs
      BY DEF Kept, IInv, TypeOK, Maps
    <3>2. DocOf[c] \in InScope(b)
      BY <2>1, <3>1 DEF InScope
    <3> QED
      BY <3>2, FreshPlan DEF Apply
  <2>2. ASSUME NEW c \in build[b].chunks PROVE SourceOf[DocOf[c]] \in build[b].scope
    <3>1. DocOf[c] \in InScope(b)
      BY <1>2 DEF IInv, BuildInv
    <3> QED
      BY <3>1 DEF InScope
  <2> QED
    BY <1>1, <2>1, <2>2
<1>5. structure' = Derived(docs', chunks')
  BY DEF Apply
<1> QED
  BY <1>1, <1>3, <1>4, <1>5 DEF Exact

\* A table over the chunks that stay, without its gone rows and with the planned ones.
LEMMA RowsOfTable ==
  ASSUME IInv, PlanInv, NEW b \in Builds, b \notin stale, pc[b] = "apply",
         NEW ids \in RowIds(b), NEW table,
         build[b].reset \/ DOMAIN table = UsedRows,
         DOMAIN table \subseteq UsedRows
  PROVE  LET after == ChunksAfter(b, ids)
         IN DOMAIN Reindexed(b, table, after) = {after[c].row : c \in DOMAIN after}
<1> DEFINE after == ChunksAfter(b, ids)
           planned == {after[c].row : c \in build[b].needs}
           gone == {chunks[c].row : c \in build[b].deleted \cap DOMAIN chunks}
<1>1. DOMAIN Reindexed(b, table, after) = planned \cup (DOMAIN table \ gone)
  BY DEF Reindexed, Upserted, Without
<1>2. /\ DOMAIN after = Kept(b) \cup Inserted(b)
      /\ \A c \in Kept(b) : after[c].row = chunks[c].row
  BY RowsAfter
<1>3. build[b].needs \subseteq DOMAIN after
  BY <1>2, KeptAndInserted DEF IInv, BuildInv
<1>4. /\ GoneChunks(b) = build[b].deleted
      /\ Inserted(b) \subseteq build[b].needs
      /\ build[b].reset => /\ build[b].needs = build[b].chunks
                           /\ Kept(b) \subseteq build[b].chunks
  BY FreshPlan
<1> HIDE DEF after
<1>5. DOMAIN table \ gone \subseteq {after[c].row : c \in DOMAIN after}
  <2> SUFFICES ASSUME NEW row \in DOMAIN table \ gone
               PROVE  \E c \in DOMAIN after : row = after[c].row
    OBVIOUS
  <2>1. PICK c \in DOMAIN chunks : row = chunks[c].row
    BY DEF UsedRows
  <2>2. c \in Kept(b)
    BY <1>4, <2>1 DEF Kept
  <2> QED
    BY <1>2, <2>1, <2>2
<1>6. ASSUME NEW c \in DOMAIN after
      PROVE  after[c].row \in planned \cup (DOMAIN table \ gone)
  <2>1. CASE c \in build[b].needs
    BY <2>1
  <2>2. CASE c \notin build[b].needs
    <3>1. c \in Kept(b) /\ ~build[b].reset
      BY <1>2, <1>4, <2>2
    <3>2. chunks[c].row \in DOMAIN table
      BY <3>1 DEF UsedRows, Kept
    <3>3. chunks[c].row \notin gone
      BY <1>4, <3>1 DEF Kept, IInv, DistinctRows
    <3> QED
      BY <1>2, <3>1, <3>2, <3>3
  <2> QED
    BY <2>1, <2>2
<1>7. planned \subseteq {after[c].row : c \in DOMAIN after}
  BY <1>3
<1> USE DEF after
<1> QED
  BY <1>1, <1>5, <1>6, <1>7

LEMMA ApplyKeepsWhole ==
  ASSUME IInv, PlanInv, IndexIsWhole, NEW b \in Builds, Apply(b)
  PROVE  IndexIsWhole'
<1> SUFFICES ASSUME ~overtaken'
             PROVE  /\ DOMAIN vec' = UsedRows' /\ DOMAIN fts' = UsedRows'
                    /\ DOMAIN states' = DOMAIN chunks'
                    /\ \A c \in DOMAIN chunks' :
                         /\ chunks'[c].header = docs'[DocOf[c]]
                         /\ active' = {states'[c].profile}
                         /\ states'[c].title = TitleOf[docs'[DocOf[c]]]
  BY DEF IndexIsWhole
<1>1. ~overtaken /\ b \notin stale
  BY DEF Apply
<1>2. /\ DOMAIN vec = UsedRows /\ DOMAIN fts = UsedRows
      /\ DOMAIN states = DOMAIN chunks
      /\ \A c \in DOMAIN chunks :
           /\ chunks[c].header = docs[DocOf[c]]
           /\ active = {states[c].profile} /\ states[c].title = TitleOf[docs[DocOf[c]]]
  BY <1>1 DEF IndexIsWhole
<1>3. PICK ids \in RowIds(b) :
        /\ chunks' = ChunksAfter(b, ids)
        /\ docs' = Without(Upserted(build[b].docs, docs), StaleDocs(b))
        /\ vec' = Reindexed(b, IF build[b].reset THEN Nothing ELSE vec, ChunksAfter(b, ids))
        /\ fts' = Reindexed(b, fts, ChunksAfter(b, ids))
        /\ states' = StatesAfter(b) /\ active' = {build[b].profile}
  BY DEF Apply
<1>4. pc[b] = "apply"
  BY DEF Apply
<1>5. UsedRows' = {chunks'[c].row : c \in DOMAIN chunks'}
  BY DEF UsedRows
<1>6. DOMAIN fts' = UsedRows'
  <2>1. DOMAIN Reindexed(b, fts, ChunksAfter(b, ids))
          = {ChunksAfter(b, ids)[c].row : c \in DOMAIN ChunksAfter(b, ids)}
    BY <1>1, <1>2, <1>4, RowsOfTable
  <2> QED
    BY <1>3, <1>5, <2>1
<1>7. DOMAIN vec' = UsedRows'
  <2>1. CASE build[b].reset
    <3>1. vec' = Reindexed(b, Nothing, ChunksAfter(b, ids))
      BY <1>3, <2>1
    <3>2. DOMAIN Nothing \subseteq UsedRows
      BY DEF Nothing
    <3>3. DOMAIN Reindexed(b, Nothing, ChunksAfter(b, ids))
            = {ChunksAfter(b, ids)[c].row : c \in DOMAIN ChunksAfter(b, ids)}
      BY <1>1, <1>4, <2>1, <3>2, RowsOfTable
    <3> QED
      BY <1>3, <1>5, <3>1, <3>3
  <2>2. CASE ~build[b].reset
    <3>1. vec' = Reindexed(b, vec, ChunksAfter(b, ids))
      BY <1>3, <2>2
    <3>2. DOMAIN Reindexed(b, vec, ChunksAfter(b, ids))
            = {ChunksAfter(b, ids)[c].row : c \in DOMAIN ChunksAfter(b, ids)}
      BY <1>1, <1>2, <1>4, RowsOfTable
    <3> QED
      BY <1>3, <1>5, <3>1, <3>2
  <2> QED
    BY <2>1, <2>2
<1>8. /\ GoneChunks(b) = build[b].deleted
      /\ \A c \in Kept(b) : DocOf[c] \in InScope(b) => c \in build[b].chunks
      /\ build[b].reset => /\ build[b].needs = build[b].chunks
                           /\ Kept(b) \subseteq build[b].chunks
      /\ \A c \in build[b].chunks \ build[b].needs :
           /\ c \in Kept(b) /\ c \in DOMAIN states /\ ~build[b].reset
      /\ ~build[b].reset => active \subseteq {build[b].profile}
  BY <1>1, <1>4, FreshPlan
<1>9. /\ \A c \in build[b].chunks :
           /\ c \in DOMAIN chunks' /\ c \in DOMAIN states'
           /\ chunks'[c].header = docs'[DocOf[c]]
           /\ states'[c] = [profile |-> build[b].profile,
                            title |-> TitleOf[docs'[DocOf[c]]]]
      /\ DOMAIN chunks' = Kept(b) \cup build[b].chunks
      /\ DOMAIN docs' = (DOMAIN build[b].docs \cup DOMAIN docs) \ StaleDocs(b)
  BY <1>1, FreshApply
<1>10. ASSUME NEW c \in Kept(b), c \notin build[b].chunks
       PROVE  /\ ~build[b].reset /\ c \in DOMAIN states'
              /\ chunks'[c].header = docs'[DocOf[c]]
              /\ states'[c].profile = build[b].profile
              /\ states'[c].title = TitleOf[docs'[DocOf[c]]]
  <2>1. ~build[b].reset /\ c \in DOMAIN chunks /\ c \notin GoneChunks(b)
    BY <1>8, <1>10 DEF Kept
  <2>2. c \notin build[b].needs
    BY <1>10 DEF IInv, BuildInv
  <2>3. c \in DOMAIN states' /\ states'[c] = states[c]
    BY <1>2, <1>3, <2>1, <2>2 DEF StatesAfter, Upserted, Without
  <2>4. chunks'[c].header = chunks[c].header
    BY <1>3, <1>10 DEF ChunksAfter
  <2>5. DocOf[c] \in DOMAIN docs /\ DocOf[c] \notin InScope(b)
    BY <1>8, <1>10, <2>1 DEF IInv, TypeOK
  <2>6. DocOf[c] \notin DOMAIN build[b].docs /\ DocOf[c] \notin StaleDocs(b)
    BY <2>5 DEF PlanInv, PlanOK, StaleDocs
  <2>7. docs'[DocOf[c]] = docs[DocOf[c]]
    BY <1>3, <2>5, <2>6 DEF Without, Upserted
  <2>8. states[c].profile = build[b].profile
    BY <1>2, <1>8, <2>1
  <2> QED
    BY <1>2, <2>1, <2>3, <2>4, <2>7, <2>8
<1>11. DOMAIN states' = DOMAIN chunks'
  <2>1. DOMAIN states' \subseteq build[b].needs \cup (DOMAIN states \ GoneChunks(b))
    BY <1>3 DEF StatesAfter, Upserted, Without, Nothing
  <2>2. DOMAIN states' \subseteq DOMAIN chunks'
    BY <1>2, <1>9, <2>1 DEF Kept, IInv, BuildInv
  <2> QED
    BY <1>9, <1>10, <2>2
<1>12. ASSUME NEW c \in DOMAIN chunks'
       PROVE  /\ chunks'[c].header = docs'[DocOf[c]]
              /\ active' = {states'[c].profile}
              /\ states'[c].title = TitleOf[docs'[DocOf[c]]]
  <2>1. CASE c \in build[b].chunks
    <3>1. /\ chunks'[c].header = docs'[DocOf[c]]
          /\ states'[c] = [profile |-> build[b].profile,
                           title |-> TitleOf[docs'[DocOf[c]]]]
      BY <1>9, <2>1
    <3>2. states'[c].profile = build[b].profile
          /\ states'[c].title = TitleOf[docs'[DocOf[c]]]
      BY <3>1
    <3> QED
      BY <1>3, <3>1, <3>2
  <2>2. CASE c \notin build[b].chunks
    BY <1>3, <1>9, <1>10, <2>2
  <2> QED
    BY <2>1, <2>2
<1> QED
  BY <1>6, <1>7, <1>11, <1>12
-----------------------------------------------------------------------------
LEMMA OthersKeepWhole ==
  ASSUME IndexIsWhole, UNCHANGED <<index, history>>
  PROVE  IndexIsWhole'
  BY DEF IndexIsWhole, UsedRows, index, history

WholeInv == IInv /\ PlanInv /\ IndexIsWhole

LEMMA NextWholeInv == WholeInv /\ [Next]_vars => WholeInv'
<1> SUFFICES ASSUME WholeInv, [Next]_vars PROVE WholeInv'
  OBVIOUS
<1>0. IInv'
  BY NextIInv DEF WholeInv
<1>1. ASSUME NEW s \in Sources, Edit(s) PROVE PlanInv' /\ IndexIsWhole'
  <2>1. UNCHANGED <<index, history, build, pc>>
    BY <1>1 DEF Edit
  <2>2. PlanInv'
    BY <2>1, OthersPlans DEF PlanInv, WholeInv, index
  <2> QED
    BY <2>1, <2>2, OthersKeepWhole DEF WholeInv
<1>2. ASSUME NEW b \in Builds, Step(b) PROVE PlanInv' /\ IndexIsWhole'
  <2>1. CASE Apply(b)
    BY <2>1, ApplyPlan, ApplyKeepsWhole DEF WholeInv
  <2>2. CASE Acquire(b)
    BY <2>2, AcquirePlan, OthersKeepWhole DEF WholeInv, Acquire
  <2>3. CASE Inspect(b)
    BY <2>3, InspectPlan, OthersKeepWhole DEF WholeInv, Inspect
  <2>4. CASE CheckProfile(b)
    BY <2>4, CheckProfilePlan, OthersKeepWhole DEF WholeInv, CheckProfile
  <2>5. CASE BeginRun(b)
    BY <2>5, BeginRunPlan, OthersKeepWhole DEF WholeInv, BeginRun
  <2>6. CASE Unchanged(b) \/ Mismatch(b) \/ Embed(b) \/ MarkRunFailed(b) \/ Die(b)
    <3>1. UNCHANGED <<index, history>>
      BY <2>6 DEF Unchanged, Mismatch, Embed, MarkRunFailed, Die
    <3> QED
      BY <2>6, <3>1, OtherPlans, OthersKeepWhole DEF WholeInv
  <2> QED
    BY <1>2, <2>1, <2>2, <2>3, <2>4, <2>5, <2>6 DEF Step
<1>3. CASE UNCHANGED vars
  <2>1. UNCHANGED <<index, history, build, pc>>
    BY <1>3 DEF vars, index, history
  <2>2. PlanInv'
    BY <2>1, OthersPlans DEF PlanInv, WholeInv, index
  <2> QED
    BY <1>0, <2>1, <2>2, OthersKeepWhole DEF WholeInv
<1> QED
  BY <1>0, <1>1, <1>2, <1>3 DEF Next, Terminated, WholeInv

LEMMA WholeSafe == Spec => []WholeInv
<1>1. Init => IndexIsWhole
  BY DEF Init, IndexIsWhole, UsedRows, Nothing
<1>2. Init => WholeInv
  BY <1>1, InitIInv, InitPlanInv DEF WholeInv
<1> QED
  BY <1>2, NextWholeInv, PTL DEF Spec

(* Until a build applies a plan that another has overtaken, the index has one vector  *)
(* and one full-text row for each chunk and none besides, all of the active profile   *)
(* and with the title and header their documents have now (IndexRepository.apply).    *)
THEOREM TablesAgree == Spec => []IndexIsWhole
<1>1. WholeInv => IndexIsWhole
  BY DEF WholeInv
<1> QED
  BY <1>1, WholeSafe, PTL

(* A build that no other has overtaken leaves its sources as it acquired them,         *)
(* whatever overtaken, failed and dead builds have left there before it: the           *)
(* repair that IndexRepository.apply owes to the next sync.                            *)
THEOREM FreshBuildsRepair == Spec => FreshBuildsAreExact
<1> DEFINE Repairs ==
      \A b \in Builds : \A made \in {build[b]} :
        run[b] = "running" /\ run'[b] = "completed" /\ b \notin stale => Exact(made)'
<1>1. WholeInv /\ [Next]_vars => Repairs
  <2> SUFFICES ASSUME WholeInv, [Next]_vars, NEW b \in Builds, NEW made, made = build[b],
                      run[b] = "running", run'[b] = "completed", b \notin stale
               PROVE  Exact(made)'
    OBVIOUS
  <2>1. Apply(b)
    <3>1. run' # run
      OBVIOUS
    <3>2. PICK d \in Builds : BeginRun(d) \/ MarkRunFailed(d) \/ Apply(d)
      BY <3>1 DEF Next, Step, Edit, Acquire, Inspect, Unchanged, Mismatch, CheckProfile,
                  Embed, Die, Terminated, vars
    <3>3. run \in [Builds -> Statuses]
      BY DEF WholeInv, IInv, TypeOK
    <3>4. CASE BeginRun(d)
      BY <3>3, <3>4 DEF BeginRun
    <3>5. CASE MarkRunFailed(d)
      BY <3>3, <3>5 DEF MarkRunFailed
    <3>6. CASE Apply(d)
      <4>1. run' = [run EXCEPT ![d] = "completed"]
        BY <3>6 DEF Apply
      <4> QED
        BY <3>3, <3>6, <4>1
    <3> QED
      BY <3>2, <3>4, <3>5, <3>6
  <2> QED
    BY <2>1, FreshIsExact DEF WholeInv
<1>2. WholeInv /\ [Next]_vars => [Repairs]_vars
  BY <1>1
<1> QED
  BY <1>2, WholeSafe, PTL DEF Spec, FreshBuildsAreExact
=============================================================================
