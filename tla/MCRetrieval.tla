----------------------------- MODULE MCRetrieval -----------------------------
(* Small instance of Retrieval for TLC: four chunks of three documents and *)
(* three sections, a graph that is a path of four nodes with two branches, *)
(* and four contents of the index.  Rowid 2 passes from chunk 2 to chunk   *)
(* 4 when document 2 is replaced; document 3 may turn private; the second  *)
(* content has been rebuilt with another embedding profile.                *)
EXTENDS Retrieval, TLC

MCDocOf == <<1, 2, 1, 3>>
MCSectionOf == <<1, 2, 1, 3>>
MCDistance == <<5, 1, 2, 2>>
MCBm25 == <<1, 3, 0, 2>>
MCDocBm25 == <<2, 1, 0>>
MCSectionBm25 == <<0, 1, 0>>
MCRerankScore == <<7, 3, 7, 1>>

Edge(source, target, doc, section, chunk) ==
  [source |-> source, target |-> target, doc |-> doc, section |-> section, chunk |-> chunk]
MCEdges == <<Edge("a", "b", 1, 1, 3), Edge("b", "c", 2, 2, 2), Edge("c", "d", 3, 3, 4),
             Edge("b", "a", 1, 0, 1), Edge("e", "f", 0, 0, 0), Edge("b", "g", 3, 3, 0)>>

Mention(node, from, to) == [node |-> node, from |-> from, to |-> to]
MCMentions == <<Mention("a", 0, 5), Mention("c", 3, 6), Mention("e", 8, 9), Mention("a", 9, 11)>>

MCIndexes ==
  {[rows |-> 1 :> 1 @@ 2 :> 2 @@ 3 :> 3 @@ 4 :> 4, private |-> {}, profile |-> "p"],
   [rows |-> 1 :> 1 @@ 2 :> 4 @@ 3 :> 3, private |-> {3}, profile |-> "q"],
   [rows |-> 1 :> 1 @@ 2 :> 2 @@ 3 :> 3 @@ 4 :> 4, private |-> {1, 2}, profile |-> "p"],
   [rows |-> [r \in {} |-> 0], private |-> {}, profile |-> "p"]}

Query(mode, k, docs, sections) ==
  [mode |-> mode, k |-> k, filter |-> [docs |-> docs, sections |-> sections]]
MCQueries ==
  {Query(mode, k, {}, {}) : mode \in Modes, k \in {1, 2}}
  \cup {Query(mode, 2, {2, 3}, {}) : mode \in Modes} \cup {Query("graph", 4, {2, 3}, {})}
  \cup {Query(mode, 3, {}, {3}) : mode \in Modes}
=============================================================================
