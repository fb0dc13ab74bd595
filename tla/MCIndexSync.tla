---------------------------- MODULE MCIndexSync ----------------------------
(* Small instances of IndexSync for TLC: a repository with one document of *)
(* two chunks, and a local file with one chunk.                            *)
EXTENDS IndexSync, TLC

CONSTANTS repo, file, readme, note, h1, h2, p1, p2, b1, b2, b3

MCSourceOf == readme :> repo @@ note :> file
MCDocOf == 1 :> readme @@ 2 :> readme @@ 3 :> note
MCContents ==
  repo :> {[docs |-> Nothing, chunks |-> {}],
           [docs |-> readme :> h1, chunks |-> {1, 2}],
           [docs |-> readme :> h2, chunks |-> {1}]} @@
  file :> {[docs |-> note :> h1, chunks |-> {3}],
           [docs |-> note :> h2, chunks |-> {3}]}

OwnTitles == h1 :> "one" @@ h2 :> "two"
SameTitle == h1 :> "one" @@ h2 :> "one"

Request(mode, profile, scope) == [mode |-> mode, profile |-> profile, scope |-> scope]
MCRequests ==
  {Request("sync", p1, {repo, file}), Request("build", p1, {repo}),
   Request("rebuild", p2, {repo, file})}
SyncOnly == {Request("sync", p1, {repo, file})}

Symmetric == Permutations(Builds)
=============================================================================
