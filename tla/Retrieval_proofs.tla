--------------------------- MODULE Retrieval_proofs ---------------------------
(* What a retrieval returns, for any index, any builds between its reads, and any      *)
(* number of chunks, lists and candidates.                                            *)
EXTENDS Retrieval, FiniteSums, TLAPS

-----------------------------------------------------------------------------
(* Sorting *)

StrictOrder(S, R) ==
  /\ \A x \in S : <<x, x>> \notin R
  /\ \A x, y, z \in S : <<x, y>> \in R /\ <<y, z>> \in R => <<x, z>> \in R
  /\ \A x, y \in S : x = y \/ <<x, y>> \in R \/ <<y, x>> \in R

\* seq has each element of S once, in the order R
Lists(seq, S, R) ==
  /\ seq \in Seq(S) /\ Len(seq) = Cardinality(S)
  /\ Range(seq) = S
  /\ \A m, n \in DOMAIN seq : <<seq[m], seq[n]>> \in R <=> m < n

\* The rank of an element is its place.
LEMMA BelowGrows ==
  ASSUME NEW S, IsFiniteSet(S), NEW R, StrictOrder(S, R), NEW x \in S, NEW z \in S
  PROVE  /\ Cardinality(Below(S, R, x)) \in 0..(Cardinality(S) - 1)
         /\ <<x, z>> \in R => Cardinality(Below(S, R, x)) < Cardinality(Below(S, R, z))
<1>1. Cardinality(S) \in Nat /\ Cardinality(S) # 0
  BY FS_CardinalityType, FS_EmptySet
<1>2. /\ IsFiniteSet(S \ {x}) /\ Cardinality(S \ {x}) = Cardinality(S) - 1
  BY FS_RemoveElement
<1>3. Below(S, R, x) \subseteq S \ {x} /\ Below(S, R, z) \subseteq S
  BY DEF Below, StrictOrder
<1>4. /\ IsFiniteSet(Below(S, R, x)) /\ Cardinality(Below(S, R, x)) <= Cardinality(S) - 1
      /\ IsFiniteSet(Below(S, R, z))
  BY <1>2, <1>3, FS_Subset
<1>5. Cardinality(Below(S, R, x)) \in Nat /\ Cardinality(Below(S, R, z)) \in Nat
  BY <1>4, FS_CardinalityType
<1>6. ASSUME <<x, z>> \in R
      PROVE  Cardinality(Below(S, R, x)) < Cardinality(Below(S, R, z))
  <2>1. Below(S, R, x) \subseteq Below(S, R, z) /\ Below(S, R, x) # Below(S, R, z)
    BY <1>6 DEF Below, StrictOrder
  <2>2. Cardinality(Below(S, R, x)) <= Cardinality(Below(S, R, z))
        /\ Cardinality(Below(S, R, x)) # Cardinality(Below(S, R, z))
    BY <1>4, <2>1, FS_Subset
  <2> QED
    BY <1>5, <2>2
<1> QED
  BY <1>1, <1>4, <1>5, <1>6

LEMMA SortedLists ==
  ASSUME NEW S, IsFiniteSet(S), NEW R, StrictOrder(S, R)
  PROVE  Lists(Sorted(S, R), S, R)
<1> DEFINE N == Cardinality(S)
           rank == [x \in S |-> Cardinality(Below(S, R, x))]
           seq == Sorted(S, R)
<1>1. N \in Nat
  BY FS_CardinalityType
<1>2. rank \in [S -> 0..(N - 1)]
  BY BelowGrows
<1>3. \A x, z \in S : <<x, z>> \in R => rank[x] < rank[z]
  BY BelowGrows
<1> HIDE DEF rank
<1>4. \A x \in S : rank[x] \in Int
  BY <1>1, <1>2
<1>5. \A x, z \in S : rank[x] = rank[z] => x = z
  <2> SUFFICES ASSUME NEW x \in S, NEW z \in S, rank[x] = rank[z]
               PROVE  x = z
    OBVIOUS
  <2>1. rank[x] \in Int /\ rank[z] \in Int
    BY <1>4
  <2>2. ~(rank[x] < rank[z]) /\ ~(rank[z] < rank[x])
    BY <2>1
  <2> QED
    BY <1>3, <2>2 DEF StrictOrder
<1>6. rank \in Injection(S, 0..(N - 1))
  BY <1>2, <1>5 DEF Injection, IsInjective
<1>7. IsFiniteSet(0..(N - 1)) /\ Cardinality(0..(N - 1)) = N
  BY <1>1, FS_Interval
<1>8. rank \in Surjection(S, 0..(N - 1))
  BY <1>6, <1>7, FS_Injection
<1>9. \A i \in 0..(N - 1) : \E x \in S : rank[x] = i
  BY <1>8 DEF Surjection
<1>10. seq = [n \in 1..N |-> CHOOSE x \in S : Cardinality(Below(S, R, x)) = n - 1]
  BY DEF Sorted
<1>11. \A n \in 1..N : seq[n] \in S /\ rank[seq[n]] = n - 1
  <2> SUFFICES ASSUME NEW n \in 1..N
               PROVE  seq[n] \in S /\ rank[seq[n]] = n - 1
    OBVIOUS
  <2>1. n - 1 \in 0..(N - 1)
    BY <1>1
  <2>2. \E x \in S : Cardinality(Below(S, R, x)) = n - 1
    BY <1>9, <2>1 DEF rank
  <2>3. seq[n] = CHOOSE x \in S : Cardinality(Below(S, R, x)) = n - 1
    BY <1>10
  <2> HIDE DEF seq
  <2>4. seq[n] \in S /\ Cardinality(Below(S, R, seq[n])) = n - 1
    BY <2>2, <2>3
  <2> QED
    BY <2>4 DEF rank
<1>12. DOMAIN seq = 1..N
  BY <1>10
<1> HIDE DEF seq, N
<1>13. seq = [n \in 1..N |-> seq[n]]
  BY <1>10
<1>14. seq \in Seq(S) /\ Len(seq) = N
  BY <1>1, <1>11, <1>13
<1>15. \A x \in S : \E n \in 1..N : seq[n] = x
  <2> SUFFICES ASSUME NEW x \in S
               PROVE  \E n \in 1..N : seq[n] = x
    OBVIOUS
  <2>1. rank[x] + 1 \in 1..N /\ (rank[x] + 1) - 1 = rank[x]
    BY <1>1, <1>2
  <2> QED
    BY <1>5, <1>11, <2>1
<1>16. Range(seq) = S
  BY <1>11, <1>12, <1>15 DEF Range
<1>17. ASSUME NEW m \in 1..N, NEW n \in 1..N
       PROVE  <<seq[m], seq[n]>> \in R <=> m < n
  <2>1. /\ seq[m] \in S /\ rank[seq[m]] = m - 1
        /\ seq[n] \in S /\ rank[seq[n]] = n - 1
        /\ m \in Int /\ n \in Int
    BY <1>1, <1>11
  <2>2. <<seq[m], seq[n]>> \in R => m < n
    <3>1. <<seq[m], seq[n]>> \in R => m - 1 < n - 1
      BY <1>3, <2>1
    <3> QED
      BY <2>1, <3>1
  <2>3. <<seq[n], seq[m]>> \in R => n < m
    <3>1. <<seq[n], seq[m]>> \in R => n - 1 < m - 1
      BY <1>3, <2>1
    <3> QED
      BY <2>1, <3>1
  <2>4. seq[m] = seq[n] => m = n
    BY <2>1
  <2> QED
    BY <2>1, <2>2, <2>3, <2>4 DEF StrictOrder
<1> QED
  BY <1>12, <1>14, <1>16, <1>17 DEF Lists, seq, N
-----------------------------------------------------------------------------
(* Lists without repetition *)

OnceIn(seq, S) == seq \in Seq(S) /\ IsInjective(seq)

LEMMA ListedOnce ==
  ASSUME NEW S, NEW R, NEW seq, Lists(seq, S, R)
  PROVE  OnceIn(seq, S)
<1>1. \A m, n \in DOMAIN seq : seq[m] = seq[n] => m = n
  <2> SUFFICES ASSUME NEW m \in DOMAIN seq, NEW n \in DOMAIN seq, seq[m] = seq[n]
               PROVE  m = n
    OBVIOUS
  <2>1. m \in Int /\ n \in Int
    BY DEF Lists
  <2>2. m < n <=> n < m
    BY DEF Lists
  <2> QED
    BY <2>1, <2>2
<1> QED
  BY <1>1 DEF OnceIn, Lists, IsInjective

LEMMA OnceInMore ==
  ASSUME NEW S, NEW T, S \subseteq T, NEW seq, OnceIn(seq, S)
  PROVE  OnceIn(seq, T)
BY DEF OnceIn

LEMMA NothingOnce ==
  ASSUME NEW S
  PROVE  OnceIn(<<>>, S)
BY DEF OnceIn, IsInjective

LEMMA CutOnce ==
  ASSUME NEW S, NEW seq, OnceIn(seq, S), NEW k \in Nat
  PROVE  /\ OnceIn(Cut(seq, k), S)
         /\ Len(Cut(seq, k)) = IF Len(seq) < k THEN Len(seq) ELSE k
         /\ \A n \in DOMAIN Cut(seq, k) : n \in DOMAIN seq /\ Cut(seq, k)[n] = seq[n]
<1> DEFINE m == IF Len(seq) < k THEN Len(seq) ELSE k
           cut == Cut(seq, k)
<1>1. seq \in Seq(S) /\ Len(seq) \in Nat /\ DOMAIN seq = 1..Len(seq)
  BY DEF OnceIn
<1>2. m \in Nat /\ m <= Len(seq)
  BY <1>1
<1>3. cut = SubSeq(seq, 1, m)
  BY DEF Cut
<1> HIDE DEF m, cut
<1>4. cut = [i \in 1..m |-> seq[i]]
  BY <1>1, <1>2, <1>3
<1>5. DOMAIN cut = 1..m /\ \A i \in 1..m : i \in DOMAIN seq /\ cut[i] = seq[i] /\ cut[i] \in S
  BY <1>1, <1>2, <1>4
<1>6. cut \in Seq(S) /\ Len(cut) = m
  BY <1>2, <1>4, <1>5
<1>7. IsInjective(cut)
  BY <1>5 DEF OnceIn, IsInjective
<1> QED
  BY <1>5, <1>6, <1>7 DEF OnceIn, cut, m

(* Two numbers and a number that no two elements share order a set. *)
Before(first, second, tie, x, y) ==
  \/ first[x] < first[y]
  \/ first[x] = first[y] /\ second[x] < second[y]
  \/ first[x] = first[y] /\ second[x] = second[y] /\ tie[x] < tie[y]

LEMMA KeysOrder ==
  ASSUME NEW S, NEW R, NEW first, NEW second, NEW tie,
         \A x \in S : first[x] \in Int /\ second[x] \in Int /\ tie[x] \in Int,
         \A x, y \in S : tie[x] = tie[y] => x = y,
         \A x, y \in S : <<x, y>> \in R <=> Before(first, second, tie, x, y)
  PROVE  StrictOrder(S, R)
<1>1. ASSUME NEW x \in S
      PROVE  <<x, x>> \notin R
  BY DEF Before
<1>2. ASSUME NEW x \in S, NEW y \in S, NEW z \in S, <<x, y>> \in R, <<y, z>> \in R
      PROVE  <<x, z>> \in R
  <2>1. Before(first, second, tie, x, y) /\ Before(first, second, tie, y, z)
    BY <1>2
  <2>2. /\ first[x] \in Int /\ second[x] \in Int /\ tie[x] \in Int
        /\ first[y] \in Int /\ second[y] \in Int /\ tie[y] \in Int
        /\ first[z] \in Int /\ second[z] \in Int /\ tie[z] \in Int
    OBVIOUS
  <2>3. Before(first, second, tie, x, z)
    BY <2>1, <2>2 DEF Before
  <2> QED
    BY <2>3
<1>3. ASSUME NEW x \in S, NEW y \in S
      PROVE  x = y \/ <<x, y>> \in R \/ <<y, x>> \in R
  <2>1. /\ first[x] \in Int /\ second[x] \in Int /\ tie[x] \in Int
        /\ first[y] \in Int /\ second[y] \in Int /\ tie[y] \in Int
    OBVIOUS
  <2>2. tie[x] = tie[y] \/ Before(first, second, tie, x, y) \/ Before(first, second, tie, y, x)
    BY <2>1 DEF Before
  <2> QED
    BY <2>2
<1> QED
  BY <1>1, <1>2, <1>3 DEF StrictOrder

(* ORDER BY a number, then by id. *)
KeyOrder(S, key) == {p \in S \X S : key[p[1]] < key[p[2]]
                                    \/ (key[p[1]] = key[p[2]] /\ p[1] < p[2])}

LEMMA OrderedLists ==
  ASSUME NEW S \in SUBSET Nat, IsFiniteSet(S), NEW key, \A x \in S : key[x] \in Int
  PROVE  Lists(Ordered(S, key), S, KeyOrder(S, key))
<1>1. StrictOrder(S, KeyOrder(S, key))
  <2> DEFINE zero == [x \in S |-> 0]  id == [x \in S |-> x]
             R == KeyOrder(S, key)
  <2>1. \A x, y \in S : <<x, y>> \in R <=> Before(key, zero, id, x, y)
    BY DEF KeyOrder, Before
  <2>2. \A x \in S : zero[x] \in Int /\ id[x] \in Int
    OBVIOUS
  <2>3. \A x, y \in S : id[x] = id[y] => x = y
    OBVIOUS
  <2> HIDE DEF R, zero, id
  <2>4. StrictOrder(S, R)
    BY <2>1, <2>2, <2>3, KeysOrder
  <2> QED
    BY <2>4 DEF R
<1>2. Ordered(S, key) = Sorted(S, KeyOrder(S, key))
  BY DEF Ordered, InOrder, KeyOrder
<1> QED
  BY <1>1, <1>2, SortedLists

(* The place of an element in a list. *)
LEMMA RankOf ==
  ASSUME NEW seq, NEW x \in Range(seq)
  PROVE  RankIn(seq, x) \in DOMAIN seq /\ seq[RankIn(seq, x)] = x
<1>1. \E n \in DOMAIN seq : seq[n] = x
  BY DEF Range
<1> QED
  BY <1>1 DEF RankIn

PlaceOrder(seq, T) ==
  {p \in T \X T : RankIn(seq, p[1]) < RankIn(seq, p[2])}

LEMMA OnlyLists ==
  ASSUME NEW X, NEW seq \in Seq(X), NEW T
  PROVE  Lists(Only(seq, T), Range(seq) \cap T, PlaceOrder(seq, Range(seq) \cap T))
<1> DEFINE S == Range(seq) \cap T
           R == PlaceOrder(seq, S)
<1>1. IsFiniteSet(Range(seq))
  <2>1. IsFiniteSet(DOMAIN seq)
    BY FS_Interval
  <2>2. seq \in Surjection(DOMAIN seq, Range(seq))
    <3>1. seq = [i \in 1..Len(seq) |-> seq[i]] /\ DOMAIN seq = 1..Len(seq)
      OBVIOUS
    <3> QED
      BY <3>1 DEF Surjection, Range
  <2> QED
    BY <2>1, <2>2, FS_Surjection
<1>2. IsFiniteSet(S)
  BY <1>1, FS_Subset
<1>3. \A x \in S : RankIn(seq, x) \in Int /\ seq[RankIn(seq, x)] = x
  BY RankOf
<1> HIDE DEF S
<1>4. StrictOrder(S, R)
  <2>1. \A x, y \in S : <<x, y>> \in R <=> RankIn(seq, x) < RankIn(seq, y)
    BY DEF PlaceOrder
  <2> HIDE DEF R
  <2>2. \A x, y \in S : x = y \/ RankIn(seq, x) < RankIn(seq, y) \/ RankIn(seq, y) < RankIn(seq, x)
    BY <1>3
  <2> QED
    BY <1>3, <2>1, <2>2 DEF StrictOrder
<1>5. Only(seq, T) = Sorted(S, R)
  BY DEF Only, InOrder, PlaceOrder, S
<1>6. Lists(Only(seq, T), S, R)
  BY <1>2, <1>4, <1>5, SortedLists
<1> QED
  BY <1>6 DEF S
-----------------------------------------------------------------------------
(* What each search returns *)

LEMMA AllowedChunks ==
  ASSUME NEW i \in Indexes, NEW filter
  PROVE  /\ Allowed(i, filter) \subseteq Chunks /\ IsFiniteSet(Allowed(i, filter))
         /\ \A c \in Allowed(i, filter) : c \in Public(i) /\ c \in Stored(i)
<1>1. Stored(i) \subseteq Chunks
  BY IndexesAssumption DEF Stored
<1>2. Allowed(i, filter) \subseteq Chunks
  BY <1>1 DEF Allowed, Public
<1> QED
  BY <1>2, ChunksAssumption, FS_Subset DEF Allowed, Public

LEMMA FewRows ==
  ASSUME NEW i \in Indexes
  PROVE  IsFiniteSet(DOMAIN i.rows)
<1> DEFINE f == [r \in DOMAIN i.rows |-> i.rows[r]]
<1>1. f \in Injection(DOMAIN i.rows, Chunks)
  BY IndexesAssumption DEF Injection, IsInjective
<1> QED
  BY <1>1, ChunksAssumption, FS_Injection

LEMMA LexicalFinds ==
  ASSUME index \in Indexes, NEW filter, NEW k \in Nat
  PROVE  OnceIn(LexicalSearch(filter, k), Allowed(index, filter))
<1> DEFINE S == {c \in Allowed(index, filter) : Bm25[c] > 0}
<1>1. S \subseteq Allowed(index, filter) /\ S \in SUBSET Nat /\ \A c \in S : Bm25[c] \in Int
  BY AllowedChunks, ChunksAssumption
<1>2. IsFiniteSet(S)
  BY <1>1, AllowedChunks, FS_Subset
<1> HIDE DEF S
<1>3. OnceIn(Ordered(S, Bm25), S)
  BY <1>1, <1>2, OrderedLists, ListedOnce
<1>4. OnceIn(Cut(Ordered(S, Bm25), k), Allowed(index, filter))
  BY <1>1, <1>3, CutOnce, OnceInMore
<1> QED
  BY <1>4 DEF LexicalSearch, S

(* The candidates that are still allowed, in the order of their distances. *)
RowsLeft(filter) ==
  {r \in DOMAIN candidates \cap DOMAIN index.rows : index.rows[r] \in Allowed(index, filter)}

RowOrder(S) ==
  {p \in S \X S : \/ candidates[p[1]] < candidates[p[2]]
                  \/ candidates[p[1]] = candidates[p[2]] /\ index.rows[p[1]] < index.rows[p[2]]}

LEMMA HydratedFinds ==
  ASSUME index \in Indexes, NEW filter, \A r \in DOMAIN candidates : candidates[r] \in Int
  PROVE  /\ OnceIn(Hydrated(filter), Allowed(index, filter))
         /\ \E rows : /\ Lists(rows, RowsLeft(filter), RowOrder(RowsLeft(filter)))
                      /\ Hydrated(filter) = [n \in DOMAIN rows |-> index.rows[rows[n]]]
<1> DEFINE S == RowsLeft(filter)
           R == RowOrder(S)
           rows == Sorted(S, R)
           found == Hydrated(filter)
<1>1. \A r \in S : r \in DOMAIN candidates /\ r \in DOMAIN index.rows
                   /\ index.rows[r] \in Allowed(index, filter)
  BY DEF RowsLeft
<1>2. IsFiniteSet(S)
  <2>1. S \in SUBSET DOMAIN index.rows
    BY <1>1
  <2> QED
    BY <2>1, FewRows, FS_Subset
<1>3. \A r, o \in S : index.rows[r] = index.rows[o] => r = o
  BY <1>1, IndexesAssumption
<1>4. ASSUME NEW r \in S
      PROVE  candidates[r] \in Int /\ index.rows[r] \in Int
  <2>1. index.rows[r] \in Chunks /\ r \in DOMAIN candidates
    BY <1>1, IndexesAssumption
  <2> HIDE DEF S
  <2>2. \A c \in Chunks : c \in Int
    BY ChunksAssumption
  <2> QED
    BY <2>1, <2>2
<1> HIDE DEF S
<1>5. StrictOrder(S, R)
  <2> DEFINE zero == [r \in S |-> 0]  chunk == [r \in S |-> index.rows[r]]
  <2>1. \A r, o \in S : <<r, o>> \in R <=> Before(candidates, zero, chunk, r, o)
    BY DEF RowOrder, Before
  <2>2. \A r \in S : candidates[r] \in Int /\ zero[r] \in Int /\ chunk[r] \in Int
    BY <1>4
  <2>3. \A r, o \in S : chunk[r] = chunk[o] => r = o
    BY <1>3
  <2> HIDE DEF R, zero, chunk
  <2> QED
    BY <2>1, <2>2, <2>3, KeysOrder
<1>6. Lists(rows, S, R)
  BY <1>2, <1>5, SortedLists
<1>7. found = [n \in DOMAIN rows |-> index.rows[rows[n]]]
  BY DEF Hydrated, InOrder, RowsLeft, RowOrder, S
<1> HIDE DEF R, rows, found
<1>8. OnceIn(rows, S) /\ rows \in Seq(S) /\ DOMAIN rows = 1..Len(rows) /\ Len(rows) \in Nat
  BY <1>6, ListedOnce DEF OnceIn
<1>9. \A n \in DOMAIN rows : rows[n] \in S
  BY <1>8
<1>10. found \in Seq(Allowed(index, filter))
  BY <1>1, <1>7, <1>8, <1>9
<1>11. IsInjective(found)
  <2>1. DOMAIN found = DOMAIN rows /\ \A n \in DOMAIN rows : found[n] = index.rows[rows[n]]
    BY <1>7
  <2> QED
    BY <1>3, <1>8, <1>9, <2>1 DEF OnceIn, IsInjective
<1> QED
  BY <1>6, <1>7, <1>10, <1>11 DEF OnceIn, S, R, found
-----------------------------------------------------------------------------
(* Fusion and reranking *)

LEMMA LeastOf ==
  ASSUME NEW S, S \subseteq Nat, S # {}
  PROVE  Min(S) \in S /\ \A n \in S : Min(S) <= n
<1>1. PICK n \in S : \A m \in S : n <= m
  BY LeastNat
<1> QED
  BY <1>1 DEF Min

LEMMA FiniteRange ==
  ASSUME NEW X, NEW seq \in Seq(X)
  PROVE  IsFiniteSet(DOMAIN seq) /\ IsFiniteSet(Range(seq))
<1>1. IsFiniteSet(DOMAIN seq)
  BY FS_Interval
<1>2. seq \in Surjection(DOMAIN seq, Range(seq))
  <2>1. seq = [i \in 1..Len(seq) |-> seq[i]] /\ DOMAIN seq = 1..Len(seq)
    OBVIOUS
  <2> QED
    BY <2>1 DEF Surjection, Range
<1> QED
  BY <1>1, <1>2, FS_Surjection

\* ranked is a tuple of lists, each of elements of S without repetition
Ranked(ranked, S) ==
  IsFiniteSet(DOMAIN ranked) /\ \A n \in DOMAIN ranked : OnceIn(ranked[n], S)

Points(ranked, c) == [n \in ListsOf(ranked, c) |-> Unit \div (RrfK + RankIn(ranked[n], c))]

LEMMA PointsType ==
  ASSUME NEW S, NEW ranked, Ranked(ranked, S), NEW c, NEW n \in ListsOf(ranked, c)
  PROVE  /\ n \in DOMAIN ranked /\ RankIn(ranked[n], c) \in Nat /\ RankIn(ranked[n], c) >= 1
         /\ RankIn(ranked[n], c) \in DOMAIN ranked[n] /\ ranked[n][RankIn(ranked[n], c)] = c
         /\ Points(ranked, c)[n] \in Nat
<1>1. n \in DOMAIN ranked /\ c \in Range(ranked[n]) /\ ranked[n] \in Seq(S)
  BY DEF ListsOf, Ranked, OnceIn
<1> DEFINE r == RankIn(ranked[n], c)
<1>2. r \in DOMAIN ranked[n] /\ ranked[n][r] = c
  BY <1>1, RankOf
<1>3. r \in Nat /\ r >= 1
  BY <1>1, <1>2
<1> HIDE DEF r
<1>4. Unit \in Nat /\ RrfK \in Nat
  BY LimitsAssumption
<1>5. RrfK + r \in Nat /\ RrfK + r > 0
  BY <1>3, <1>4
<1>6. Unit \div (RrfK + r) \in Nat
  BY <1>4, <1>5
<1> QED
  BY <1>1, <1>2, <1>3, <1>6 DEF Points, r

LEMMA FoundLists ==
  ASSUME NEW S, NEW ranked, Ranked(ranked, S)
  PROVE  /\ IsFiniteSet(FoundIn(ranked)) /\ FoundIn(ranked) \subseteq S
         /\ \A c \in FoundIn(ranked) :
              /\ IsFiniteSet(ListsOf(ranked, c)) /\ ListsOf(ranked, c) # {}
              /\ RrfScore(ranked, c) \in Nat /\ BestRank(ranked, c) \in Nat
<1>1. \A n \in DOMAIN ranked : IsFiniteSet(Range(ranked[n])) /\ Range(ranked[n]) \subseteq S
  <2> SUFFICES ASSUME NEW n \in DOMAIN ranked
               PROVE  IsFiniteSet(Range(ranked[n])) /\ Range(ranked[n]) \subseteq S
    OBVIOUS
  <2>1. ranked[n] \in Seq(S)
    BY DEF Ranked, OnceIn
  <2>2. Range(ranked[n]) \subseteq S
    BY <2>1 DEF Range
  <2> QED
    BY <2>1, <2>2, FiniteRange
<1>2. IsFiniteSet(FoundIn(ranked)) /\ FoundIn(ranked) \subseteq S
  <2> DEFINE parts == {Range(ranked[n]) : n \in DOMAIN ranked}
             range == [n \in DOMAIN ranked |-> Range(ranked[n])]
  <2>1. range \in Surjection(DOMAIN ranked, parts)
    BY DEF Surjection
  <2>2. IsFiniteSet(parts)
    <3> HIDE DEF range, parts
    <3> QED
      BY <2>1, FS_Surjection DEF Ranked
  <2>3. \A part \in parts : IsFiniteSet(part)
    BY <1>1
  <2>4. FoundIn(ranked) = UNION parts
    BY DEF FoundIn
  <2>5. IsFiniteSet(UNION parts)
    <3> HIDE DEF parts
    <3> QED
      BY <2>2, <2>3, FS_UNION
  <2> QED
    BY <1>1, <2>4, <2>5
<1>3. ASSUME NEW c \in FoundIn(ranked)
      PROVE  /\ IsFiniteSet(ListsOf(ranked, c)) /\ ListsOf(ranked, c) # {}
             /\ RrfScore(ranked, c) \in Nat /\ BestRank(ranked, c) \in Nat
  <2> DEFINE T == ListsOf(ranked, c)
  <2>1. IsFiniteSet(T)
    BY FS_Subset DEF ListsOf, Ranked
  <2>2. T # {}
    BY DEF ListsOf, FoundIn
  <2>3. \A n \in T : Points(ranked, c)[n] \in Nat
    BY PointsType
  <2>4. RrfScore(ranked, c) = SumFunctionOnSet(Points(ranked, c), T)
    BY DEF RrfScore, Points
  <2> HIDE DEF T
  <2>5. SumFunctionOnSet(Points(ranked, c), T) \in Nat
    BY <2>1, <2>3, SumIsNat
  <2> DEFINE ranks == {RankIn(ranked[n], c) : n \in T}
  <2>6. ranks \subseteq Nat
    BY PointsType DEF T
  <2>7. ranks # {}
    BY <2>2
  <2>8. BestRank(ranked, c) = Min(ranks)
    BY DEF BestRank, T
  <2> HIDE DEF ranks
  <2>9. Min(ranks) \in Nat
    BY <2>6, <2>7, LeastOf
  <2> QED
    BY <2>1, <2>2, <2>4, <2>5, <2>8, <2>9 DEF T
<1> QED
  BY <1>2, <1>3

FusionOrder(ranked) ==
  {p \in FoundIn(ranked) \X FoundIn(ranked) :
     \/ RrfScore(ranked, p[1]) > RrfScore(ranked, p[2])
     \/ RrfScore(ranked, p[1]) = RrfScore(ranked, p[2])
        /\ BestRank(ranked, p[1]) < BestRank(ranked, p[2])
     \/ RrfScore(ranked, p[1]) = RrfScore(ranked, p[2])
        /\ BestRank(ranked, p[1]) = BestRank(ranked, p[2]) /\ p[1] < p[2]}

LEMMA FusedLists ==
  ASSUME NEW S \in SUBSET Nat, NEW ranked, Ranked(ranked, S)
  PROVE  Lists(Fused(ranked), FoundIn(ranked), FusionOrder(ranked))
<1> DEFINE T == FoundIn(ranked)
           R == FusionOrder(ranked)
           first == [c \in T |-> 0 - RrfScore(ranked, c)]
           second == [c \in T |-> BestRank(ranked, c)]
           id == [c \in T |-> c]
<1>1. IsFiniteSet(T) /\ T \subseteq S
  BY FoundLists
<1>2. \A c \in T : RrfScore(ranked, c) \in Nat /\ BestRank(ranked, c) \in Nat
  BY FoundLists
<1>3. \A x, y \in T : <<x, y>> \in R <=> Before(first, second, id, x, y)
  <2> SUFFICES ASSUME NEW x \in T, NEW y \in T
               PROVE  <<x, y>> \in R <=> Before(first, second, id, x, y)
    OBVIOUS
  <2>1. /\ RrfScore(ranked, x) \in Int /\ RrfScore(ranked, y) \in Int
        /\ BestRank(ranked, x) \in Int /\ BestRank(ranked, y) \in Int
    BY <1>2
  <2>2. <<x, y>> \in R <=>
          \/ RrfScore(ranked, x) > RrfScore(ranked, y)
          \/ RrfScore(ranked, x) = RrfScore(ranked, y)
             /\ BestRank(ranked, x) < BestRank(ranked, y)
          \/ RrfScore(ranked, x) = RrfScore(ranked, y)
             /\ BestRank(ranked, x) = BestRank(ranked, y) /\ x < y
    BY DEF FusionOrder
  <2>3. /\ first[x] = 0 - RrfScore(ranked, x) /\ first[y] = 0 - RrfScore(ranked, y)
        /\ second[x] = BestRank(ranked, x) /\ second[y] = BestRank(ranked, y)
        /\ id[x] = x /\ id[y] = y
    OBVIOUS
  <2> HIDE DEF R, T, first, second, id
  <2> QED
    BY <2>1, <2>2, <2>3 DEF Before
<1>4. ASSUME NEW x \in T
      PROVE  first[x] \in Int /\ second[x] \in Int /\ id[x] \in Int
  <2>1. RrfScore(ranked, x) \in Nat /\ BestRank(ranked, x) \in Nat /\ x \in Nat
    BY <1>1, <1>2
  <2>2. /\ first[x] = 0 - RrfScore(ranked, x) /\ second[x] = BestRank(ranked, x)
        /\ id[x] = x
    OBVIOUS
  <2> HIDE DEF T, first, second, id
  <2> QED
    BY <2>1, <2>2
<1>5. \A x, y \in T : id[x] = id[y] => x = y
  OBVIOUS
<1>6. Fused(ranked) = Sorted(T, R)
  BY DEF Fused, InOrder, FusionOrder
<1> HIDE DEF T, R, first, second, id
<1>7. StrictOrder(T, R)
  BY <1>3, <1>4, <1>5, KeysOrder
<1>8. Lists(Fused(ranked), T, R)
  BY <1>1, <1>6, <1>7, SortedLists
<1> QED
  BY <1>8 DEF T, R

LEMMA FusedOnce ==
  ASSUME NEW S \in SUBSET Nat, NEW ranked, Ranked(ranked, S)
  PROVE  OnceIn(Fused(ranked), S)
BY FusedLists, FoundLists, ListedOnce, OnceInMore

LEMMA RankedLists ==
  ASSUME NEW S, NEW a, NEW b, NEW c, OnceIn(a, S), OnceIn(b, S), OnceIn(c, S)
  PROVE  Ranked(<<a, b>>, S) /\ Ranked(<<a, b, c>>, S)
<1>1. DOMAIN <<a, b>> = 1..2 /\ DOMAIN <<a, b, c>> = 1..3
  OBVIOUS
<1>2. IsFiniteSet(1..2) /\ IsFiniteSet(1..3)
  <2>1. 1 \in Int /\ 2 \in Int /\ 3 \in Int
    OBVIOUS
  <2>2. \A n \in Int : IsFiniteSet(1..n)
    BY FS_Interval
  <2> QED
    BY <2>1, <2>2
<1>3. ASSUME NEW n \in 1..2
      PROVE  OnceIn(<<a, b>>[n], S)
  <2>1. (n = 1 /\ <<a, b>>[n] = a) \/ (n = 2 /\ <<a, b>>[n] = b)
    OBVIOUS
  <2> QED
    BY <2>1
<1>4. ASSUME NEW n \in 1..3
      PROVE  OnceIn(<<a, b, c>>[n], S)
  <2>1. \/ n = 1 /\ <<a, b, c>>[n] = a
        \/ n = 2 /\ <<a, b, c>>[n] = b
        \/ n = 3 /\ <<a, b, c>>[n] = c
    OBVIOUS
  <2> QED
    BY <2>1
<1> QED
  BY <1>1, <1>2, <1>3, <1>4 DEF Ranked

LEMMA RerankedOnce ==
  ASSUME NEW S \in SUBSET Chunks, NEW found, OnceIn(found, S)
  PROVE  OnceIn(Reranked(found), S)
<1> DEFINE T == Range(found)
           R == {p \in T \X T :
                   \/ RerankScore[p[1]] > RerankScore[p[2]]
                   \/ RerankScore[p[1]] = RerankScore[p[2]]
                      /\ RankIn(found, p[1]) < RankIn(found, p[2])}
           first == [c \in T |-> 0 - RerankScore[c]]
           zero == [c \in T |-> 0]
           rank == [c \in T |-> RankIn(found, c)]
<1>0. found \in Seq(S)
  BY DEF OnceIn
<1>1. IsFiniteSet(T) /\ T \subseteq S
  <2>1. T \subseteq S
    BY <1>0 DEF Range
  <2> QED
    BY <1>0, <2>1, FiniteRange
<1>2. \A c \in T : RerankScore[c] \in Int
  BY <1>1, ChunksAssumption
<1>3. \A c \in T : RankIn(found, c) \in Int /\ found[RankIn(found, c)] = c
  BY RankOf DEF OnceIn
<1>4. \A x, y \in T : <<x, y>> \in R <=> Before(first, zero, rank, x, y)
  <2> SUFFICES ASSUME NEW x \in T, NEW y \in T
               PROVE  <<x, y>> \in R <=> Before(first, zero, rank, x, y)
    OBVIOUS
  <2>1. RerankScore[x] \in Int /\ RerankScore[y] \in Int
    BY <1>2
  <2>2. <<x, y>> \in R <=> \/ RerankScore[x] > RerankScore[y]
                           \/ RerankScore[x] = RerankScore[y]
                              /\ RankIn(found, x) < RankIn(found, y)
    OBVIOUS
  <2>3. /\ first[x] = 0 - RerankScore[x] /\ first[y] = 0 - RerankScore[y]
        /\ zero[x] = 0 /\ zero[y] = 0
        /\ rank[x] = RankIn(found, x) /\ rank[y] = RankIn(found, y)
    OBVIOUS
  <2> HIDE DEF R, T, first, zero, rank
  <2> QED
    BY <2>1, <2>2, <2>3 DEF Before
<1>5. \A x \in T : first[x] \in Int /\ zero[x] \in Int /\ rank[x] \in Int
  BY <1>2, <1>3
<1>6. \A x, y \in T : rank[x] = rank[y] => x = y
  BY <1>3
<1>7. Reranked(found) = Sorted(T, R)
  BY DEF Reranked, InOrder
<1> HIDE DEF T, R, first, zero, rank
<1>8. StrictOrder(T, R)
  BY <1>4, <1>5, <1>6, KeysOrder
<1> QED
  BY <1>1, <1>7, <1>8, SortedLists, ListedOnce, OnceInMore
-----------------------------------------------------------------------------
(* The hierarchical descent *)

\* a list that keeps to the ids a filter names, if it names any
Keeps(seq, wanted) == wanted = {} \/ (seq # <<>> /\ Range(seq) \subseteq wanted)

LEMMA ScopeAllows ==
  ASSUME NEW X, NEW docs \in Seq(X), NEW sections \in Seq(X), NEW filter,
         Keeps(docs, filter.docs), Keeps(sections, filter.sections)
  PROVE  Allowed(index, Scope(docs, sections)) \subseteq Allowed(index, filter)
<1>1. \A seq \in Seq(X) : seq # <<>> => Range(seq) # {}
  <2> SUFFICES ASSUME NEW seq \in Seq(X), seq # <<>>
               PROVE  Range(seq) # {}
    OBVIOUS
  <2>1. 1 \in DOMAIN seq
    OBVIOUS
  <2> QED
    BY <2>1 DEF Range
<1>2. ASSUME NEW c, Allows(Scope(docs, sections), c)
      PROVE  Allows(filter, c)
  <2>1. /\ Range(docs) = {} \/ DocOf[c] \in Range(docs)
        /\ Range(sections) = {} \/ SectionOf[c] \in Range(sections)
    BY <1>2 DEF Allows, Scope
  <2>2. filter.docs = {} \/ DocOf[c] \in filter.docs
    BY <1>1, <2>1 DEF Keeps
  <2>3. filter.sections = {} \/ SectionOf[c] \in filter.sections
    BY <1>1, <2>1 DEF Keeps
  <2> QED
    BY <2>2, <2>3 DEF Allows
<1> QED
  BY <1>2 DEF Allowed

LEMMA SearchedIds ==
  ASSUME NEW S, IsFiniteSet(S), NEW of, \A c \in S : of[c] \in Nat,
         NEW key, \A c \in S : key[of[c]] \in Int,
         NEW T, T \subseteq {of[c] : c \in S}, NEW k \in Nat
  PROVE  OnceIn(Cut(Ordered(T, key), k), T) /\ T \subseteq Nat
<1> DEFINE U == {of[c] : c \in S}
           f == [c \in S |-> of[c]]
<1>1. f \in Surjection(S, U)
  BY DEF Surjection
<1>2. IsFiniteSet(U)
  <2> HIDE DEF f, U
  <2> QED
    BY <1>1, FS_Surjection
<1>3. IsFiniteSet(T) /\ T \in SUBSET Nat
  <2>1. T \subseteq U /\ U \subseteq Nat
    OBVIOUS
  <2> HIDE DEF U
  <2> QED
    BY <1>2, <2>1, FS_Subset
<1>4. \A x \in T : key[x] \in Int
  OBVIOUS
<1>5. OnceIn(Ordered(T, key), T)
  BY <1>3, <1>4, OrderedLists, ListedOnce
<1> QED
  BY <1>3, <1>5, CutOnce

LEMMA OnceRange ==
  ASSUME NEW S, NEW seq, OnceIn(seq, S)
  PROVE  Range(seq) \subseteq S
<1>1. seq \in Seq(S)
  BY DEF OnceIn
<1> QED
  BY <1>1 DEF Range

LEMMA DocumentsFound ==
  ASSUME index \in Indexes, NEW wanted
  PROVE  /\ DocumentSearch(wanted) \in Seq(Nat)
         /\ wanted # {} => Range(DocumentSearch(wanted)) \subseteq wanted
<1> DEFINE S == Public(index)
           T == {d \in {DocOf[c] : c \in S} : DocBm25[d] > 0 /\ (wanted = {} \/ d \in wanted)}
<1>1. S \subseteq Chunks /\ IsFiniteSet(S)
  <2>1. S \subseteq Chunks
    BY IndexesAssumption DEF Public, Stored
  <2> QED
    BY <2>1, ChunksAssumption, FS_Subset
<1>2. \A c \in S : DocOf[c] \in Nat /\ DocBm25[DocOf[c]] \in Int
  BY <1>1, ChunksAssumption
<1>3. T \subseteq {DocOf[c] : c \in S} /\ (wanted # {} => T \subseteq wanted)
  OBVIOUS
<1>4. DocumentSearch(wanted) = Cut(Ordered(T, DocBm25), DocCandidates)
  BY DEF DocumentSearch
<1>5. DocCandidates \in Nat
  BY LimitsAssumption
<1> HIDE DEF S, T
<1>6. OnceIn(DocumentSearch(wanted), T) /\ T \subseteq Nat
  BY <1>1, <1>2, <1>3, <1>4, <1>5, SearchedIds
<1>7. Range(DocumentSearch(wanted)) \subseteq T
  BY <1>6, OnceRange
<1>8. OnceIn(DocumentSearch(wanted), Nat)
  BY <1>6, OnceInMore
<1>9. DocumentSearch(wanted) \in Seq(Nat)
  BY <1>8 DEF OnceIn
<1> QED
  BY <1>3, <1>7, <1>9

LEMMA SectionsFound ==
  ASSUME index \in Indexes, NEW docs
  PROVE  SectionSearch(docs) \in Seq(Nat)
<1> DEFINE S == {b \in Public(index) : DocOf[b] \in Range(docs)}
           T == {s \in {SectionOf[c] : c \in S} : SectionBm25[s] > 0}
<1>1. S \subseteq Chunks /\ IsFiniteSet(S)
  <2>1. S \subseteq Chunks
    BY IndexesAssumption DEF Public, Stored
  <2> QED
    BY <2>1, ChunksAssumption, FS_Subset
<1>2. \A c \in S : SectionOf[c] \in Nat /\ SectionBm25[SectionOf[c]] \in Int
  BY <1>1, ChunksAssumption
<1>3. T \subseteq {SectionOf[c] : c \in S}
  OBVIOUS
<1>4. SectionSearch(docs) = Cut(Ordered(T, SectionBm25), SectionCandidates)
  BY DEF SectionSearch
<1>5. SectionCandidates \in Nat
  BY LimitsAssumption
<1> HIDE DEF S, T
<1>6. OnceIn(SectionSearch(docs), T) /\ T \subseteq Nat
  BY <1>1, <1>2, <1>3, <1>4, <1>5, SearchedIds
<1>7. OnceIn(SectionSearch(docs), Nat)
  BY <1>6, OnceInMore
<1> QED
  BY <1>7 DEF OnceIn

\* what is left of a list of ids
LEMMA OnlyKeeps ==
  ASSUME NEW X, NEW seq \in Seq(X), NEW T
  PROVE  /\ Only(seq, T) \in Seq(X) /\ OnceIn(Only(seq, T), Range(seq) \cap T)
         /\ Range(Only(seq, T)) = Range(seq) \cap T
<1>1. Lists(Only(seq, T), Range(seq) \cap T, PlaceOrder(seq, Range(seq) \cap T))
  BY OnlyLists
<1>2. Range(seq) \subseteq X
  BY DEF Range
<1>3. /\ Only(seq, T) \in Seq(Range(seq) \cap T)
      /\ Range(Only(seq, T)) = Range(seq) \cap T
  BY <1>1 DEF Lists
<1>4. OnceIn(Only(seq, T), Range(seq) \cap T)
  BY <1>1, ListedOnce
<1>5. Only(seq, T) \in Seq(X)
  BY <1>2, <1>3
<1> QED
  BY <1>3, <1>4, <1>5
LEMMA OnlyNumbers ==
  ASSUME NEW seq \in Seq(Nat), NEW T
  PROVE  /\ Only(seq, T) \in Seq(Nat) /\ Range(Only(seq, T)) \subseteq T
         /\ Range(Only(seq, T)) \subseteq Range(seq)
<1>1. Range(Only(seq, T)) = Range(seq) \cap T
  BY OnlyKeeps
<1>2. Only(seq, T) \in Seq(Nat)
  BY OnlyKeeps
<1> QED
  BY <1>1, <1>2
-----------------------------------------------------------------------------
(* The graph traversal *)

Walks == [queue : Seq(Nodes \X Nat), visited : SUBSET Nodes, edges : Nat,
          docs : Seq(Nat), sections : Seq(Nat), chunks : Seq(Nat)]

LEMMA NoWalkIsOne == NoWalk \in Walks
BY DEF NoWalk, Walks

LEMMA NodesAreKnown ==
  /\ \A n \in DOMAIN Edges : Edges[n].source \in Nodes /\ Edges[n].target \in Nodes
  /\ \A n \in DOMAIN Mentions : Mentions[n].node \in Nodes /\ Mentions[n] \in Range(Mentions)
<1>1. ASSUME NEW n \in DOMAIN Edges
      PROVE  Edges[n].source \in Nodes /\ Edges[n].target \in Nodes
  <2> DEFINE e == Edges[n]
             ends == {{x.source, x.target} : x \in Range(Edges)}
  <2>1. e \in Range(Edges)
    BY DEF Range
  <2> HIDE DEF e
  <2>2. {e.source, e.target} \in ends
    BY <2>1
  <2>3. e.source \in UNION ends /\ e.target \in UNION ends
    BY <2>2
  <2>4. UNION ends \subseteq Nodes
    BY DEF Nodes
  <2> QED
    BY <2>3, <2>4 DEF e
<1>2. ASSUME NEW n \in DOMAIN Mentions
      PROVE  Mentions[n].node \in Nodes /\ Mentions[n] \in Range(Mentions)
  <2>1. Mentions[n] \in Range(Mentions)
    BY DEF Range
  <2> DEFINE named == {m.node : m \in Range(Mentions)}
  <2>2. Mentions[n].node \in named
    BY <2>1
  <2> DEFINE ends == UNION {{e.source, e.target} : e \in Range(Edges)}
  <2>3. Nodes = ends \cup named
    BY DEF Nodes
  <2> HIDE DEF named, ends
  <2> QED
    BY <2>1, <2>2, <2>3
<1> QED
  BY <1>1, <1>2

LEMMA StartsAreNodes == Starts \in Seq(Nodes)
<1> DEFINE n == Len(Mentions)
           V == [nodes : Seq(Nodes), taken : SUBSET Range(Mentions)]
           base == [nodes |-> <<>>, taken |-> {}]
           Runs(g) == g = [s \in SUBSET DOMAIN Mentions |->
                             IF s = {} THEN base
                             ELSE TakeMention(g[s \ {Max(s)}], Mentions[Max(s)])]
           run == CHOOSE g : Runs(g)
<1>1. n \in Nat /\ DOMAIN Mentions = 1..n
  BY GraphAssumption
<1>2. Starts = run[DOMAIN Mentions].nodes
  BY DEF Starts, FoldLeft, MapThenFoldSet
<1>3. ASSUME NEW v \in V, NEW i \in 1..n
      PROVE  TakeMention(v, Mentions[i]) \in V
  <2>1. Mentions[i].node \in Nodes /\ Mentions[i] \in Range(Mentions)
    BY <1>1, NodesAreKnown
  <2>2. Append(v.nodes, Mentions[i].node) \in Seq(Nodes)
        /\ v.taken \cup {Mentions[i]} \in SUBSET Range(Mentions)
    BY <2>1
  <2> QED
    BY <2>2 DEF TakeMention
<1>4. base \in V
  OBVIOUS
<1>5. \E g : Runs(g)
  <2> DEFINE step == [p \in V \X (1..n) |-> TakeMention(p[1], Mentions[p[2]])]
  <2>1. step \in [V \X (1..n) -> V]
    BY <1>3
  <2>2. \A v \in V, i \in 1..n : step[<<v, i>>] = TakeMention(v, Mentions[i])
    OBVIOUS
  <2> HIDE DEF step, V, n, base
  <2>3. PICK g \in [SUBSET (1..n) -> V] : RunsBack(g, n, base, step)
    BY <1>1, <1>4, <2>1, FoldAlong
  <2>4. ASSUME NEW s \in SUBSET (1..n)
        PROVE  g[s] = IF s = {} THEN base ELSE TakeMention(g[s \ {Max(s)}], Mentions[Max(s)])
    <3>1. CASE s = {}
      BY <2>3, <3>1 DEF RunsBack
    <3>2. CASE s # {}
      <4>1. Max(s) \in 1..n /\ s \ {Max(s)} \in SUBSET (1..n)
        BY <1>1, <3>2, GreatestOf
      <4> QED
        BY <2>2, <2>3, <3>2, <4>1 DEF RunsBack
    <3> QED
      BY <3>1, <3>2
  <2>5. Runs(g)
    BY <1>1, <2>4
  <2> QED
    BY <2>5
<1>6. Runs(run)
  BY <1>5
<1> HIDE DEF run, base
<1>7. \A s \in SUBSET (1..n) :
        run[s] = IF s = {} THEN base ELSE TakeMention(run[s \ {Max(s)}], Mentions[Max(s)])
  BY <1>1, <1>6
<1>8. ASSUME NEW i \in 1..n, run[1..(i - 1)] \in V
      PROVE  run[1..i] \in V
  <2>1. Max(1..i) = i /\ (1..i) \ {i} = 1..(i - 1) /\ 1..i \in SUBSET (1..n) /\ 1..i # {}
    BY <1>1, PrefixEnds
  <2>2. run[1..i] = TakeMention(run[1..(i - 1)], Mentions[i])
    BY <1>7, <2>1
  <2> QED
    BY <1>3, <1>8, <2>2
<1>9. run[{}] \in V
  BY <1>4, <1>7
<1> HIDE DEF V
<1>10. run[1..n] \in V
  BY <1>1, <1>8, <1>9, RunEnds
<1> QED
  BY <1>1, <1>2, <1>10 DEF V

LEMMA QueueChanged ==
  ASSUME NEW w \in Walks, NEW queue \in Seq(Nodes \X Nat)
  PROVE  /\ [w EXCEPT !.queue = queue] \in Walks
         /\ \A seen \in SUBSET Nodes : [w EXCEPT !.queue = queue, !.visited = seen] \in Walks
<1> DEFINE N == Seq(Nat)
<1>1. w \in [queue : Seq(Nodes \X Nat), visited : SUBSET Nodes, edges : Nat,
             docs : N, sections : N, chunks : N]
  BY DEF Walks
<1> HIDE DEF N
<1> DEFINE All == [queue : Seq(Nodes \X Nat), visited : SUBSET Nodes, edges : Nat,
                   docs : N, sections : N, chunks : N]
<1>2. [w EXCEPT !.queue = queue] \in All
  BY <1>1
<1>3. ASSUME NEW seen \in SUBSET Nodes
      PROVE  [w EXCEPT !.queue = queue, !.visited = seen] \in All
  BY <1>1
<1> QED
  BY <1>2, <1>3 DEF Walks, N

LEMMA VisitWalks ==
  ASSUME NEW w \in Walks, NEW node, NEW hop \in Nat, NEW n \in DOMAIN Edges
  PROVE  Visit(w, node, hop, Edges[n]) \in Walks
<1> DEFINE edge == Edges[n]
           neighbor == IF edge.source = node THEN edge.target ELSE edge.source
<1>1. neighbor \in Nodes
  BY NodesAreKnown
<1>2. edge.doc \in Nat /\ edge.section \in Nat /\ edge.chunk \in Nat
  BY GraphAssumption
<1> HIDE DEF edge, neighbor
<1>3. ASSUME NEW seq \in Seq(Nat), NEW x \in Nat, NEW most
      PROVE  AddNew(seq, x, most) \in Seq(Nat)
  BY DEF AddNew
<1>4. <<neighbor, hop + 1>> \in Nodes \X Nat
  BY <1>1
<1>5. /\ w.queue \in Seq(Nodes \X Nat) /\ w.visited \in SUBSET Nodes /\ w.edges \in Nat
      /\ w.docs \in Seq(Nat) /\ w.sections \in Seq(Nat) /\ w.chunks \in Seq(Nat)
  BY DEF Walks
<1>6. /\ Append(w.queue, <<neighbor, hop + 1>>) \in Seq(Nodes \X Nat)
      /\ w.visited \cup {neighbor} \in SUBSET Nodes /\ w.edges + 1 \in Nat
  BY <1>1, <1>4, <1>5
<1>7. /\ AddNew(w.docs, edge.doc, MaxDocs) \in Seq(Nat)
      /\ AddNew(w.sections, edge.section, Len(w.sections) + 1) \in Seq(Nat)
      /\ AddNew(w.chunks, edge.chunk, Len(w.chunks) + 1) \in Seq(Nat)
  BY <1>2, <1>3, <1>5
<1>8. [w EXCEPT !.queue = <<>>] \in Walks
  <2>1. <<>> \in Seq(Nodes \X Nat)
    OBVIOUS
  <2> QED
    BY <2>1, QueueChanged
<1> DEFINE new == neighbor \notin w.visited /\ Cardinality(w.visited) < MaxNodes
           next == [queue |-> IF new THEN Append(w.queue, <<neighbor, hop + 1>>) ELSE w.queue,
                    visited |-> IF new THEN w.visited \cup {neighbor} ELSE w.visited,
                    edges |-> w.edges + 1,
                    docs |-> AddNew(w.docs, edge.doc, MaxDocs),
                    sections |-> AddNew(w.sections, edge.section, Len(w.sections) + 1),
                    chunks |-> AddNew(w.chunks, edge.chunk, Len(w.chunks) + 1)]
<1>9. Visit(w, node, hop, edge) =
        IF w.edges = MaxEdges THEN [w EXCEPT !.queue = <<>>] ELSE next
  BY DEF Visit, neighbor
<1>10. next \in Walks
  <2> HIDE DEF new
  <2> QED
    BY <1>5, <1>6, <1>7 DEF Walks
<1> HIDE DEF next
<1> QED
  BY <1>8, <1>9, <1>10 DEF edge

LEMMA NumbersInOrder ==
  ASSUME NEW S \in SUBSET Nat, IsFiniteSet(S)
  PROVE  /\ InOrder(S, LAMBDA m, n : m < n) \in Seq(S)
         /\ Range(InOrder(S, LAMBDA m, n : m < n)) = S
<1> DEFINE R == {p \in S \X S : p[1] < p[2]}
<1>1. StrictOrder(S, R)
  <2>1. \A m, n \in S : <<m, n>> \in R <=> m < n
    OBVIOUS
  <2>2. \A n \in S : n \in Int
    OBVIOUS
  <2> HIDE DEF R
  <2> QED
    BY <2>1, <2>2 DEF StrictOrder
<1>2. InOrder(S, LAMBDA m, n : m < n) = Sorted(S, R)
  BY DEF InOrder
<1> HIDE DEF R
<1>3. Lists(Sorted(S, R), S, R)
  BY <1>1, SortedLists
<1> QED
  BY <1>2, <1>3 DEF Lists

\* the fold of Expand, one edge after the other
Runs(w, node, hop, incident) ==
  \E n \in Nat : \E seq \in [1..n -> incident], run \in [0..n -> Walks] :
    /\ \A x \in incident : \E i \in 1..n : seq[i] = x
    /\ run[0] = w /\ run[n] = Expand(w, node, hop, incident)
    /\ \A i \in 1..n : run[i] = Visit(run[i - 1], node, hop, Edges[seq[i]])

LEMMA ExpandRuns ==
  ASSUME NEW w \in Walks, NEW node, NEW hop \in Nat, NEW incident \in SUBSET DOMAIN Edges
  PROVE  Runs(w, node, hop, incident)
<1> DEFINE seq == InOrder(incident, LAMBDA m, o : m < o)
           n == Len(seq)
           Folds(g) == g = [s \in SUBSET DOMAIN seq |->
                             IF s = {} THEN w
                             ELSE Visit(g[s \ {Max(s)}], node, hop, Edges[seq[Max(s)]])]
           fold == CHOOSE g : Folds(g)
<1>0. seq \in Seq(incident) /\ Range(seq) = incident
  <2>1. DOMAIN Edges = 1..Len(Edges) /\ Len(Edges) \in Nat
    BY GraphAssumption
  <2>2. IsFiniteSet(DOMAIN Edges)
    BY <2>1, FS_Interval
  <2>3. IsFiniteSet(incident) /\ incident \in SUBSET Nat
    BY <2>1, <2>2, FS_Subset
  <2> QED
    BY <2>3, NumbersInOrder
<1>2. Expand(w, node, hop, incident) = fold[DOMAIN seq]
  BY DEF Expand, FoldLeft, MapThenFoldSet
<1> HIDE DEF seq
<1>1. n \in Nat /\ DOMAIN seq = 1..n
  BY <1>0
<1>3. ASSUME NEW v \in Walks, NEW i \in 1..n
      PROVE  Visit(v, node, hop, Edges[seq[i]]) \in Walks
  <2>1. seq[i] \in DOMAIN Edges
    BY <1>0, <1>1
  <2> QED
    BY <2>1, VisitWalks
<1>5. \E g \in [SUBSET (1..n) -> Walks] : Folds(g)
  <2> DEFINE step == [p \in Walks \X (1..n) |-> Visit(p[1], node, hop, Edges[seq[p[2]]])]
  <2>1. step \in [Walks \X (1..n) -> Walks]
    BY <1>3
  <2>2. \A v \in Walks, i \in 1..n : step[<<v, i>>] = Visit(v, node, hop, Edges[seq[i]])
    OBVIOUS
  <2> HIDE DEF step, n
  <2>3. PICK g \in [SUBSET (1..n) -> Walks] : RunsBack(g, n, w, step)
    BY <1>1, <2>1, FoldAlong
  <2>4. ASSUME NEW s \in SUBSET (1..n)
        PROVE  g[s] = IF s = {} THEN w
                      ELSE Visit(g[s \ {Max(s)}], node, hop, Edges[seq[Max(s)]])
    <3>1. CASE s = {}
      BY <2>3, <3>1 DEF RunsBack
    <3>2. CASE s # {}
      <4>1. Max(s) \in 1..n /\ s \ {Max(s)} \in SUBSET (1..n)
        BY <1>1, <3>2, GreatestOf
      <4> QED
        BY <2>2, <2>3, <3>2, <4>1 DEF RunsBack
    <3> QED
      BY <3>1, <3>2
  <2>5. Folds(g)
    BY <1>1, <2>4
  <2> QED
    BY <2>5
<1>6. Folds(fold)
  BY <1>5
<1> HIDE DEF fold
<1>7. \A s \in SUBSET (1..n) :
        fold[s] = IF s = {} THEN w
                  ELSE Visit(fold[s \ {Max(s)}], node, hop, Edges[seq[Max(s)]])
  BY <1>1, <1>6
<1> DEFINE run == [i \in 0..n |-> fold[1..i]]
<1>8. ASSUME NEW i \in 1..n
      PROVE  /\ fold[1..i] = Visit(fold[1..(i - 1)], node, hop, Edges[seq[i]])
             /\ i - 1 \in 0..n
  <2>1. Max(1..i) = i /\ (1..i) \ {i} = 1..(i - 1) /\ 1..i \in SUBSET (1..n) /\ 1..i # {}
    BY <1>1, PrefixEnds
  <2>2. fold[1..i] = Visit(fold[1..(i - 1)], node, hop, Edges[seq[i]])
    BY <1>7, <2>1
  <2>3. i - 1 \in 0..n
    BY <1>1
  <2> QED
    BY <2>2, <2>3
<1>9. fold[1..0] = w
  <2>1. 1..0 = {} /\ {} \in SUBSET (1..n)
    OBVIOUS
  <2> QED
    BY <1>7, <2>1
<1>10. ASSUME NEW k \in 0..n
       PROVE  fold[1..k] \in Walks
  <2> DEFINE V == Walks
  <2>1. fold[{}] \in V
    <3>1. 1..0 = {}
      OBVIOUS
    <3> QED
      BY <1>9, <3>1
  <2>2. \A i \in 1..k : fold[1..(i - 1)] \in V => fold[1..i] \in V
    BY <1>1, <1>3, <1>8
  <2>3. k \in Nat
    BY <1>1
  <2> HIDE DEF V
  <2>4. fold[1..k] \in V
    BY <2>1, <2>2, <2>3, RunEnds
  <2> QED
    BY <2>4 DEF V
<1> HIDE DEF n
<1>11. run \in [0..n -> Walks]
  BY <1>10
<1>12. run[0] = w /\ run[n] = Expand(w, node, hop, incident)
  BY <1>1, <1>2, <1>9
<1>13. \A i \in 1..n : run[i] = Visit(run[i - 1], node, hop, Edges[seq[i]])
  BY <1>1, <1>8
<1>14. seq \in [1..n -> incident]
  BY <1>0, <1>1
<1>15. \A x \in incident : \E i \in 1..n : seq[i] = x
  BY <1>0, <1>1 DEF Range
<1> HIDE DEF run
<1> QED
  BY <1>1, <1>11, <1>12, <1>13, <1>14, <1>15 DEF Runs

LEMMA ExpandWalks ==
  ASSUME NEW w \in Walks, NEW node, NEW hop \in Nat, NEW incident \in SUBSET DOMAIN Edges
  PROVE  Expand(w, node, hop, incident) \in Walks
<1>1. Runs(w, node, hop, incident)
  BY ExpandRuns
<1>2. PICK n \in Nat : \E seq \in [1..n -> incident], run \in [0..n -> Walks] :
           run[n] = Expand(w, node, hop, incident)
  BY <1>1 DEF Runs
<1> QED
  BY <1>2
-----------------------------------------------------------------------------
(* The steps of a mode *)

VectorSteps == {"validate", "count", "candidates", "hydrate"}
DescentSteps == {"documents", "unscoped", "sections", "scoped"}
GraphSteps == {"resolve", "walk", "chunks", "fill"}

StepsOf(mode) ==
  {"done"} \cup
  CASE mode = "vector" -> VectorSteps \cup {"failed", "cut"}
    [] mode = "lexical" -> {"lexical", "cut"}
    [] mode = "hybrid" -> VectorSteps \cup {"failed", "lexical", "fuse"}
    [] mode = "reranked" -> VectorSteps \cup {"failed", "rerank"}
    [] mode = "hierarchical" -> DescentSteps \cup {"cut"}
    [] mode = "graph" -> GraphSteps \cup {"cut"}
    [] mode = "intelligent" ->
         VectorSteps \cup {"failed", "lexical", "fuse"} \cup DescentSteps \cup GraphSteps
           \cup {"blend"}

StepInv == query \in Queries /\ pc \in StepsOf(query.mode)

LEMMA AllModes ==
  ASSUME NEW q \in Queries
  PROVE  q.mode \in {"vector", "lexical", "hybrid", "reranked", "hierarchical", "graph",
                     "intelligent"} /\ q.k \in Nat /\ q.k > 0
BY ModesAssumption DEF Modes

LEMMA StepsFollow ==
  ASSUME StepInv, [Next]_vars
  PROVE  StepInv'
<1>1. query' = query
  BY DEF Next, vars, Apply, ValidateProfile, CountVectors, ReadCandidates, Hydrate, Lexical, Fuse,
         Blend, Rerank, Return, SearchDocuments, Unscoped, SearchSections, Scoped, Resolve, Walk,
         LookUpChunks, HydrateChunks, Fill, At
<1>2. query.mode \in {"vector", "lexical", "hybrid", "reranked", "hierarchical", "graph",
                      "intelligent"}
  BY AllModes DEF StepInv
<1> USE DEF StepsOf, VectorSteps, DescentSteps, GraphSteps, After
<1>3. CASE Apply \/ UNCHANGED vars
  BY <1>1, <1>3 DEF StepInv, Apply, vars
<1>4. CASE ValidateProfile
  BY <1>1, <1>2, <1>4 DEF StepInv, ValidateProfile, At, Goes
<1>5. CASE CountVectors
  <2>1. pc = "count" /\ (pc' = "candidates" \/ pc' = After("vector", query.mode))
    BY <1>5 DEF CountVectors, At, Goes, Finds
  <2> QED
    BY <1>1, <1>2, <2>1 DEF StepInv
<1>6. CASE ReadCandidates
  BY <1>1, <1>2, <1>6 DEF StepInv, ReadCandidates, At, Goes
<1>7. CASE Hydrate
  <2>1. pc = "hydrate" /\ (pc' = "candidates" \/ pc' = After("vector", query.mode))
    BY <1>7 DEF Hydrate, At, Goes, Finds
  <2> QED
    BY <1>1, <1>2, <2>1 DEF StepInv
<1>8. CASE Lexical
  BY <1>1, <1>2, <1>8 DEF StepInv, Lexical, At, Finds
<1>9. CASE Fuse
  <2>1. pc = "fuse" /\ pc' = After("hybrid", query.mode)
    BY <1>9 DEF Fuse, At, Finds
  <2> QED
    BY <1>1, <1>2, <2>1 DEF StepInv
<1>10. CASE Blend \/ Rerank \/ Return
  <2>1. pc' = "done"
    BY <1>10 DEF Blend, Rerank, Return, Goes
  <2> QED
    BY <1>1, <2>1 DEF StepInv
<1>11. CASE SearchDocuments
  <2>1. pc = "documents" /\ pc' \in {"unscoped", "sections"}
    BY <1>11 DEF SearchDocuments, At, Goes
  <2> QED
    BY <1>1, <1>2, <2>1 DEF StepInv
<1>12. CASE Unscoped \/ Scoped
  <2>1. pc \in {"unscoped", "scoped"} /\ pc' = After("hierarchical", query.mode)
    BY <1>12 DEF Unscoped, Scoped, At, Finds
  <2> QED
    BY <1>1, <1>2, <2>1 DEF StepInv
<1>13. CASE SearchSections
  <2>1. pc = "sections" /\ (pc' = "scoped" \/ pc' = After("hierarchical", query.mode))
    BY <1>13 DEF SearchSections, At, Goes, Finds
  <2> QED
    BY <1>1, <1>2, <2>1 DEF StepInv
<1>14. CASE Resolve
  <2>1. pc = "resolve" /\ (pc' = "walk" \/ pc' = After("graph", query.mode))
    BY <1>14 DEF Resolve, At, Goes, Finds
  <2> QED
    BY <1>1, <1>2, <2>1 DEF StepInv
<1>15. CASE Walk \/ LookUpChunks
  <2>1. pc = "walk" /\ pc' \in {"walk", "chunks"}
    BY <1>15 DEF Walk, LookUpChunks, At, Goes
  <2> QED
    BY <1>1, <1>2, <2>1 DEF StepInv
<1>16. CASE HydrateChunks
  BY <1>1, <1>2, <1>16 DEF StepInv, HydrateChunks, At, Goes
<1>17. CASE Fill
  <2>1. pc = "fill" /\ pc' = After("graph", query.mode)
    BY <1>17 DEF Fill, At, Finds
  <2> QED
    BY <1>1, <1>2, <2>1 DEF StepInv
<1> QED
  BY <1>3, <1>4, <1>5, <1>6, <1>7, <1>8, <1>9, <1>10, <1>11, <1>12, <1>13, <1>14, <1>15, <1>16,
     <1>17 DEF Next
-----------------------------------------------------------------------------
(* The walk, the scope of the descent and the candidates *)

WalkInv ==
  /\ index \in Indexes /\ query \in Queries /\ walk \in Walks
  /\ pc \in {"sections", "scoped"} => Keeps(walk.docs, query.filter.docs)
  /\ pc = "scoped" => Keeps(walk.sections, query.filter.sections)
  /\ pc = "hydrate" => \A r \in DOMAIN candidates : candidates[r] \in Int

\* no retriever is followed by a step of the descent that has a scope, or by a hydration
LEMMA AfterFresh ==
  ASSUME NEW step \in {"vector", "lexical", "hybrid", "hierarchical", "graph"}, NEW mode
  PROVE  After(step, mode) \notin {"sections", "scoped", "hydrate"}
BY DEF After

LEMMA WalkFields ==
  ASSUME NEW w \in Walks, NEW docs \in Seq(Nat), NEW sections \in Seq(Nat)
  PROVE  /\ [w EXCEPT !.docs = docs] \in Walks /\ [w EXCEPT !.docs = docs].docs = docs
         /\ [w EXCEPT !.sections = sections] \in Walks
         /\ [w EXCEPT !.sections = sections].docs = w.docs
         /\ [w EXCEPT !.sections = sections].sections = sections
<1> DEFINE N == Seq(Nat)
           Q == Seq(Nodes \X Nat)
           All == [queue : Q, visited : SUBSET Nodes, edges : Nat, docs : N, sections : N, chunks : N]
<1>1. w \in All /\ docs \in N /\ sections \in N
  BY DEF Walks
<1> HIDE DEF N, Q
<1>2. [w EXCEPT !.docs = docs] \in All /\ [w EXCEPT !.sections = sections] \in All
  BY <1>1
<1>3. /\ [w EXCEPT !.docs = docs].docs = docs
      /\ [w EXCEPT !.sections = sections].docs = w.docs
      /\ [w EXCEPT !.sections = sections].sections = sections
  BY <1>1
<1> QED
  BY <1>2, <1>3 DEF Walks, N, Q

LEMMA WalkKept ==
  ASSUME WalkInv, [Next]_vars
  PROVE  WalkInv'
<1>0. query' = query /\ index' \in Indexes
  <2>1. query' = query
    BY DEF Next, vars, Apply, ValidateProfile, CountVectors, ReadCandidates, Hydrate, Lexical, Fuse,
           Blend, Rerank, Return, SearchDocuments, Unscoped, SearchSections, Scoped, Resolve, Walk,
           LookUpChunks, HydrateChunks, Fill, At
  <2>2. index' = index \/ index' \in Indexes
    BY DEF Next, vars, Apply, ValidateProfile, CountVectors, ReadCandidates, Hydrate, Lexical, Fuse,
           Blend, Rerank, Return, SearchDocuments, Unscoped, SearchSections, Scoped, Resolve, Walk,
           LookUpChunks, HydrateChunks, Fill, At
  <2> QED
    BY <2>1, <2>2 DEF WalkInv
<1>1. CASE UNCHANGED <<pc, walk, candidates>>
  BY <1>0, <1>1 DEF WalkInv
<1>2. CASE /\ UNCHANGED walk \/ walk' = NoWalk
           /\ pc' \notin {"sections", "scoped", "hydrate"}
  BY <1>0, <1>2, NoWalkIsOne DEF WalkInv
<1>3. CASE ValidateProfile \/ CountVectors \/ Hydrate \/ Lexical \/ Fuse \/ Blend \/ Rerank \/ Return
           \/ Unscoped \/ LookUpChunks \/ HydrateChunks
  <2>1. UNCHANGED walk
    BY <1>3 DEF ValidateProfile, CountVectors, Hydrate, Lexical, Fuse, Blend, Rerank, Return,
                Unscoped, LookUpChunks, HydrateChunks
  <2>2. pc' \in {"count", "failed", "candidates", "done", "chunks", "fill"}
        \/ \E step \in {"vector", "lexical", "hybrid", "hierarchical", "graph"} :
             pc' = After(step, query.mode)
    BY <1>3 DEF ValidateProfile, CountVectors, Hydrate, Lexical, Fuse, Blend, Rerank, Return,
                Unscoped, LookUpChunks, HydrateChunks, Goes, Finds
  <2> QED
    BY <1>2, <2>1, <2>2, AfterFresh
<1>4. CASE Scoped \/ Fill
  <2>1. walk' = NoWalk /\ \E step \in {"hierarchical", "graph"} : pc' = After(step, query.mode)
    BY <1>4 DEF Scoped, Fill, Finds
  <2> QED
    BY <1>2, <2>1, AfterFresh
<1>5. CASE ReadCandidates
  <2>1. /\ pc' = "hydrate" /\ walk' = walk
        /\ \E near \in SUBSET DOMAIN index.rows :
             candidates' = [r \in near |-> Distance[index.rows[r]]]
    BY <1>5 DEF ReadCandidates, Goes
  <2>2. PICK near \in SUBSET DOMAIN index.rows :
          candidates' = [r \in near |-> Distance[index.rows[r]]]
    BY <2>1
  <2>3. ASSUME NEW r \in near
        PROVE  candidates'[r] \in Int
    <3>1. index.rows[r] \in Chunks
      BY IndexesAssumption DEF WalkInv
    <3>2. Distance[index.rows[r]] \in Int
      BY <3>1, ChunksAssumption
    <3> QED
      BY <2>2, <3>2
  <2>4. DOMAIN candidates' = near
    BY <2>2
  <2> QED
    BY <1>0, <2>1, <2>3, <2>4 DEF WalkInv
<1>6. CASE SearchDocuments
  <2> DEFINE docs == DocumentSearch(query.filter.docs)
  <2>1. \/ docs = <<>> /\ UNCHANGED walk /\ pc' = "unscoped"
        \/ docs # <<>> /\ pc' = "sections" /\ walk' = [walk EXCEPT !.docs = docs]
    BY <1>6 DEF SearchDocuments, Goes
  <2>2. /\ docs \in Seq(Nat)
        /\ query.filter.docs # {} => Range(docs) \subseteq query.filter.docs
    BY DocumentsFound DEF WalkInv
  <2> HIDE DEF docs
  <2>3. CASE docs # <<>>
    <3>1. Keeps(docs, query.filter.docs)
      BY <2>2, <2>3 DEF Keeps
    <3>2. walk \in Walks /\ walk' = [walk EXCEPT !.docs = docs]
      BY <2>1, <2>3 DEF WalkInv
    <3>3. walk' \in Walks /\ walk'.docs = docs
      BY <2>2, <3>2, WalkFields
    <3> QED
      BY <1>0, <2>1, <2>3, <3>1, <3>3 DEF WalkInv
  <2> QED
    BY <1>2, <2>1, <2>3
<1>7. CASE SearchSections
  <2> DEFINE mine == query.filter.sections
             sections == SectionSearch(walk.docs)
             kept == IF mine = {} THEN sections ELSE Only(sections, mine)
  <2>1. /\ pc = "sections"
        /\ \/ walk' = NoWalk /\ pc' = After("hierarchical", query.mode)
           \/ /\ mine = {} \/ kept # <<>>
              /\ pc' = "scoped" /\ walk' = [walk EXCEPT !.sections = kept]
    BY <1>7 DEF SearchSections, At, Goes, Finds
  <2>2. sections \in Seq(Nat)
    BY SectionsFound DEF WalkInv
  <2>3. kept \in Seq(Nat) /\ (mine # {} => Range(kept) \subseteq mine)
    <3> HIDE DEF sections, mine
    <3>1. Only(sections, mine) \in Seq(Nat) /\ Range(Only(sections, mine)) \subseteq mine
      BY <2>2, OnlyNumbers
    <3> QED
      BY <2>2, <3>1
  <2> HIDE DEF kept, mine
  <2>4. CASE pc' = "scoped" /\ (mine = {} \/ kept # <<>>) /\ walk' = [walk EXCEPT !.sections = kept]
    <3>1. Keeps(kept, mine)
      BY <2>3, <2>4 DEF Keeps
    <3>2. walk \in Walks
      BY DEF WalkInv
    <3>3. walk' \in Walks /\ walk'.docs = walk.docs /\ walk'.sections = kept
      BY <2>3, <2>4, <3>2, WalkFields
    <3>4. Keeps(walk.docs, query.filter.docs)
      BY <2>1 DEF WalkInv
    <3> QED
      BY <1>0, <2>4, <3>1, <3>3, <3>4 DEF WalkInv, mine
  <2> QED
    BY <1>2, <2>1, <2>4, AfterFresh
<1>8. CASE Resolve
  <2>1. \/ UNCHANGED walk /\ pc' = After("graph", query.mode)
        \/ /\ walk' = [NoWalk EXCEPT !.queue = [n \in DOMAIN Starts |-> <<Starts[n], 0>>],
                                     !.visited = Range(Starts)]
           /\ pc' = "walk"
    BY <1>8 DEF Resolve, Finds, Goes
  <2> DEFINE queue == [n \in DOMAIN Starts |-> <<Starts[n], 0>>]
  <2>2. queue \in Seq(Nodes \X Nat) /\ Range(Starts) \in SUBSET Nodes
    <3>1. /\ Len(Starts) \in Nat /\ DOMAIN Starts = 1..Len(Starts)
          /\ \A n \in DOMAIN Starts : Starts[n] \in Nodes
      BY StartsAreNodes
    <3>2. \A n \in DOMAIN Starts : <<Starts[n], 0>> \in Nodes \X Nat
      BY <3>1
    <3> QED
      BY <3>1, <3>2 DEF Range
  <2>3. [NoWalk EXCEPT !.queue = queue, !.visited = Range(Starts)] \in Walks
    <3> DEFINE seen == Range(Starts)
    <3> HIDE DEF queue, seen
    <3>1. seen \in SUBSET Nodes
      BY <2>2 DEF seen
    <3>2. [NoWalk EXCEPT !.queue = queue, !.visited = seen] \in Walks
      BY <2>2, <3>1, NoWalkIsOne, QueueChanged
    <3> QED
      BY <3>2 DEF seen
  <2>4. CASE walk' \in Walks /\ pc' = "walk"
    BY <1>0, <2>4 DEF WalkInv
  <2> QED
    BY <1>2, <2>1, <2>3, <2>4, AfterFresh
<1>9. CASE Walk
  <2> DEFINE node == Head(walk.queue)[1]
             hop == Head(walk.queue)[2]
             rest == [walk EXCEPT !.queue = Tail(@)]
             incident == {n \in EdgesOf(index) : node \in {Edges[n].source, Edges[n].target}}
  <2>1. /\ walk.queue # <<>> /\ pc' = "walk"
        /\ walk' = rest \/ walk' = Expand(rest, node, hop, incident)
    BY <1>9 DEF Walk, Goes
  <2>2. walk \in Walks /\ walk.queue \in Seq(Nodes \X Nat)
    BY DEF WalkInv, Walks
  <2>3. Head(walk.queue) \in Nodes \X Nat /\ Tail(walk.queue) \in Seq(Nodes \X Nat)
    BY <2>1, <2>2
  <2>4. hop \in Nat
    BY <2>3
  <2>5. rest \in Walks
    BY <2>2, <2>3, QueueChanged
  <2>6. incident \in SUBSET DOMAIN Edges
    BY DEF EdgesOf
  <2> HIDE DEF node, hop, rest, incident
  <2>7. walk' \in Walks
    BY <2>1, <2>4, <2>5, <2>6, ExpandWalks
  <2> QED
    BY <1>0, <2>1, <2>7 DEF WalkInv
<1>10. CASE Apply \/ UNCHANGED vars
  BY <1>1, <1>10 DEF Apply, vars
<1> QED
  BY <1>3, <1>4, <1>5, <1>6, <1>7, <1>8, <1>9, <1>10 DEF Next
-----------------------------------------------------------------------------
(* Limits *)

LEMMA GreaterOf ==
  ASSUME NEW m \in Int, NEW n \in Int
  PROVE  /\ Max({m, n}) \in {m, n} /\ Max({m, n}) >= m /\ Max({m, n}) >= n
         /\ Min({m, n}) \in {m, n} /\ Min({m, n}) <= m /\ Min({m, n}) <= n
<1>1. \E x \in {m, n} : \A y \in {m, n} : x >= y
  OBVIOUS
<1>2. Max({m, n}) \in {m, n} /\ \A y \in {m, n} : Max({m, n}) >= y
  BY <1>1 DEF Max
<1>3. \E x \in {m, n} : \A y \in {m, n} : x <= y
  OBVIOUS
<1>4. Min({m, n}) \in {m, n} /\ \A y \in {m, n} : Min({m, n}) <= y
  BY <1>3 DEF Min
<1> QED
  BY <1>2, <1>4

LEMMA GreaterNat ==
  ASSUME NEW m \in Nat, NEW n \in Nat
  PROVE  Max({m, n}) \in Nat
<1>1. m \in Int /\ n \in Int
  OBVIOUS
<1>2. Max({m, n}) \in {m, n}
  BY <1>1, GreaterOf
<1> QED
  BY <1>2

LEMMA LesserNat ==
  ASSUME NEW m \in Nat, NEW n \in Nat
  PROVE  /\ Min({m, n}) \in Nat /\ Min({m, n}) \in {m, n}
         /\ Min({m, n}) <= m /\ Min({m, n}) <= n
<1>1. m \in Int /\ n \in Int
  OBVIOUS
<1>2. Min({m, n}) \in {m, n} /\ Min({m, n}) <= m /\ Min({m, n}) <= n
  BY <1>1, GreaterOf
<1> QED
  BY <1>2

LEMMA WantedIsNat ==
  ASSUME query \in Queries
  PROVE  Wanted \in Nat
<1>1. query.k \in Nat /\ VectorCandidates \in Nat /\ RerankCandidates \in Nat
  BY AllModes, LimitsAssumption
<1>2. Max({query.k, VectorCandidates}) \in Nat
  BY <1>1, GreaterNat
<1> QED
  BY <1>1, <1>2 DEF Wanted

LEMMA JoinedOnce ==
  ASSUME NEW S, NEW a, NEW b, OnceIn(a, S), OnceIn(b, S \ Range(a))
  PROVE  OnceIn(a \o b, S)
<1>1. /\ a \in Seq(S) /\ Len(a) \in Nat /\ DOMAIN a = 1..Len(a)
      /\ b \in Seq(S \ Range(a)) /\ Len(b) \in Nat /\ DOMAIN b = 1..Len(b)
  BY DEF OnceIn
<1>2. OnceIn(b, S)
  BY OnceInMore
<1>3. b \in Seq(S)
  BY <1>2 DEF OnceIn
<1> DEFINE c == a \o b
<1>4. c \in Seq(S) /\ Len(c) = Len(a) + Len(b)
  BY <1>1, <1>3
<1>5. \A n \in 1..(Len(a) + Len(b)) :
        c[n] = IF n <= Len(a) THEN a[n] ELSE b[n - Len(a)]
  BY <1>1, <1>3
<1> HIDE DEF c
<1>6. \A m, n \in DOMAIN c : c[m] = c[n] => m = n
  <2> SUFFICES ASSUME NEW m \in DOMAIN c, NEW n \in DOMAIN c, c[m] = c[n]
               PROVE  m = n
    OBVIOUS
  <2>1. m \in 1..(Len(a) + Len(b)) /\ n \in 1..(Len(a) + Len(b))
    BY <1>4
  <2>2. \A i \in 1..Len(a), j \in 1..Len(b) : a[i] # b[j]
    <3> SUFFICES ASSUME NEW i \in 1..Len(a), NEW j \in 1..Len(b)
                 PROVE  a[i] # b[j]
      OBVIOUS
    <3>1. b[j] \in S \ Range(a) /\ a[i] \in Range(a)
      BY <1>1 DEF Range
    <3> QED
      BY <3>1
  <2>3. CASE m <= Len(a) /\ n <= Len(a)
    <3>1. m \in DOMAIN a /\ n \in DOMAIN a /\ a[m] = a[n]
      BY <1>1, <1>5, <2>1, <2>3
    <3> QED
      BY <3>1 DEF OnceIn, IsInjective
  <2>4. CASE ~(m <= Len(a)) /\ ~(n <= Len(a))
    <3>1. /\ m - Len(a) \in DOMAIN b /\ n - Len(a) \in DOMAIN b
          /\ b[m - Len(a)] = b[n - Len(a)]
      BY <1>1, <1>5, <2>1, <2>4
    <3>2. m - Len(a) = n - Len(a)
      BY <3>1 DEF OnceIn, IsInjective
    <3> QED
      BY <1>1, <2>1, <3>2
  <2>5. CASE m <= Len(a) /\ ~(n <= Len(a))
    <3>1. m \in 1..Len(a) /\ n - Len(a) \in 1..Len(b) /\ c[m] = a[m] /\ c[n] = b[n - Len(a)]
      BY <1>1, <1>5, <2>1, <2>5
    <3> QED
      BY <2>2, <3>1
  <2>6. CASE ~(m <= Len(a)) /\ n <= Len(a)
    <3>1. n \in 1..Len(a) /\ m - Len(a) \in 1..Len(b) /\ c[n] = a[n] /\ c[m] = b[m - Len(a)]
      BY <1>1, <1>5, <2>1, <2>6
    <3> QED
      BY <2>2, <3>1
  <2> QED
    BY <2>3, <2>4, <2>5, <2>6
<1> QED
  BY <1>4, <1>6 DEF OnceIn, IsInjective, c
-----------------------------------------------------------------------------
(* What the lists and the results hold *)

FoundInv ==
  /\ Allowed(index, query.filter) \subseteq visible /\ visible \subseteq Chunks
  /\ DOMAIN lists = ListNames /\ \A n \in ListNames : OnceIn(lists[n], visible)
  /\ OnceIn(results, visible) /\ Len(results) <= query.k

\* a step that sets one list, one that sets the results, and one that sets neither
LEMMA ListSet ==
  ASSUME FoundInv, NEW name \in ListNames, NEW seq, OnceIn(seq, visible),
         lists' = [lists EXCEPT ![name] = seq], UNCHANGED <<index, query, results, visible>>
  PROVE  FoundInv'
<1>1. DOMAIN lists' = ListNames /\ \A n \in ListNames : lists'[n] = seq \/ lists'[n] = lists[n]
  BY DEF FoundInv
<1>2. \A n \in ListNames : OnceIn(lists'[n], visible)
  BY <1>1 DEF FoundInv
<1> QED
  BY <1>1, <1>2 DEF FoundInv

LEMMA ResultsSet ==
  ASSUME FoundInv, NEW seq, OnceIn(seq, visible), query.k \in Nat, results' = Cut(seq, query.k),
         UNCHANGED <<index, query, lists, visible>>
  PROVE  FoundInv'
<1>1. OnceIn(results', visible) /\ Len(results') <= query.k
  <2>1. /\ OnceIn(Cut(seq, query.k), visible)
        /\ Len(Cut(seq, query.k)) = IF Len(seq) < query.k THEN Len(seq) ELSE query.k
    BY CutOnce
  <2>2. Len(seq) \in Nat
    BY DEF OnceIn
  <2> QED
    BY <2>1, <2>2
<1> QED
  BY <1>1 DEF FoundInv

LEMMA NeitherSet ==
  ASSUME FoundInv, UNCHANGED <<index, query, lists, results, visible>>
  PROVE  FoundInv'
BY DEF FoundInv

LEMMA FoundKept ==
  ASSUME StepInv, WalkInv, FoundInv, [Next]_vars
  PROVE  FoundInv'
<1>0. /\ index \in Indexes /\ query \in Queries /\ query.k \in Nat /\ query.k > 0
      /\ visible \in SUBSET Chunks /\ visible \in SUBSET Nat
      /\ Allowed(index, query.filter) \subseteq visible
  <2>1. visible \subseteq Chunks /\ Chunks \subseteq Nat
    BY ChunksAssumption DEF FoundInv
  <2> QED
    BY <2>1, AllModes DEF WalkInv, FoundInv
<1>n. /\ "vector" \in ListNames /\ "lexical" \in ListNames /\ "hybrid" \in ListNames
      /\ "hierarchical" \in ListNames /\ "graph" \in ListNames
  BY DEF ListNames
<1>l. \A n \in ListNames : OnceIn(lists[n], visible)
  BY DEF FoundInv
<1>s. ASSUME NEW filter, NEW k \in Nat,
             Allowed(index, filter) \subseteq Allowed(index, query.filter)
      PROVE  OnceIn(LexicalSearch(filter, k), visible)
  BY <1>0, <1>s, LexicalFinds, OnceInMore
<1>1. CASE Apply
  <2>1. PICK i \in Indexes : index' = i /\ visible' = visible \cup Allowed(i, query.filter)
    BY <1>1 DEF Apply
  <2>2. UNCHANGED <<query, lists, results>>
    BY <1>1 DEF Apply
  <2>3. visible' \subseteq Chunks /\ Allowed(index', query.filter) \subseteq visible'
        /\ visible \subseteq visible'
    BY <1>0, <2>1, AllowedChunks
  <2>4. \A n \in ListNames : OnceIn(lists[n], visible')
    BY <1>l, <2>3, OnceInMore
  <2>5. OnceIn(results, visible')
    BY <2>3, OnceInMore DEF FoundInv
  <2> QED
    BY <2>2, <2>3, <2>4, <2>5 DEF FoundInv
<1>2. CASE ValidateProfile \/ ReadCandidates \/ SearchDocuments \/ Walk \/ LookUpChunks
           \/ UNCHANGED vars
  BY <1>2, NeitherSet DEF ValidateProfile, ReadCandidates, SearchDocuments, Walk, LookUpChunks, vars,
                          At
<1>3. CASE CountVectors
  <2>1. UNCHANGED <<index, query, results, visible>>
        /\ (UNCHANGED lists \/ lists' = [lists EXCEPT !["vector"] = <<>>])
    BY <1>3 DEF CountVectors, At, Finds
  <2>2. OnceIn(<<>>, visible)
    BY NothingOnce
  <2> QED
    BY <1>n, <2>1, <2>2, ListSet, NeitherSet
<1>4. CASE Hydrate
  <2> DEFINE found == Cut(Hydrated(query.filter), Wanted)
  <2>1. UNCHANGED <<index, query, results, visible>>
        /\ (UNCHANGED lists \/ lists' = [lists EXCEPT !["vector"] = found])
    BY <1>4 DEF Hydrate, At, Finds
  <2>2. \A r \in DOMAIN candidates : candidates[r] \in Int
    BY <1>4 DEF WalkInv, Hydrate, At
  <2>3. OnceIn(Hydrated(query.filter), visible)
    BY <1>0, <2>2, HydratedFinds, OnceInMore
  <2>4. Wanted \in Nat
    BY <1>0, WantedIsNat
  <2>5. OnceIn(found, visible)
    BY <2>3, <2>4, CutOnce
  <2> HIDE DEF found
  <2> QED
    BY <1>n, <2>1, <2>5, ListSet, NeitherSet
<1>5. CASE Lexical
  <2> DEFINE k == IF query.mode = "lexical" THEN query.k ELSE Max({query.k, LexicalCandidates})
             found == LexicalSearch(query.filter, k)
  <2>1. UNCHANGED <<index, query, results, visible>>
        /\ lists' = [lists EXCEPT !["lexical"] = found]
    BY <1>5 DEF Lexical, At, Finds
  <2>2. k \in Nat
    <3>1. LexicalCandidates \in Nat /\ ChunkCandidates \in Nat
      BY LimitsAssumption
    <3> QED
      BY <1>0, <3>1, GreaterNat
  <2> HIDE DEF k
  <2>3. OnceIn(found, visible)
    BY <1>s, <2>2
  <2> HIDE DEF found
  <2> QED
    BY <1>n, <2>1, <2>3, ListSet
<1>6. CASE Fuse
  <2> DEFINE both == <<lists["vector"], lists["lexical"]>>
             fused == Cut(Fused(both), query.k)
  <2>1. /\ UNCHANGED <<index, query, visible>> /\ lists' = [lists EXCEPT !["hybrid"] = fused]
        /\ results' = results \/ results' = fused
    BY <1>6 DEF Fuse, At, Finds
  <2>2. OnceIn(Fused(both), visible)
    BY <1>0, <1>n, <1>l, RankedLists, FusedOnce
  <2>3. OnceIn(fused, visible) /\ Len(fused) <= query.k
    <3>1. Len(Fused(both)) \in Nat
      BY <2>2 DEF OnceIn
    <3> HIDE DEF both
    <3> QED
      BY <1>0, <2>2, <3>1, CutOnce
  <2> HIDE DEF fused
  <2>4. \A n \in ListNames : OnceIn(lists'[n], visible)
    BY <1>l, <2>1, <2>3 DEF FoundInv
  <2>5. DOMAIN lists' = ListNames
    BY <2>1 DEF FoundInv
  <2> QED
    BY <2>1, <2>3, <2>4, <2>5 DEF FoundInv
<1>7. CASE Blend
  <2> DEFINE all == <<lists["hybrid"], lists["hierarchical"], lists["graph"]>>
  <2>1. UNCHANGED <<index, query, lists, visible>> /\ results' = Cut(Fused(all), query.k)
    BY <1>7 DEF Blend, At
  <2>2. OnceIn(Fused(all), visible)
    BY <1>0, <1>n, <1>l, RankedLists, FusedOnce
  <2> HIDE DEF all
  <2> QED
    BY <1>0, <2>1, <2>2, ResultsSet
<1>8. CASE Rerank
  <2>1. /\ UNCHANGED <<index, query, lists, visible>>
        /\ results' = Cut(Reranked(lists["vector"]), query.k)
    BY <1>8 DEF Rerank, At
  <2>2. OnceIn(Reranked(lists["vector"]), visible)
    BY <1>0, <1>n, <1>l, RerankedOnce
  <2> QED
    BY <1>0, <2>1, <2>2, ResultsSet
<1>9. CASE Return
  <2>1. /\ pc = "cut" /\ UNCHANGED <<index, query, lists, visible>>
        /\ results' = Cut(lists[query.mode], query.k)
    BY <1>9 DEF Return, At
  <2>2. query.mode \in ListNames
    BY <1>0, <2>1, AllModes DEF StepInv, StepsOf, VectorSteps, DescentSteps, GraphSteps, ListNames
  <2>3. OnceIn(lists[query.mode], visible)
    BY <1>l, <2>2
  <2> QED
    BY <1>0, <2>1, <2>3, ResultsSet
<1>10. CASE Unscoped
  <2> DEFINE found == LexicalSearch(query.filter, query.k)
  <2>1. UNCHANGED <<index, query, results, visible>>
        /\ lists' = [lists EXCEPT !["hierarchical"] = found]
    BY <1>10 DEF Unscoped, At, Finds
  <2>2. OnceIn(found, visible)
    BY <1>0, <1>s
  <2> HIDE DEF found
  <2> QED
    BY <1>n, <2>1, <2>2, ListSet
<1>11. CASE SearchSections
  <2>1. UNCHANGED <<index, query, results, visible>>
        /\ (UNCHANGED lists \/ lists' = [lists EXCEPT !["hierarchical"] = <<>>])
    BY <1>11 DEF SearchSections, At, Finds
  <2>2. OnceIn(<<>>, visible)
    BY NothingOnce
  <2> QED
    BY <1>n, <2>1, <2>2, ListSet, NeitherSet
<1>12. CASE Scoped
  <2> DEFINE k == Max({query.k, ChunkCandidates})
             scope == Scope(walk.docs, walk.sections)
             found == Cut(LexicalSearch(scope, k), query.k)
  <2>1. UNCHANGED <<index, query, results, visible>> /\ pc = "scoped"
        /\ lists' = [lists EXCEPT !["hierarchical"] = found]
    BY <1>12 DEF Scoped, At, Finds
  <2>2. k \in Nat
    <3>1. LexicalCandidates \in Nat /\ ChunkCandidates \in Nat
      BY LimitsAssumption
    <3> QED
      BY <1>0, <3>1, GreaterNat
  <2>3. Allowed(index, scope) \subseteq Allowed(index, query.filter)
    <3>1. walk.docs \in Seq(Nat) /\ walk.sections \in Seq(Nat)
      BY DEF WalkInv, Walks
    <3> QED
      BY <2>1, <3>1, ScopeAllows DEF WalkInv
  <2> HIDE DEF k, scope
  <2>4. OnceIn(LexicalSearch(scope, k), visible)
    BY <1>s, <2>2, <2>3
  <2>5. OnceIn(found, visible)
    BY <1>0, <2>4, CutOnce
  <2> HIDE DEF found
  <2> QED
    BY <1>n, <2>1, <2>5, ListSet
<1>13. CASE Resolve
  <2>1. UNCHANGED <<index, query, results, visible>>
        /\ (UNCHANGED lists \/ lists' = [lists EXCEPT !["graph"] = <<>>])
    BY <1>13 DEF Resolve, At, Finds
  <2>2. OnceIn(<<>>, visible)
    BY NothingOnce
  <2> QED
    BY <1>n, <2>1, <2>2, ListSet, NeitherSet
<1>14. CASE HydrateChunks
  <2> DEFINE mine == {index.rows[r] : r \in DOMAIN candidates \cap DOMAIN index.rows}
                       \cap Allowed(index, query.filter)
             found == Only(walk.chunks, mine)
  <2>1. UNCHANGED <<index, query, results, visible>>
        /\ lists' = [lists EXCEPT !["graph"] = found]
    BY <1>14 DEF HydrateChunks, At
  <2>2. mine \subseteq visible
    BY <1>0
  <2>3. walk.chunks \in Seq(Nat)
    BY DEF WalkInv, Walks
  <2> HIDE DEF mine
  <2>4. OnceIn(found, Range(walk.chunks) \cap mine)
    BY <2>3, OnlyKeeps
  <2>5. OnceIn(found, visible)
    <3>1. Range(walk.chunks) \cap mine \subseteq visible
      BY <2>2
    <3> HIDE DEF found
    <3> QED
      BY <2>4, <3>1, OnceInMore
  <2> HIDE DEF found
  <2> QED
    BY <1>n, <2>1, <2>5, ListSet
<1>15. CASE Fill
  <2> DEFINE mine == query.filter
             docs == IF mine.docs = {} THEN walk.docs ELSE Only(walk.docs, mine.docs)
             sections == IF mine.sections = {} THEN walk.sections
                         ELSE Only(walk.sections, mine.sections)
             found == lists["graph"]
             lexical == LexicalSearch(Scope(docs, sections), query.k)
             more == Only(lexical, Chunks \ Range(found))
  <2>1. /\ UNCHANGED <<index, query, results, visible>>
        /\ \/ lists' = [lists EXCEPT !["graph"] = Cut(found, query.k)]
           \/ /\ docs # <<>> /\ (mine.sections = {} \/ sections # <<>>)
              /\ lists' = [lists EXCEPT !["graph"] = Cut(found \o more, query.k)]
    BY <1>15 DEF Fill, At, Finds
  <2>2. OnceIn(found, visible)
    BY <1>n, <1>l
  <2>3. OnceIn(Cut(found, query.k), visible)
    BY <1>0, <2>2, CutOnce
  <2>4. ASSUME docs # <<>>, mine.sections = {} \/ sections # <<>>
        PROVE  OnceIn(Cut(found \o more, query.k), visible)
    <3>1. walk.docs \in Seq(Nat) /\ walk.sections \in Seq(Nat)
      BY DEF WalkInv, Walks
    <3>2. docs \in Seq(Nat) /\ Keeps(docs, mine.docs)
      <4>1. Only(walk.docs, mine.docs) \in Seq(Nat)
            /\ Range(Only(walk.docs, mine.docs)) \subseteq mine.docs
        BY <3>1, OnlyNumbers
      <4> QED
        BY <2>4, <3>1, <4>1 DEF Keeps
    <3>3. sections \in Seq(Nat) /\ Keeps(sections, mine.sections)
      <4>1. Only(walk.sections, mine.sections) \in Seq(Nat)
            /\ Range(Only(walk.sections, mine.sections)) \subseteq mine.sections
        BY <3>1, OnlyNumbers
      <4> QED
        BY <2>4, <3>1, <4>1 DEF Keeps
    <3> HIDE DEF docs, sections
    <3>4. Allowed(index, Scope(docs, sections)) \subseteq Allowed(index, mine)
      BY <3>2, <3>3, ScopeAllows
    <3>5. OnceIn(lexical, visible)
      BY <1>0, <1>s, <3>4
    <3> HIDE DEF lexical, found
    <3>6. lexical \in Seq(visible) /\ Range(lexical) \subseteq visible
      BY <3>5, OnceRange DEF OnceIn
    <3>7. OnceIn(more, Range(lexical) \cap (Chunks \ Range(found)))
      BY <3>6, OnlyKeeps
    <3>8. OnceIn(more, visible \ Range(found))
      <4>1. Range(lexical) \cap (Chunks \ Range(found)) \subseteq visible \ Range(found)
        BY <3>6
      <4> HIDE DEF more
      <4> QED
        BY <3>7, <4>1, OnceInMore
    <3> HIDE DEF more
    <3>9. OnceIn(found \o more, visible)
      BY <2>2, <3>8, JoinedOnce
    <3> QED
      BY <1>0, <3>9, CutOnce
  <2> HIDE DEF docs, sections, more, found, mine
  <2>5. \E seq : OnceIn(seq, visible) /\ lists' = [lists EXCEPT !["graph"] = seq]
    BY <2>1, <2>3, <2>4
  <2> QED
    BY <1>n, <2>1, <2>5, ListSet
<1> QED
  BY <1>1, <1>2, <1>3, <1>4, <1>5, <1>6, <1>7, <1>8, <1>9, <1>10, <1>11, <1>12, <1>13, <1>14,
     <1>15 DEF Next

LEMMA Starting ==
  ASSUME Init
  PROVE  StepInv /\ WalkInv /\ FoundInv
<1>1. /\ index \in Indexes /\ query \in Queries /\ pc = FirstStep(query.mode)
      /\ candidates = NoCandidates /\ walk = NoWalk
      /\ lists = [name \in ListNames |-> <<>>] /\ results = <<>>
      /\ visible = Allowed(index, query.filter)
  BY DEF Init, ListNames
<1>2. query.mode \in {"vector", "lexical", "hybrid", "reranked", "hierarchical", "graph",
                      "intelligent"} /\ query.k \in Nat
  BY <1>1, AllModes
<1>3. StepInv /\ pc \notin {"sections", "scoped", "hydrate"}
  BY <1>1, <1>2 DEF StepInv, FirstStep, StepsOf, VectorSteps, DescentSteps, GraphSteps
<1>4. WalkInv
  BY <1>1, <1>3, NoWalkIsOne DEF WalkInv
<1>5. visible \subseteq Chunks
  BY <1>1, AllowedChunks
<1>6. /\ DOMAIN lists = ListNames /\ \A n \in ListNames : OnceIn(lists[n], visible)
      /\ OnceIn(results, visible) /\ Len(results) = 0
  BY <1>1, NothingOnce
<1> QED
  BY <1>1, <1>2, <1>3, <1>4, <1>5, <1>6 DEF FoundInv

(* Only chunks the query was allowed to see at a moment of the retrieval are returned,   *)
(* no more than were asked for and each of them once, whatever builds apply between the  *)
(* reads (hydrate_filtered_candidates, public_chunks_by_ids, the filters of each mode).  *)
THEOREM VisibleResults == Spec => []ResultsWereVisible
<1>1. Init => StepInv /\ WalkInv /\ FoundInv
  BY Starting
<1>2. StepInv /\ WalkInv /\ FoundInv /\ [Next]_vars => (StepInv /\ WalkInv /\ FoundInv)'
  BY StepsFollow, WalkKept, FoundKept
<1>3. FoundInv => ResultsWereVisible
  <2> SUFFICES ASSUME FoundInv
               PROVE  ResultsWereVisible
    OBVIOUS
  <2>1. OnceIn(results, visible) /\ Len(results) <= query.k
    BY DEF FoundInv
  <2>2. Range(results) \subseteq visible
    BY <2>1, OnceRange
  <2>3. \A n \in ListNames : IsInjective(lists[n])
    BY DEF FoundInv, OnceIn
  <2> QED
    BY <2>1, <2>2, <2>3 DEF ResultsWereVisible, OnceIn
<1> QED
  BY <1>1, <1>2, <1>3, PTL DEF Spec
-----------------------------------------------------------------------------
(* Agreement in a fusion *)

LEMMA DivisionFalls ==
  ASSUME NEW u \in Nat, NEW x \in Nat, NEW y \in Nat, 0 < x, x <= y
  PROVE  u \div y <= u \div x
<1> DEFINE p == u \div x
           q == u \div y
<1>1. p \in Nat /\ q \in Nat
  OBVIOUS
<1>2. u < x * p + x /\ y * q <= u
  <2>1. u = x * p + (u % x) /\ u % x < x
    OBVIOUS
  <2>2. u = y * q + (u % y) /\ u % y >= 0
    OBVIOUS
  <2>3. x * p \in Int /\ y * q \in Int /\ u % x \in Int /\ u % y \in Int
    BY <1>1
  <2> HIDE DEF p, q
  <2> QED
    BY <2>1, <2>2, <2>3
<1> HIDE DEF p, q
<1>3. ASSUME p + 1 <= q
      PROVE  FALSE
  <2>1. x * (p + 1) <= y * (p + 1)
    BY <1>1
  <2>2. y * (p + 1) <= y * q
    BY <1>1, <1>3
  <2>3. x * (p + 1) = x * p + x
    BY <1>1
  <2>4. x * p \in Int /\ y * q \in Int /\ y * (p + 1) \in Int
    BY <1>1
  <2> QED
    BY <1>2, <2>1, <2>2, <2>3, <2>4
<1> QED
  BY <1>1, <1>3 DEF p, q

Leads(ranked, a, b) ==
  \A n \in DOMAIN ranked : b \in Range(ranked[n]) =>
    a \in Range(ranked[n]) /\ RankIn(ranked[n], a) < RankIn(ranked[n], b)

LEMMA LeaderFirst ==
  ASSUME NEW S \in SUBSET Nat, NEW ranked, Ranked(ranked, S),
         NEW a \in FoundIn(ranked), NEW b \in FoundIn(ranked), Leads(ranked, a, b)
  PROVE  <<a, b>> \in FusionOrder(ranked)
<1> DEFINE A == ListsOf(ranked, a)
           B == ListsOf(ranked, b)
           f == Points(ranked, a)
           g == Points(ranked, b)
           rank(n, c) == RankIn(ranked[n], c)
<1>1. B \in SUBSET A /\ \A n \in B : rank(n, a) < rank(n, b)
  BY DEF ListsOf, Leads
<1>2. \A n \in A : f[n] \in Nat /\ rank(n, a) \in Nat
  BY PointsType
<1>3. \A n \in B : g[n] \in Nat /\ rank(n, b) \in Nat
  BY PointsType
<1>4. IsFiniteSet(A) /\ IsFiniteSet(B) /\ B # {}
  BY FoundLists
<1>5. ASSUME NEW n \in B
      PROVE  g[n] <= f[n]
  <2>1. f[n] = Unit \div (RrfK + rank(n, a)) /\ g[n] = Unit \div (RrfK + rank(n, b))
    BY <1>1 DEF Points
  <2>2. /\ rank(n, a) \in Nat /\ rank(n, b) \in Nat /\ rank(n, a) >= 1
        /\ rank(n, a) < rank(n, b)
    BY <1>1, PointsType
  <2>3. RrfK \in Nat /\ Unit \in Nat
    BY LimitsAssumption
  <2> DEFINE x == RrfK + rank(n, a)  y == RrfK + rank(n, b)
  <2>4. x \in Nat /\ y \in Nat /\ 0 < x /\ x <= y
    BY <2>2, <2>3
  <2> HIDE DEF x, y, f, g
  <2>5. Unit \div y <= Unit \div x
    BY <2>3, <2>4, DivisionFalls
  <2> QED
    BY <2>1, <2>5 DEF x, y
<1> HIDE DEF A, B, f, g
<1>6. SumFunctionOnSet(g, B) <= SumFunctionOnSet(f, B)
  <2>1. \A n \in B : g[n] \in Nat /\ f[n] \in Nat /\ g[n] <= f[n]
    BY <1>1, <1>2, <1>3, <1>5
  <2> QED
    BY <1>4, <2>1, SumIsLess
<1>7. SumFunctionOnSet(f, B) <= SumFunctionOnSet(f, A)
  BY <1>1, <1>2, <1>4, SumOfPart
<1>8. /\ SumFunctionOnSet(g, B) \in Nat /\ SumFunctionOnSet(f, B) \in Nat
      /\ SumFunctionOnSet(f, A) \in Nat
  BY <1>1, <1>2, <1>3, <1>4, SumIsNat
<1>9. RrfScore(ranked, a) = SumFunctionOnSet(f, A) /\ RrfScore(ranked, b) = SumFunctionOnSet(g, B)
  BY DEF RrfScore, Points, A, B, f, g
<1>10. RrfScore(ranked, a) >= RrfScore(ranked, b)
       /\ RrfScore(ranked, a) \in Nat /\ RrfScore(ranked, b) \in Nat
  BY <1>6, <1>7, <1>8, <1>9
<1>11. BestRank(ranked, a) < BestRank(ranked, b)
  <2> DEFINE ra == {rank(n, a) : n \in A}
             rb == {rank(n, b) : n \in B}
  <2>1. /\ ra \subseteq Nat /\ rb \subseteq Nat /\ rb # {}
        /\ \A n \in B : rank(n, a) \in ra
    BY <1>1, <1>2, <1>3, <1>4
  <2>2. BestRank(ranked, a) = Min(ra) /\ BestRank(ranked, b) = Min(rb)
    BY DEF BestRank, A, B
  <2>3. ra # {}
    BY <1>4, <2>1
  <2>4. PICK n \in B : Min(rb) = rank(n, b)
    <3>1. Min(rb) \in rb
      <4> HIDE DEF rb
      <4> QED
        BY <2>1, LeastOf
    <3> QED
      BY <3>1
  <2>5. Min(ra) <= rank(n, a) /\ Min(ra) \in Nat
    <3> HIDE DEF ra
    <3> QED
      BY <2>1, <2>3, LeastOf
  <2>6. rank(n, a) < rank(n, b) /\ rank(n, a) \in Nat /\ rank(n, b) \in Nat
    BY <1>1, <1>2, <1>3
  <2> HIDE DEF ra, rb, rank
  <2> QED
    BY <2>2, <2>4, <2>5, <2>6
<1> QED
  BY <1>10, <1>11 DEF FusionOrder

LEMMA Agreement ==
  ASSUME NEW S \in SUBSET Nat, NEW ranked, Ranked(ranked, S), NEW k \in Nat,
         NEW a \in FoundIn(ranked), NEW b \in Range(Cut(Fused(ranked), k)), Leads(ranked, a, b)
  PROVE  /\ a \in Range(Cut(Fused(ranked), k))
         /\ RankIn(Cut(Fused(ranked), k), a) < RankIn(Cut(Fused(ranked), k), b)
<1> DEFINE fused == Fused(ranked)
           cut == Cut(fused, k)
<1>1. Lists(fused, FoundIn(ranked), FusionOrder(ranked))
  BY FusedLists
<1> HIDE DEF fused
<1>2. OnceIn(fused, FoundIn(ranked))
  BY <1>1, ListedOnce
<1>3. /\ OnceIn(cut, FoundIn(ranked)) /\ Len(cut) = IF Len(fused) < k THEN Len(fused) ELSE k
      /\ \A n \in DOMAIN cut : n \in DOMAIN fused /\ cut[n] = fused[n]
  BY <1>2, CutOnce
<1> HIDE DEF cut
<1>4. /\ DOMAIN cut = 1..Len(cut) /\ Len(cut) \in Nat /\ IsInjective(cut)
      /\ DOMAIN fused = 1..Len(fused) /\ Len(fused) \in Nat /\ IsInjective(fused)
      /\ Range(fused) = FoundIn(ranked)
  BY <1>1, <1>2, <1>3 DEF OnceIn, Lists
<1>5. RankIn(cut, b) \in DOMAIN cut /\ cut[RankIn(cut, b)] = b
  BY RankOf DEF cut, fused
<1>6. PICK i \in DOMAIN fused : fused[i] = a
  BY <1>4 DEF Range
<1> DEFINE j == RankIn(cut, b)
<1>7. j \in DOMAIN fused /\ fused[j] = b
  BY <1>3, <1>5
<1>8. b \in FoundIn(ranked)
  BY <1>4, <1>7 DEF Range
<1>9. <<fused[i], fused[j]>> \in FusionOrder(ranked)
  BY <1>6, <1>7, <1>8, LeaderFirst
<1>10. i < j
  BY <1>1, <1>7, <1>9 DEF Lists
<1>11. i \in DOMAIN cut /\ cut[i] = a
  <2>1. i \in 1..Len(cut)
    BY <1>4, <1>5, <1>6, <1>10
  <2> QED
    BY <1>3, <1>4, <1>6, <2>1
<1>12. a \in Range(cut)
  BY <1>11 DEF Range
<1>13. RankIn(cut, a) = i
  <2>1. RankIn(cut, a) \in DOMAIN cut /\ cut[RankIn(cut, a)] = a
    BY <1>12, RankOf
  <2> QED
    BY <1>4, <1>11, <2>1 DEF IsInjective
<1> QED
  BY <1>10, <1>12, <1>13 DEF cut, fused

FusedInv ==
  /\ pc = "done" /\ query.mode = "hybrid"
       => results = Cut(Fused(<<lists["vector"], lists["lexical"]>>), query.k)
  /\ pc = "done" /\ query.mode = "intelligent"
       => results = Cut(Fused(<<lists["hybrid"], lists["hierarchical"], lists["graph"]>>), query.k)

LEMMA DoneOnce ==
  ASSUME NEW step \in {"vector", "lexical", "hierarchical", "graph"}, NEW mode
  PROVE  After(step, mode) # "done"
BY DEF After

LEMMA FusedKept ==
  ASSUME StepInv, FoundInv, FusedInv, [Next]_vars
  PROVE  FusedInv'
<1>1. CASE pc' # "done"
  BY <1>1 DEF FusedInv
<1>2. CASE UNCHANGED vars
  BY <1>2 DEF FusedInv, vars
<1>3. CASE Apply
  BY <1>3 DEF FusedInv, Apply
<1>4. CASE ValidateProfile \/ ReadCandidates \/ SearchDocuments \/ Walk \/ LookUpChunks
           \/ HydrateChunks
  <2>1. pc' \in {"count", "failed", "hydrate", "unscoped", "sections", "walk", "chunks", "fill"}
    BY <1>4 DEF ValidateProfile, ReadCandidates, SearchDocuments, Walk, LookUpChunks, HydrateChunks,
                Goes
  <2> QED
    BY <1>1, <2>1
<1>5. CASE CountVectors \/ Hydrate \/ Lexical \/ Unscoped \/ SearchSections \/ Scoped \/ Resolve
           \/ Fill
  <2>1. pc' \in {"candidates", "scoped", "walk"}
        \/ \E step \in {"vector", "lexical", "hierarchical", "graph"} :
             pc' = After(step, query.mode)
    BY <1>5 DEF CountVectors, Hydrate, Lexical, Unscoped, SearchSections, Scoped, Resolve, Fill,
                Goes, Finds
  <2> QED
    BY <1>1, <2>1, DoneOnce
<1>6. CASE Fuse
  <2> DEFINE fused == Cut(Fused(<<lists["vector"], lists["lexical"]>>), query.k)
  <2>1. /\ query' = query /\ lists' = [lists EXCEPT !["hybrid"] = fused]
        /\ results' = IF query.mode = "hybrid" THEN fused ELSE results
        /\ pc' = After("hybrid", query.mode)
    BY <1>6 DEF Fuse, At, Finds
  <2>2. pc' = "done" => query.mode = "hybrid"
    BY <2>1 DEF After
  <2>3. lists'["vector"] = lists["vector"] /\ lists'["lexical"] = lists["lexical"]
    <3>1. "vector" \in DOMAIN lists /\ "lexical" \in DOMAIN lists
      BY DEF FoundInv, ListNames
    <3> HIDE DEF fused
    <3> QED
      BY <2>1, <3>1
  <2>4. Cut(Fused(<<lists'["vector"], lists'["lexical"]>>), query'.k) = fused
    BY <2>1, <2>3
  <2> HIDE DEF fused
  <2>5. pc' = "done" => query'.mode = "hybrid" /\ results' = fused
    BY <2>1, <2>2
  <2>6. query'.mode = "hybrid" => query'.mode # "intelligent"
    OBVIOUS
  <2> QED
    BY <2>4, <2>5, <2>6 DEF FusedInv
<1>7. CASE Blend
  <2>1. pc = "blend" /\ UNCHANGED <<query, lists>>
        /\ results' = Cut(Fused(<<lists["hybrid"], lists["hierarchical"], lists["graph"]>>), query.k)
    BY <1>7 DEF Blend, At
  <2>2. query.mode # "hybrid"
    BY <2>1 DEF StepInv, StepsOf, VectorSteps
  <2> QED
    BY <2>1, <2>2 DEF FusedInv
<1>8. CASE Rerank \/ Return
  <2>1. query' = query /\ pc \in {"rerank", "cut"}
    BY <1>8 DEF Rerank, Return, At
  <2>2. query.mode \notin {"hybrid", "intelligent"}
    BY <2>1 DEF StepInv, StepsOf, VectorSteps, DescentSteps, GraphSteps
  <2> QED
    BY <2>1, <2>2 DEF FusedInv
<1> QED
  BY <1>2, <1>3, <1>4, <1>5, <1>6, <1>7, <1>8 DEF Next

(* No list's opinion is lost: what stands before another chunk in every list that one is *)
(* in stands before it in the fused list (reciprocal_rank_fusion, intelligent_rrf).      *)
THEOREM FusionAgrees == Spec => []FusionKeepsAgreement
<1>1. Init => StepInv /\ WalkInv /\ FoundInv /\ FusedInv
  <2> SUFFICES ASSUME Init
               PROVE  StepInv /\ WalkInv /\ FoundInv /\ FusedInv
    OBVIOUS
  <2>1. query.mode \in {"vector", "lexical", "hybrid", "reranked", "hierarchical", "graph",
                        "intelligent"} /\ pc = FirstStep(query.mode)
    BY AllModes DEF Init
  <2>2. pc # "done"
    BY <2>1 DEF FirstStep
  <2> QED
    BY <2>2, Starting DEF FusedInv
<1>2. StepInv /\ WalkInv /\ FoundInv /\ FusedInv /\ [Next]_vars
        => (StepInv /\ WalkInv /\ FoundInv /\ FusedInv)'
  BY StepsFollow, WalkKept, FoundKept, FusedKept
<1>3. FoundInv /\ FusedInv /\ StepInv => FusionKeepsAgreement
  <2> SUFFICES ASSUME FoundInv, FusedInv, StepInv, pc = "done", query.mode \in {"hybrid", "intelligent"}
               PROVE  FusionKeepsAgreement
    BY DEF FusionKeepsAgreement
  <2> DEFINE ranked == IF query.mode = "hybrid" THEN <<lists["vector"], lists["lexical"]>>
                       ELSE <<lists["hybrid"], lists["hierarchical"], lists["graph"]>>
  <2>1. results = Cut(Fused(ranked), query.k)
    BY DEF FusedInv
  <2>2. Ranked(ranked, visible)
    <3>1. \A n \in ListNames : OnceIn(lists[n], visible)
      BY DEF FoundInv
    <3>2. /\ OnceIn(lists["vector"], visible) /\ OnceIn(lists["lexical"], visible)
          /\ OnceIn(lists["hybrid"], visible) /\ OnceIn(lists["hierarchical"], visible)
          /\ OnceIn(lists["graph"], visible)
      BY <3>1 DEF ListNames
    <3> QED
      BY <3>2, RankedLists
  <2>3. visible \in SUBSET Nat /\ query.k \in Nat
    BY ChunksAssumption, AllModes DEF FoundInv, StepInv
  <2> HIDE DEF ranked
  <2>4. ASSUME NEW a \in FoundIn(ranked), NEW b \in Range(results), Leads(ranked, a, b)
        PROVE  a \in Range(results) /\ RankIn(results, a) < RankIn(results, b)
    BY <2>1, <2>2, <2>3, <2>4, Agreement
  <2> QED
    BY <2>4 DEF FusionKeepsAgreement, FoundIn, Leads, ranked
<1> QED
  BY <1>1, <1>2, <1>3, PTL DEF Spec
-----------------------------------------------------------------------------
(* The vector search *)

\* what VectorSearchIsExact says of a list, for the index as it is
Exact(seq) ==
  /\ \A m, n \in DOMAIN seq : m < n => Distance[seq[m]] <= Distance[seq[n]]
  /\ \A c \in Allowed(index, query.filter) \ Range(seq) :
       Cardinality({d \in Stored(index) : Distance[d] <= Distance[c]}) <= MaxCandidates
         => Len(seq) = query.k /\ \A d \in Range(seq) : Distance[d] <= Distance[c]

Nearest(asked) ==
  /\ DOMAIN candidates \in SUBSET DOMAIN index.rows
  /\ Cardinality(DOMAIN candidates) = asked
  /\ \A r \in DOMAIN candidates : candidates[r] = Distance[index.rows[r]]
  /\ \A r \in DOMAIN candidates, o \in DOMAIN index.rows \ DOMAIN candidates :
       Distance[index.rows[r]] <= Distance[index.rows[o]]

Size == Cardinality(DOMAIN index.rows)

LEMMA RowChunks ==
  ASSUME index \in Indexes, NEW r \in DOMAIN index.rows
  PROVE  /\ index.rows[r] \in Stored(index) /\ index.rows[r] \in Chunks
         /\ Distance[index.rows[r]] \in Int
<1>1. index.rows[r] \in Chunks /\ index.rows[r] \in Stored(index)
  BY IndexesAssumption DEF Stored
<1> QED
  BY <1>1, ChunksAssumption

LEMMA FewStored ==
  ASSUME index \in Indexes
  PROVE  IsFiniteSet(Stored(index)) /\ Size \in Nat /\ IsFiniteSet(DOMAIN index.rows)
<1>1. Stored(index) \subseteq Chunks
  BY IndexesAssumption DEF Stored
<1> QED
  BY <1>1, ChunksAssumption, FS_Subset, FewRows, FS_CardinalityType DEF Size

\* the rows that are not farther than a row outside the candidates
LEMMA FartherRow ==
  ASSUME index \in Indexes, NEW asked \in Nat, Nearest(asked),
         NEW r \in DOMAIN index.rows \ DOMAIN candidates
  PROVE  /\ asked < Size
         /\ Cardinality({d \in Stored(index) : Distance[d] <= Distance[index.rows[r]]}) > asked
<1> DEFINE near == DOMAIN candidates
           W == {d \in Stored(index) : Distance[d] <= Distance[index.rows[r]]}
           T == near \cup {r}
           f == [o \in T |-> index.rows[o]]
<1>1. near \in SUBSET DOMAIN index.rows /\ Cardinality(near) = asked /\ r \notin near
  BY DEF Nearest
<1>2. IsFiniteSet(near)
  BY <1>1, FewStored, FS_Subset
<1>3. IsFiniteSet(T) /\ Cardinality(T) = asked + 1
  <2> HIDE DEF near
  <2> QED
    BY <1>1, <1>2, FS_AddElement
<1>4. T \in SUBSET DOMAIN index.rows
  BY <1>1
<1>5. Cardinality(T) <= Size /\ Size \in Nat
  BY <1>4, FewStored, FS_Subset DEF Size
<1>6. IsFiniteSet(W)
  BY FewStored, FS_Subset
<1>7. ASSUME NEW o \in T
      PROVE  index.rows[o] \in W
  <2>1. index.rows[o] \in Stored(index)
    BY <1>4, RowChunks
  <2>2. Distance[index.rows[o]] <= Distance[index.rows[r]]
    <3>1. CASE o \in near
      BY <3>1 DEF Nearest
    <3>2. CASE o = r
      <4>1. Distance[index.rows[r]] \in Int
        BY RowChunks
      <4> QED
        BY <3>2, <4>1
    <3> QED
      BY <3>1, <3>2
  <2> QED
    BY <2>1, <2>2
<1>8. \A o, p \in T : index.rows[o] = index.rows[p] => o = p
  BY <1>4, IndexesAssumption
<1> HIDE DEF near, W, T
<1>9. f \in Injection(T, W)
  BY <1>7, <1>8 DEF Injection, IsInjective
<1> HIDE DEF f
<1>10. Cardinality(T) <= Cardinality(W) /\ Cardinality(W) \in Nat
  BY <1>6, <1>9, FS_Injection, FS_CardinalityType
<1> QED
  BY <1>3, <1>5, <1>10 DEF W

LEMMA HydratedIsExact ==
  ASSUME index \in Indexes, query \in Queries, NEW asked \in Nat, Nearest(asked),
         \/ Len(Hydrated(query.filter)) >= query.k
         \/ asked >= Min({Size, MaxCandidates})
  PROVE  /\ Exact(Cut(Hydrated(query.filter), query.k))
         /\ Len(Cut(Hydrated(query.filter), query.k)) <= query.k
<1> DEFINE H == Hydrated(query.filter)
           k == query.k
           cut == Cut(H, k)
           far(c) == Distance[c]
<1>1. k \in Nat /\ MaxCandidates \in Nat /\ Size \in Nat
  BY AllModes, LimitsAssumption, FewStored
<1>2. \A r \in DOMAIN candidates : candidates[r] \in Int
  BY RowChunks DEF Nearest
<1>3. OnceIn(H, Allowed(index, query.filter))
  BY <1>2, HydratedFinds
<1>4. PICK rows : /\ Lists(rows, RowsLeft(query.filter), RowOrder(RowsLeft(query.filter)))
                  /\ H = [n \in DOMAIN rows |-> index.rows[rows[n]]]
  BY <1>2, HydratedFinds
<1>5. DOMAIN H = DOMAIN rows /\ \A n \in DOMAIN H : H[n] = index.rows[rows[n]]
  BY <1>4
<1>6. ASSUME NEW n \in DOMAIN H
      PROVE  /\ rows[n] \in DOMAIN candidates /\ rows[n] \in DOMAIN index.rows
             /\ candidates[rows[n]] = far(H[n]) /\ far(H[n]) \in Int
  <2>1. rows[n] \in RowsLeft(query.filter)
    BY <1>4, <1>5 DEF Lists
  <2>2. rows[n] \in DOMAIN candidates /\ rows[n] \in DOMAIN index.rows
    BY <2>1 DEF RowsLeft
  <2> QED
    BY <1>5, <2>2, RowChunks DEF Nearest
<1> HIDE DEF H
<1>7. ASSUME NEW m \in DOMAIN H, NEW n \in DOMAIN H, m < n
      PROVE  far(H[m]) <= far(H[n])
  <2>1. <<rows[m], rows[n]>> \in RowOrder(RowsLeft(query.filter))
    BY <1>4, <1>5, <1>7 DEF Lists
  <2>2. candidates[rows[m]] < candidates[rows[n]] \/ candidates[rows[m]] = candidates[rows[n]]
    BY <2>1 DEF RowOrder
  <2> QED
    BY <1>6, <2>2
<1>8. /\ Len(cut) = IF Len(H) < k THEN Len(H) ELSE k
      /\ OnceIn(cut, Allowed(index, query.filter))
      /\ \A n \in DOMAIN cut : n \in DOMAIN H /\ cut[n] = H[n]
  BY <1>1, <1>3, CutOnce
<1> HIDE DEF cut
<1>9. /\ DOMAIN cut = 1..Len(cut) /\ Len(cut) \in Nat
      /\ DOMAIN H = 1..Len(H) /\ Len(H) \in Nat
  BY <1>3, <1>8 DEF OnceIn
<1>10. \A m, n \in DOMAIN cut : m < n => Distance[cut[m]] <= Distance[cut[n]]
  BY <1>7, <1>8
<1>11. ASSUME NEW c \in Allowed(index, query.filter) \ Range(cut),
              Cardinality({d \in Stored(index) : Distance[d] <= Distance[c]}) <= MaxCandidates
       PROVE  Len(cut) = k /\ \A d \in Range(cut) : Distance[d] <= Distance[c]
  <2>1. c \in Stored(index)
    BY AllowedChunks
  <2>2. PICK r \in DOMAIN index.rows : index.rows[r] = c
    BY <2>1 DEF Stored
  <2>3. ASSUME NEW d \in Range(cut)
        PROVE  \E n \in DOMAIN cut : n \in DOMAIN H /\ H[n] = d
    BY <1>8, <2>3 DEF Range
  <2>4. CASE r \in DOMAIN candidates
    <3>1. r \in RowsLeft(query.filter)
      BY <2>2, <2>4 DEF RowsLeft
    <3>2. PICK j \in DOMAIN rows : rows[j] = r
      <4>1. r \in Range(rows)
        BY <1>4, <3>1 DEF Lists
      <4> QED
        BY <4>1 DEF Range
    <3>3. j \in DOMAIN H /\ H[j] = c
      BY <1>5, <2>2, <3>2
    <3>4. j \notin DOMAIN cut
      BY <1>8, <3>3 DEF Range
    <3>5. Len(cut) = k /\ j > Len(cut) /\ j \in Int
      BY <1>1, <1>8, <1>9, <3>3, <3>4
    <3>6. ASSUME NEW d \in Range(cut)
          PROVE  Distance[d] <= Distance[c]
      <4>1. PICK n \in DOMAIN cut : n \in DOMAIN H /\ H[n] = d
        BY <2>3
      <4>2. n < j
        BY <1>9, <3>5, <4>1
      <4> QED
        BY <1>7, <3>3, <4>1, <4>2
    <3> QED
      BY <3>5, <3>6
  <2>5. CASE r \notin DOMAIN candidates
    <3>1. asked < Size
          /\ Cardinality({d \in Stored(index) : Distance[d] <= Distance[c]}) > asked
      BY <2>2, <2>5, FartherRow
    <3>2. Cardinality({d \in Stored(index) : Distance[d] <= Distance[c]}) \in Nat
      BY FewStored, FS_Subset, FS_CardinalityType
    <3>3. asked < MaxCandidates
      BY <1>1, <1>11, <3>1, <3>2
    <3>4. Min({Size, MaxCandidates}) \in {Size, MaxCandidates}
      <4>1. Size \in Int /\ MaxCandidates \in Int
        BY <1>1
      <4> QED
        BY <4>1, GreaterOf
    <3>5. Len(H) >= k
      <4>1. ~(asked >= Min({Size, MaxCandidates}))
        BY <1>1, <3>1, <3>3, <3>4
      <4> QED
        BY <4>1 DEF H
    <3>6. Len(cut) = k
      BY <1>1, <1>8, <1>9, <3>5
    <3>7. ASSUME NEW d \in Range(cut)
          PROVE  Distance[d] <= Distance[c]
      <4>1. PICK n \in DOMAIN cut : n \in DOMAIN H /\ H[n] = d
        BY <2>3
      <4>2. rows[n] \in DOMAIN candidates /\ index.rows[rows[n]] = d
        BY <1>5, <1>6, <4>1
      <4> QED
        BY <2>2, <2>5, <4>2 DEF Nearest
    <3> QED
      BY <3>6, <3>7
  <2> QED
    BY <2>4, <2>5
<1>12. Len(cut) <= k
  BY <1>1, <1>8, <1>9
<1> QED
  BY <1>10, <1>11, <1>12 DEF Exact, cut, H

PoolInv ==
  /\ applies \in Nat /\ pool \in [asked : Nat, most : Nat]
  /\ applies = 0 /\ query.mode = "vector" =>
       /\ pc \in {"candidates", "hydrate"} =>
            pool.most = Min({Size, MaxCandidates}) /\ pool.asked <= pool.most
       /\ pc = "hydrate" => Nearest(pool.asked)
       /\ pc = "cut" => Exact(lists["vector"]) /\ Len(lists["vector"]) <= query.k
       /\ pc = "done" => Exact(results)

LEMMA CutAll ==
  ASSUME NEW S, NEW seq, OnceIn(seq, S), NEW k \in Nat, Len(seq) <= k
  PROVE  Cut(seq, k) = seq
<1>1. seq \in Seq(S) /\ Len(seq) \in Nat
  BY DEF OnceIn
<1>2. Cut(seq, k) = SubSeq(seq, 1, Len(seq))
  BY <1>1 DEF Cut
<1> QED
  BY <1>1, <1>2

LEMMA PoolKept ==
  ASSUME StepInv, WalkInv, FoundInv, PoolInv, [Next]_vars
  PROVE  PoolInv'
<1>0. /\ index \in Indexes /\ query \in Queries /\ query.k \in Nat
      /\ applies \in Nat /\ pool \in [asked : Nat, most : Nat]
      /\ MaxCandidates \in Nat /\ MinCandidates \in Nat /\ CandidateFactor \in Nat
      /\ Size \in Nat
  BY AllModes, LimitsAssumption, FewStored DEF StepInv, WalkInv, PoolInv
<1>1. CASE Apply
  <2>1. applies' = applies + 1 /\ pool' = pool
    BY <1>1 DEF Apply
  <2> QED
    BY <1>0, <2>1 DEF PoolInv
<1>2. CASE UNCHANGED vars
  BY <1>2 DEF PoolInv, vars, Exact, Nearest, Size
<1>5. ASSUME query.mode = "vector"
      PROVE  /\ pc \in VectorSteps \cup {"failed", "cut", "done"}
             /\ Wanted = query.k /\ After("vector", query.mode) = "cut"
  BY <1>5 DEF StepInv, StepsOf, Wanted, After
<1>6. Wanted \in Nat
  BY <1>0, WantedIsNat
<1>7. CASE CountVectors
  <2> DEFINE most == Min({Size, MaxCandidates})
             first == Max({Wanted * CandidateFactor, MinCandidates})
             asked == Min({most, first})
  <2>1. /\ pc = "count" /\ UNCHANGED <<applies, index, query, results>>
        /\ \/ /\ Size = 0 /\ pool' = pool /\ lists' = [lists EXCEPT !["vector"] = <<>>]
              /\ pc' = After("vector", query.mode)
           \/ /\ pool' = [asked |-> asked, most |-> most] /\ pc' = "candidates"
    BY <1>7 DEF CountVectors, At, Finds, Goes, Size
  <2>2. most \in Nat /\ first \in Nat /\ asked \in Nat /\ asked <= most
    <3>1. most \in Nat
      BY <1>0, GreaterOf
    <3>2. Wanted * CandidateFactor \in Nat
      BY <1>0, <1>6
    <3>3. first \in Nat
      BY <1>0, <3>2, GreaterNat
    <3> HIDE DEF most, first
    <3>4. asked \in {most, first} /\ asked <= most
      BY <3>1, <3>3, GreaterOf
    <3> QED
      BY <3>1, <3>3, <3>4
  <2> HIDE DEF first, asked
  <2>3. CASE /\ Size = 0 /\ pool' = pool /\ lists' = [lists EXCEPT !["vector"] = <<>>]
             /\ pc' = After("vector", query.mode)
    <3>1. DOMAIN index.rows = {}
      <4> DEFINE stored == DOMAIN index.rows
      <4>1. IsFiniteSet(stored) /\ Cardinality(stored) = 0
        BY <1>0, <2>3, FewStored DEF Size
      <4> HIDE DEF stored
      <4>2. stored = {}
        BY <4>1, FS_EmptySet
      <4> QED
        BY <4>2 DEF stored
    <3>2. Allowed(index, query.filter) = {}
      BY <3>1 DEF Allowed, Public, Stored
    <3>3. Exact(<<>>)
      BY <3>2 DEF Exact
    <3>4. lists'["vector"] = <<>>
      BY <2>3 DEF FoundInv, ListNames
    <3>5. query.mode = "vector" => Exact(lists["vector"])' /\ Len(lists'["vector"]) <= query.k
      BY <1>0, <2>1, <3>3, <3>4 DEF Exact
    <3>6. query.mode = "vector" => pc' = "cut"
      BY <1>5, <2>3
    <3> QED
      BY <1>0, <2>1, <2>3, <3>5, <3>6 DEF PoolInv
  <2>4. CASE pool' = [asked |-> asked, most |-> most] /\ pc' = "candidates"
    <3>1. pool' \in [asked : Nat, most : Nat] /\ pool'.most = most /\ pool'.asked <= pool'.most
      BY <2>2, <2>4
    <3>2. Size' = Size
      BY <2>1 DEF Size
    <3> QED
      BY <1>0, <2>1, <2>4, <3>1, <3>2 DEF PoolInv
  <2> QED
    BY <2>1, <2>3, <2>4
<1>8. CASE ReadCandidates
  <2>1. /\ pc = "candidates" /\ pc' = "hydrate" /\ UNCHANGED <<applies, index, query, pool>>
        /\ \E near \in SUBSET DOMAIN index.rows :
             /\ Cardinality(near) = Min({pool.asked, Size})
             /\ \A r \in near, o \in DOMAIN index.rows \ near :
                  Distance[index.rows[r]] <= Distance[index.rows[o]]
             /\ candidates' = [r \in near |-> Distance[index.rows[r]]]
    BY <1>8 DEF ReadCandidates, At, Goes, Size
  <2>2. PICK near \in SUBSET DOMAIN index.rows :
          /\ Cardinality(near) = Min({pool.asked, Size})
          /\ \A r \in near, o \in DOMAIN index.rows \ near :
               Distance[index.rows[r]] <= Distance[index.rows[o]]
          /\ candidates' = [r \in near |-> Distance[index.rows[r]]]
    BY <2>1
  <2>3. ASSUME applies = 0, query.mode = "vector"
        PROVE  Nearest(pool.asked)'
    <3>1. pool.most = Min({Size, MaxCandidates}) /\ pool.asked <= pool.most
      BY <2>1, <2>3 DEF PoolInv
    <3>2. pool.asked \in Int /\ Min({Size, MaxCandidates}) <= Size
          /\ Min({Size, MaxCandidates}) \in Int
      BY <1>0, LesserNat
    <3>3. pool.asked <= Size
      BY <1>0, <3>1, <3>2
    <3>4. /\ Min({pool.asked, Size}) \in {pool.asked, Size}
          /\ Min({pool.asked, Size}) <= pool.asked
      <4>1. pool.asked \in Nat
        BY <1>0
      <4> QED
        BY <1>0, <4>1, LesserNat
    <3>5. Min({pool.asked, Size}) = pool.asked
      BY <1>0, <3>2, <3>3, <3>4
    <3>6. DOMAIN candidates' = near /\ \A r \in near : candidates'[r] = Distance[index.rows[r]]
      BY <2>2
    <3> QED
      BY <2>1, <2>2, <3>5, <3>6 DEF Nearest
  <2>4. Size' = Size
    BY <2>1 DEF Size
  <2> QED
    BY <1>0, <2>1, <2>3, <2>4 DEF PoolInv
<1>9. CASE Hydrate
  <2> DEFINE H == Hydrated(query.filter)
             next == Min({pool.most, Max({pool.asked + 1, pool.asked * CandidateFactor})})
  <2>1. /\ pc = "hydrate" /\ UNCHANGED <<applies, index, query, results>>
        /\ \/ /\ Len(H) >= Wanted \/ pool.asked >= pool.most
              /\ pc' = After("vector", query.mode) /\ pool' = pool
              /\ lists' = [lists EXCEPT !["vector"] = Cut(H, Wanted)]
           \/ pool' = [pool EXCEPT !.asked = next] /\ pc' = "candidates"
    BY <1>9 DEF Hydrate, At, Finds, Goes
  <2>2. next \in Nat /\ next <= pool.most
    <3> DEFINE more == Max({pool.asked + 1, pool.asked * CandidateFactor})
    <3>1. pool.most \in Nat /\ pool.asked \in Nat
      BY <1>0
    <3>2. pool.asked + 1 \in Nat /\ pool.asked * CandidateFactor \in Nat
      BY <1>0, <3>1
    <3>3. more \in Nat
      BY <3>2, GreaterNat
    <3> HIDE DEF more
    <3>4. Min({pool.most, more}) \in {pool.most, more} /\ Min({pool.most, more}) <= pool.most
      BY <3>1, <3>3, LesserNat
    <3> QED
      BY <3>1, <3>3, <3>4 DEF more
  <2> HIDE DEF next, H
  <2>3. CASE /\ Len(H) >= Wanted \/ pool.asked >= pool.most
             /\ pc' = After("vector", query.mode) /\ pool' = pool
             /\ lists' = [lists EXCEPT !["vector"] = Cut(H, Wanted)]
    <3>1. lists'["vector"] = Cut(H, Wanted)
      BY <2>3 DEF FoundInv, ListNames
    <3>2. ASSUME applies = 0, query.mode = "vector"
          PROVE  Exact(lists["vector"])' /\ Len(lists'["vector"]) <= query.k /\ pc' = "cut"
      <4>1. Wanted = query.k /\ pc' = "cut"
        BY <1>5, <2>3, <3>2
      <4>2. Nearest(pool.asked) /\ pool.most = Min({Size, MaxCandidates}) /\ pool.asked \in Nat
        BY <1>0, <2>1, <3>2 DEF PoolInv
      <4>3. Exact(Cut(H, query.k)) /\ Len(Cut(H, query.k)) <= query.k
        BY <1>0, <2>3, <4>1, <4>2, HydratedIsExact DEF H
      <4>4. lists'["vector"] = Cut(H, query.k)
        BY <3>1, <4>1
      <4>5. Exact(lists["vector"])'
        BY <2>1, <4>3, <4>4 DEF Exact
      <4> QED
        BY <4>1, <4>3, <4>4, <4>5
    <3> QED
      BY <1>0, <2>1, <2>3, <3>2 DEF PoolInv
  <2>4. CASE pool' = [pool EXCEPT !.asked = next] /\ pc' = "candidates"
    <3>1. /\ pool' \in [asked : Nat, most : Nat]
          /\ pool'.most = pool.most /\ pool'.asked = next
      BY <1>0, <2>2, <2>4
    <3>2. Size' = Size
      BY <2>1 DEF Size
    <3>3. applies = 0 /\ query.mode = "vector" => pool.most = Min({Size, MaxCandidates})
      BY <2>1 DEF PoolInv
    <3> QED
      BY <1>0, <2>1, <2>2, <2>4, <3>1, <3>2, <3>3 DEF PoolInv
  <2> QED
    BY <2>1, <2>3, <2>4
<1>10. CASE Return
  <2>1. /\ pc = "cut" /\ pc' = "done" /\ UNCHANGED <<applies, index, query, pool>>
        /\ results' = Cut(lists[query.mode], query.k)
    BY <1>10 DEF Return, At, Goes
  <2>2. ASSUME applies = 0, query.mode = "vector"
        PROVE  Exact(results)'
    <3>1. Exact(lists["vector"]) /\ Len(lists["vector"]) <= query.k
      BY <2>1, <2>2 DEF PoolInv
    <3>2. OnceIn(lists["vector"], visible)
      BY DEF FoundInv, ListNames
    <3>3. results' = lists["vector"]
      BY <1>0, <2>1, <2>2, <3>1, <3>2, CutAll
    <3> QED
      BY <2>1, <3>1, <3>3 DEF Exact
  <2> QED
    BY <1>0, <2>1, <2>2 DEF PoolInv
<1>11. CASE ValidateProfile
  <2>1. pc' \in {"count", "failed"} /\ UNCHANGED <<applies, query, pool>>
    BY <1>11 DEF ValidateProfile, At, Goes
  <2> QED
    BY <1>0, <2>1 DEF PoolInv
<1>12. CASE \/ Lexical \/ Fuse \/ Blend \/ Rerank \/ SearchDocuments \/ Unscoped \/ SearchSections
            \/ Scoped \/ Resolve \/ Walk \/ LookUpChunks \/ HydrateChunks \/ Fill
  <2>1. pc \in {"lexical", "fuse", "blend", "rerank", "documents", "unscoped", "sections", "scoped",
                "resolve", "walk", "chunks", "fill"} /\ UNCHANGED <<applies, query, pool>>
    BY <1>12 DEF Lexical, Fuse, Blend, Rerank, SearchDocuments, Unscoped, SearchSections, Scoped,
                 Resolve, Walk, LookUpChunks, HydrateChunks, Fill, At
  <2>2. query.mode # "vector"
    BY <1>5, <2>1 DEF VectorSteps
  <2> QED
    BY <1>0, <2>1, <2>2 DEF PoolInv
<1> QED
  BY <1>1, <1>2, <1>7, <1>8, <1>9, <1>10, <1>11, <1>12 DEF Next

(* Without a build in between, the growing pool finds what a search of the whole index   *)
(* would, as far as the largest pool reaches (_search_candidates, _search_vectors).       *)
THEOREM VectorSearchExact == Spec => []VectorSearchIsExact
<1>1. Init => StepInv /\ WalkInv /\ FoundInv /\ PoolInv
  <2> SUFFICES ASSUME Init
               PROVE  StepInv /\ WalkInv /\ FoundInv /\ PoolInv
    OBVIOUS
  <2>1. /\ query.mode \in {"vector", "lexical", "hybrid", "reranked", "hierarchical", "graph",
                           "intelligent"} /\ pc = FirstStep(query.mode)
        /\ applies = 0 /\ pool = [asked |-> 0, most |-> 0]
    BY AllModes DEF Init
  <2>2. pc \notin {"candidates", "hydrate", "cut", "done"}
    BY <2>1 DEF FirstStep
  <2> QED
    BY <2>1, <2>2, Starting DEF PoolInv
<1>2. StepInv /\ WalkInv /\ FoundInv /\ PoolInv /\ [Next]_vars
        => (StepInv /\ WalkInv /\ FoundInv /\ PoolInv)'
  BY StepsFollow, WalkKept, FoundKept, PoolKept
<1>3. PoolInv => VectorSearchIsExact
  BY DEF PoolInv, VectorSearchIsExact, Exact
<1> QED
  BY <1>1, <1>2, <1>3, PTL DEF Spec
-----------------------------------------------------------------------------
(* How far a walk goes: each node of the queue is as near as its hop says.  *)

LEMMA NearStart ==
  ASSUME NEW N, NEW s \in Range(Starts)
  PROVE  s \in Near(N, 0)
<1> DEFINE path == [i \in 0..0 |-> s]
<1>1. s \in Nodes
  BY StartsAreNodes DEF Range
<1>2. path \in [0..0 -> Nodes] /\ path[0] = s /\ Connects(path, 0, N)
  BY <1>1 DEF Connects
<1> QED
  BY <1>1, <1>2 DEF Near

LEMMA NearFarther ==
  ASSUME NEW N, NEW h \in Nat, NEW k \in Nat, h <= k
  PROVE  Near(N, h) \subseteq Near(N, k)
BY DEF Near

LEMMA NearNext ==
  ASSUME NEW N, NEW h \in Nat, NEW o \in Near(N, h), NEW n \in N, NEW m \in Nodes, {o, m} = Ends(n)
  PROVE  m \in Near(N, h + 1)
<1>1. PICK j \in 0..h : \E path \in [0..j -> Nodes] : path[j] = o /\ Connects(path, j, N)
  BY DEF Near
<1>2. PICK path \in [0..j -> Nodes] : path[j] = o /\ Connects(path, j, N)
  BY <1>1
<1> DEFINE longer == [i \in 0..(j + 1) |-> IF i <= j THEN path[i] ELSE m]
<1>3. longer \in [0..(j + 1) -> Nodes] /\ longer[j + 1] = m /\ longer[0] = path[0]
  OBVIOUS
<1>4. \A i \in 0..j : longer[i] = path[i]
  OBVIOUS
<1> HIDE DEF longer
<1>5. ASSUME NEW i \in 1..(j + 1)
      PROVE  \E x \in N : {longer[i - 1], longer[i]} = Ends(x)
  <2>1. CASE i = j + 1
    <3>1. longer[i - 1] = o
      BY <1>2, <1>4, <2>1
    <3> QED
      BY <1>3, <2>1, <3>1
  <2>2. CASE i # j + 1
    <3>1. i \in 1..j /\ i - 1 \in 0..j /\ i \in 0..j
      BY <2>2
    <3> QED
      BY <1>2, <1>4, <3>1 DEF Connects
  <2> QED
    BY <2>1, <2>2
<1>6. Connects(longer, j + 1, N)
  BY <1>2, <1>3, <1>5 DEF Connects
<1>7. j + 1 \in 0..(h + 1)
  OBVIOUS
<1> QED
  BY <1>3, <1>6, <1>7 DEF Near

AllEdges == DOMAIN Edges

NearWalk(w) ==
  /\ \A k \in DOMAIN w.queue : w.queue[k][1] \in Near(AllEdges, w.queue[k][2])
  /\ Range(w.chunks) \subseteq Provenance(AllEdges)

\* what one edge of a node that was taken from the queue changes
VisitTo(w, x, hop, n, m) ==
  \/ w.edges = MaxEdges /\ x = [w EXCEPT !.queue = <<>>]
  \/ /\ w.edges # MaxEdges /\ x.edges = w.edges + 1
     /\ Range(x.chunks) = Range(w.chunks) \cup ({Edges[n].chunk} \ {0})
     /\ \/ /\ m \in w.visited \/ ~(Cardinality(w.visited) < MaxNodes)
           /\ x.queue = w.queue /\ x.visited = w.visited
        \/ /\ m \notin w.visited /\ Cardinality(w.visited) < MaxNodes
           /\ x.queue = Append(w.queue, <<m, hop + 1>>) /\ x.visited = w.visited \cup {m}

LEMMA AddedChunk ==
  ASSUME NEW seq \in Seq(Nat), NEW x \in Nat
  PROVE  Range(AddNew(seq, x, Len(seq) + 1)) = Range(seq) \cup ({x} \ {0})
<1>1. Len(seq) \in Nat /\ ~(Len(seq) >= Len(seq) + 1)
  OBVIOUS
<1>2. CASE x = 0 \/ x \in Range(seq)
  BY <1>2 DEF AddNew
<1>3. CASE x # 0 /\ x \notin Range(seq)
  <2>1. AddNew(seq, x, Len(seq) + 1) = Append(seq, x)
    BY <1>1, <1>3 DEF AddNew
  <2>2. /\ \A k \in 1..Len(seq) : Append(seq, x)[k] = seq[k]
        /\ DOMAIN Append(seq, x) = 1..(Len(seq) + 1) /\ Append(seq, x)[Len(seq) + 1] = x
        /\ DOMAIN seq = 1..Len(seq)
    OBVIOUS
  <2>3. Range(Append(seq, x)) = Range(seq) \cup {x}
    <3>1. \A k \in 1..(Len(seq) + 1) : k = Len(seq) + 1 \/ k \in 1..Len(seq)
      BY <1>1
    <3>2. Len(seq) + 1 \in 1..(Len(seq) + 1) /\ \A k \in 1..Len(seq) : k \in 1..(Len(seq) + 1)
      BY <1>1
    <3> QED
      BY <2>2, <3>1, <3>2 DEF Range
  <2> QED
    BY <1>3, <2>1, <2>3
<1> QED
  BY <1>2, <1>3

LEMMA VisitEffect ==
  ASSUME NEW w \in Walks, NEW node, NEW hop \in Nat, NEW n \in DOMAIN Edges, node \in Ends(n)
  PROVE  \E m \in Nodes : /\ {node, m} = Ends(n) /\ Ends(n) \subseteq Nodes
                          /\ VisitTo(w, Visit(w, node, hop, Edges[n]), hop, n, m)
<1> DEFINE edge == Edges[n]
           m == IF edge.source = node THEN edge.target ELSE edge.source
           new == m \notin w.visited /\ Cardinality(w.visited) < MaxNodes
           chunks == AddNew(w.chunks, edge.chunk, Len(w.chunks) + 1)
           next == [queue |-> IF new THEN Append(w.queue, <<m, hop + 1>>) ELSE w.queue,
                    visited |-> IF new THEN w.visited \cup {m} ELSE w.visited,
                    edges |-> w.edges + 1,
                    docs |-> AddNew(w.docs, edge.doc, MaxDocs),
                    sections |-> AddNew(w.sections, edge.section, Len(w.sections) + 1),
                    chunks |-> chunks]
<1>1. m \in Nodes /\ {node, m} = Ends(n) /\ Ends(n) \subseteq Nodes
  BY NodesAreKnown DEF Ends
<1>2. Visit(w, node, hop, edge) = IF w.edges = MaxEdges THEN [w EXCEPT !.queue = <<>>] ELSE next
  BY DEF Visit
<1>3. Range(chunks) = Range(w.chunks) \cup ({edge.chunk} \ {0})
  <2>1. w.chunks \in Seq(Nat) /\ edge.chunk \in Nat
    BY GraphAssumption DEF Walks
  <2> HIDE DEF edge
  <2> QED
    BY <2>1, AddedChunk
<1> HIDE DEF chunks, m, edge
<1>4. /\ next.edges = w.edges + 1 /\ next.chunks = chunks
      /\ next.queue = IF new THEN Append(w.queue, <<m, hop + 1>>) ELSE w.queue
      /\ next.visited = IF new THEN w.visited \cup {m} ELSE w.visited
  OBVIOUS
<1> HIDE DEF next
<1>5. VisitTo(w, next, hop, n, m) \/ w.edges = MaxEdges
  BY <1>3, <1>4 DEF VisitTo, edge
<1>6. VisitTo(w, Visit(w, node, hop, edge), hop, n, m)
  BY <1>2, <1>5 DEF VisitTo
<1> QED
  BY <1>1, <1>6 DEF edge

LEMMA AppendedQueue ==
  ASSUME NEW S, NEW q \in Seq(S), NEW e \in S, NEW k \in DOMAIN Append(q, e)
  PROVE  \/ k \in DOMAIN q /\ Append(q, e)[k] = q[k]
         \/ k = Len(q) + 1 /\ Append(q, e)[k] = e
  OBVIOUS

LEMMA VisitNear ==
  ASSUME NEW w \in Walks, NearWalk(w), NEW hop \in Nat, hop < MaxHops,
         NEW node \in Near(AllEdges, hop), NEW n \in AllEdges, node \in Ends(n)
  PROVE  NearWalk(Visit(w, node, hop, Edges[n]))
<1> DEFINE x == Visit(w, node, hop, Edges[n])
           Q == Nodes \X Nat
<1>1. PICK m \in Nodes : {node, m} = Ends(n) /\ VisitTo(w, x, hop, n, m)
  BY VisitEffect DEF AllEdges
<1>2. w.queue \in Seq(Q)
  BY DEF Walks
<1>3. CASE w.edges = MaxEdges /\ x = [w EXCEPT !.queue = <<>>]
  <2>1. x.queue = <<>> /\ x.chunks = w.chunks
    BY <1>3 DEF Walks
  <2> QED
    BY <2>1 DEF NearWalk
<1>4. ASSUME w.edges # MaxEdges
      PROVE  NearWalk(x)
  <2> HIDE DEF x
  <2>1. m \in Near(AllEdges, hop + 1)
    BY <1>1, NearNext
  <2>2. Edges[n].chunk # 0 => Edges[n].chunk \in Provenance(AllEdges)
    <3>1. MaxHops - 1 \in Nat /\ hop <= MaxHops - 1
      BY WalkAssumption
    <3>2. node \in Ends(n) \cap Near(AllEdges, MaxHops - 1)
      BY <3>1, NearFarther
    <3> QED
      BY <3>2 DEF Provenance
  <2>3. Range(x.chunks) \subseteq Provenance(AllEdges)
    BY <1>1, <1>4, <2>2 DEF VisitTo, NearWalk
  <2>4. CASE x.queue = w.queue
    BY <2>3, <2>4 DEF NearWalk
  <2>5. CASE x.queue = Append(w.queue, <<m, hop + 1>>)
    <3> DEFINE e == <<m, hop + 1>>
    <3>1. e \in Q /\ e[1] = m /\ e[2] = hop + 1
      OBVIOUS
    <3>2. \A k \in DOMAIN x.queue : (k \in DOMAIN w.queue /\ x.queue[k] = w.queue[k]) \/ x.queue[k] = e
      <4> HIDE DEF e, Q
      <4> QED
        BY <1>2, <2>5, <3>1, AppendedQueue DEF e
    <3> HIDE DEF e
    <3> QED
      BY <2>1, <2>3, <3>1, <3>2 DEF NearWalk
  <2> QED
    BY <1>1, <1>4, <2>4, <2>5 DEF VisitTo
<1> QED
  BY <1>1, <1>3, <1>4 DEF VisitTo

LEMMA ExpandNear ==
  ASSUME NEW w \in Walks, NearWalk(w), NEW hop \in Nat, hop < MaxHops,
         NEW node \in Near(AllEdges, hop), NEW incident \in SUBSET AllEdges,
         \A n \in incident : node \in Ends(n)
  PROVE  NearWalk(Expand(w, node, hop, incident))
<1>0. Runs(w, node, hop, incident)
  <2>1. incident \in SUBSET DOMAIN Edges
    BY DEF AllEdges
  <2> QED
    BY <2>1, ExpandRuns
<1>1. PICK n \in Nat : \E seq \in [1..n -> incident], run \in [0..n -> Walks] :
           /\ run[0] = w /\ run[n] = Expand(w, node, hop, incident)
           /\ \A i \in 1..n : run[i] = Visit(run[i - 1], node, hop, Edges[seq[i]])
  BY <1>0 DEF Runs
<1>2. PICK seq \in [1..n -> incident], run \in [0..n -> Walks] :
           /\ run[0] = w /\ run[n] = Expand(w, node, hop, incident)
           /\ \A i \in 1..n : run[i] = Visit(run[i - 1], node, hop, Edges[seq[i]])
  BY <1>1
<1> DEFINE good == {i \in 0..n : NearWalk(run[i])}
<1>3. 0 \in good
  BY <1>2
<1>4. ASSUME NEW i \in 1..n, i - 1 \in good
      PROVE  i \in good
  <2>1. run[i - 1] \in Walks /\ NearWalk(run[i - 1])
    BY <1>4
  <2>2. seq[i] \in AllEdges /\ node \in Ends(seq[i])
    OBVIOUS
  <2>3. NearWalk(Visit(run[i - 1], node, hop, Edges[seq[i]]))
    BY <2>1, <2>2, VisitNear
  <2> QED
    BY <1>2, <2>3
<1> HIDE DEF good
<1>5. n \in 0..n /\ \A i \in 0..n : i \in good
  BY <1>3, <1>4, LoopEnds
<1> QED
  BY <1>2, <1>5 DEF good

-----------------------------------------------------------------------------
(* How much a walk finds that meets no limit and no build: it goes level by level.    *)

Unlimited(w) == w.edges < MaxEdges /\ Cardinality(w.visited) < MaxNodes

\* edge n of node u has been followed
Done(w, depth, u, n) ==
  /\ Ends(n) \subseteq w.visited /\ \A v \in Ends(n) : depth[v] <= depth[u] + 1
  /\ Edges[n].chunk \in {0} \cup Range(w.chunks)

\* u is still to be expanded, is too far, or all its edges have been followed
Closed(w, depth, u, N) ==
  \/ \E k \in DOMAIN w.queue : w.queue[k][1] = u
  \/ MaxHops <= depth[u]
  \/ \A n \in N : u \in Ends(n) => Done(w, depth, u, n)

\* a walk at level hop: depth gives the hop each node was found at
Level(w, depth, hop, open, N) ==
  /\ Range(Starts) \subseteq w.visited /\ \A s \in Range(Starts) : depth[s] = 0
  /\ \A k \in DOMAIN w.queue :
       /\ w.queue[k][1] \in w.visited /\ depth[w.queue[k][1]] = w.queue[k][2]
       /\ hop <= w.queue[k][2]
  /\ \A k, o \in DOMAIN w.queue : k <= o => w.queue[k][2] <= w.queue[o][2]
  /\ \A u \in w.visited : depth[u] <= hop + 1
  /\ \A u \in w.visited \ open : Closed(w, depth, u, N)

\* x goes on from w: nothing is forgotten
Extends(w, depth, x, d) ==
  /\ w.visited \subseteq x.visited /\ Range(w.chunks) \subseteq Range(x.chunks)
  /\ \A u \in w.visited : d[u] = depth[u]

LEMMA DoneKept ==
  ASSUME NEW w, NEW depth, NEW x, NEW d, Extends(w, depth, x, d),
         NEW u \in w.visited, NEW n, Done(w, depth, u, n)
  PROVE  Done(x, d, u, n)
BY DEF Done, Extends

LEMMA VisitLevel ==
  ASSUME NEW w \in Walks, NEW depth \in [Nodes -> Nat], NEW hop \in Nat, NEW N,
         NEW node \in w.visited, depth[node] = hop, Level(w, depth, hop, {node}, N),
         NEW n \in DOMAIN Edges, node \in Ends(n), NEW x, x = Visit(w, node, hop, Edges[n]),
         Unlimited(x)
  PROVE  \E d \in [Nodes -> Nat] :
           /\ Level(x, d, hop, {node}, N) /\ Extends(w, depth, x, d) /\ Done(x, d, node, n)
<1> DEFINE Q == Nodes \X Nat
<1>1. PICK m \in Nodes : {node, m} = Ends(n) /\ VisitTo(w, x, hop, n, m)
  BY VisitEffect
<1>2. /\ w.queue \in Seq(Q) /\ w.visited \in SUBSET Nodes /\ w.edges \in Nat
      /\ w.chunks \in Seq(Nat)
  BY DEF Walks
<1>3. w.edges # MaxEdges
  <2> SUFFICES ASSUME w.edges = MaxEdges
               PROVE  FALSE
    OBVIOUS
  <2>1. x = [w EXCEPT !.queue = <<>>]
    BY <1>1 DEF VisitTo
  <2>2. x.edges = w.edges
    BY <2>1 DEF Walks
  <2> QED
    BY <1>2, <2>2 DEF Unlimited
<1>4. Range(x.chunks) = Range(w.chunks) \cup ({Edges[n].chunk} \ {0})
  BY <1>1, <1>3 DEF VisitTo
<1>5. CASE m \in w.visited /\ x.queue = w.queue /\ x.visited = w.visited
  <2>1. Extends(w, depth, x, depth)
    BY <1>4, <1>5 DEF Extends
  <2>2. Done(x, depth, node, n)
    BY <1>1, <1>4, <1>5 DEF Done, Level
  <2>3. \A u \in w.visited \ {node} : Closed(x, depth, u, N)
    BY <1>5, <2>1, DoneKept DEF Level, Closed
  <2>4. Level(x, depth, hop, {node}, N)
    BY <1>5, <2>3 DEF Level
  <2> QED
    BY <2>1, <2>2, <2>4
<1>6. CASE /\ m \notin w.visited
           /\ x.queue = Append(w.queue, <<m, hop + 1>>) /\ x.visited = w.visited \cup {m}
  <2> DEFINE e == <<m, hop + 1>>
             d == [depth EXCEPT ![m] = hop + 1]
  <2>1. d \in [Nodes -> Nat] /\ d[m] = hop + 1 /\ \A u \in w.visited : d[u] = depth[u]
    BY <1>2, <1>6
  <2>2. e \in Q /\ e[1] = m /\ e[2] = hop + 1
    OBVIOUS
  <2> HIDE DEF d, e, Q
  <2>3. Extends(w, depth, x, d)
    BY <1>4, <1>6, <2>1 DEF Extends
  <2>4. Done(x, d, node, n)
    <3>1. \A v \in Ends(n) : v = node \/ v = m
      BY <1>1
    <3>2. d[node] = hop /\ d[m] = hop + 1
      BY <2>1
    <3> QED
      BY <1>1, <1>4, <1>6, <3>1, <3>2 DEF Done
  <2>5. \A k \in DOMAIN x.queue :
          \/ k \in DOMAIN w.queue /\ x.queue[k] = w.queue[k]
          \/ k = Len(w.queue) + 1 /\ x.queue[k] = e
    BY <1>2, <1>6, <2>2, AppendedQueue DEF e
  <2>6. \A k \in DOMAIN w.queue : k \in DOMAIN x.queue /\ x.queue[k] = w.queue[k]
    <3>1. DOMAIN w.queue = 1..Len(w.queue) /\ Len(w.queue) \in Nat
      BY <1>2
    <3>2. DOMAIN x.queue = 1..(Len(w.queue) + 1) /\ \A k \in 1..Len(w.queue) : x.queue[k] = w.queue[k]
      BY <1>2, <1>6, <2>2 DEF e
    <3> QED
      BY <3>1, <3>2
  <2>7. Len(w.queue) + 1 \in DOMAIN x.queue /\ x.queue[Len(w.queue) + 1] = e
    BY <1>2, <1>6, <2>2 DEF e
  <2>8. \A u \in x.visited \ {node} : Closed(x, d, u, N)
    <3> SUFFICES ASSUME NEW u \in x.visited \ {node}
                 PROVE  Closed(x, d, u, N)
      OBVIOUS
    <3>1. CASE u = m
      BY <2>2, <2>7, <3>1 DEF Closed
    <3>2. CASE u # m
      <4>1. u \in w.visited \ {node}
        BY <1>6, <3>2
      <4>2. Closed(w, depth, u, N)
        BY <4>1 DEF Level
      <4> QED
        BY <2>1, <2>3, <2>6, <4>1, <4>2, DoneKept DEF Closed
    <3> QED
      BY <3>1, <3>2
  <2>9. \A k \in DOMAIN x.queue : /\ x.queue[k][1] \in x.visited /\ d[x.queue[k][1]] = x.queue[k][2]
                                  /\ hop <= x.queue[k][2] /\ x.queue[k][2] <= hop + 1
    <3> SUFFICES ASSUME NEW k \in DOMAIN x.queue
                 PROVE  /\ x.queue[k][1] \in x.visited /\ d[x.queue[k][1]] = x.queue[k][2]
                        /\ hop <= x.queue[k][2] /\ x.queue[k][2] <= hop + 1
      OBVIOUS
    <3>1. CASE k \in DOMAIN w.queue /\ x.queue[k] = w.queue[k]
      <4>1. /\ w.queue[k][1] \in w.visited /\ depth[w.queue[k][1]] = w.queue[k][2]
            /\ hop <= w.queue[k][2] /\ depth[w.queue[k][1]] <= hop + 1
        BY <3>1 DEF Level
      <4> QED
        BY <1>6, <2>1, <3>1, <4>1
    <3>2. CASE x.queue[k] = e
      BY <1>6, <2>1, <2>2, <3>2
    <3> QED
      BY <2>5, <3>1, <3>2
  <2>10. \A k, o \in DOMAIN x.queue : k <= o => x.queue[k][2] <= x.queue[o][2]
    <3> SUFFICES ASSUME NEW k \in DOMAIN x.queue, NEW o \in DOMAIN x.queue, k <= o
                 PROVE  x.queue[k][2] <= x.queue[o][2]
      OBVIOUS
    <3>1. CASE x.queue[o] = e
      BY <2>2, <2>9, <3>1
    <3>2. CASE o \in DOMAIN w.queue /\ x.queue[o] = w.queue[o]
      <4>1. k \in DOMAIN w.queue /\ x.queue[k] = w.queue[k]
        <5>1. DOMAIN w.queue = 1..Len(w.queue) /\ Len(w.queue) \in Nat
          BY <1>2
        <5>2. o <= Len(w.queue) /\ o \in Nat
          BY <3>2, <5>1
        <5>3. k # Len(w.queue) + 1
          BY <5>1, <5>2
        <5> QED
          BY <2>5, <5>3
      <4> QED
        BY <3>2, <4>1 DEF Level
    <3> QED
      BY <2>5, <3>1, <3>2
  <2>11. \A u \in x.visited : d[u] <= hop + 1
    BY <1>6, <2>1 DEF Level
  <2>12. Range(Starts) \subseteq x.visited /\ \A s \in Range(Starts) : d[s] = 0
    BY <1>6, <2>1 DEF Level
  <2>13. Level(x, d, hop, {node}, N)
    BY <2>8, <2>9, <2>10, <2>11, <2>12 DEF Level
  <2> QED
    BY <2>1, <2>3, <2>4, <2>13
<1>7. m \in w.visited \/ Cardinality(w.visited) < MaxNodes
  BY <1>1, <1>3 DEF VisitTo, Unlimited
<1> QED
  BY <1>1, <1>3, <1>5, <1>6, <1>7 DEF VisitTo

LEMMA VisitUnlimited ==
  ASSUME NEW w \in Walks, NEW hop \in Nat, NEW n \in DOMAIN Edges, NEW node, node \in Ends(n),
         NEW x, x = Visit(w, node, hop, Edges[n]), Unlimited(x)
  PROVE  Unlimited(w)
<1>1. PICK m \in Nodes : {node, m} = Ends(n) /\ VisitTo(w, x, hop, n, m)
  BY VisitEffect
<1>2. w.edges \in Nat /\ MaxEdges \in Nat
  BY WalkAssumption DEF Walks
<1>3. CASE x = [w EXCEPT !.queue = <<>>]
  <2>1. x.edges = w.edges /\ x.visited = w.visited
    BY <1>3 DEF Walks
  <2> QED
    BY <2>1 DEF Unlimited
<1>4. CASE x.edges = w.edges + 1
  BY <1>1, <1>2, <1>4 DEF VisitTo, Unlimited
<1> QED
  BY <1>1, <1>3, <1>4 DEF VisitTo

\* a walk that is expanding a node of level hop and has followed the edges S of it
Expanding(w, hop, node, N, S) ==
  \E d \in [Nodes -> Nat] : /\ Level(w, d, hop, {node}, N) /\ node \in w.visited /\ d[node] = hop
                            /\ \A n \in S : Done(w, d, node, n)

LEMMA ExpandLevel ==
  ASSUME NEW w \in Walks, NEW hop \in Nat, NEW N \in SUBSET DOMAIN Edges, NEW node,
         Unlimited(w) => Expanding(w, hop, node, N, {}),
         NEW x, x = Expand(w, node, hop, {n \in N : node \in Ends(n)}), Unlimited(x)
  PROVE  \E d \in [Nodes -> Nat] : Level(x, d, hop, {}, N)
<1> DEFINE incident == {n \in N : node \in Ends(n)}
<1>0. Runs(w, node, hop, incident)
  <2>1. incident \in SUBSET DOMAIN Edges
    OBVIOUS
  <2> HIDE DEF incident
  <2> QED
    BY <2>1, ExpandRuns
<1>1. PICK n \in Nat : \E seq \in [1..n -> incident], run \in [0..n -> Walks] :
           /\ \A e \in incident : \E i \in 1..n : seq[i] = e
           /\ run[0] = w /\ run[n] = Expand(w, node, hop, incident)
           /\ \A i \in 1..n : run[i] = Visit(run[i - 1], node, hop, Edges[seq[i]])
  BY <1>0 DEF Runs
<1>2. PICK seq \in [1..n -> incident], run \in [0..n -> Walks] :
           /\ \A e \in incident : \E i \in 1..n : seq[i] = e
           /\ run[0] = w /\ run[n] = x
           /\ \A i \in 1..n : run[i] = Visit(run[i - 1], node, hop, Edges[seq[i]])
  BY <1>1
<1> DEFINE part == [i \in 0..n |-> {seq[k] : k \in 1..i}]
<1>3. /\ part[0] = {} /\ \A e \in incident : e \in part[n]
      /\ \A i \in 1..n : i - 1 \in 0..n /\ part[i] = part[i - 1] \cup {seq[i]}
  <2>1. 0 \in 0..n /\ n \in 0..n /\ 1..0 = {}
    OBVIOUS
  <2>2. ASSUME NEW i \in 1..n
        PROVE  i - 1 \in 0..n /\ part[i] = part[i - 1] \cup {seq[i]}
    <3>1. 1..i = (1..(i - 1)) \cup {i} /\ i - 1 \in 0..n /\ i \in 0..n
      OBVIOUS
    <3> QED
      BY <3>1
  <2>3. part[n] = {seq[k] : k \in 1..n} /\ part[0] = {}
    BY <2>1
  <2> QED
    BY <1>2, <2>2, <2>3
<1> HIDE DEF part
<1> DEFINE Holds(i) == Unlimited(run[i]) => Expanding(run[i], hop, node, N, part[i])
           good == {i \in 0..n : Holds(i)}
<1>4. Holds(0)
  <2>1. run[0] = w /\ part[0] = {}
    BY <1>2, <1>3
  <2> QED
    BY <2>1
<1>5. ASSUME NEW i \in 1..n, Holds(i - 1)
      PROVE  Holds(i)
  <2> SUFFICES ASSUME Unlimited(run[i])
               PROVE  Expanding(run[i], hop, node, N, part[i])
    OBVIOUS
  <2>1. /\ i - 1 \in 0..n /\ run[i - 1] \in Walks /\ seq[i] \in DOMAIN Edges /\ node \in Ends(seq[i])
        /\ run[i] = Visit(run[i - 1], node, hop, Edges[seq[i]])
    BY <1>2
  <2>2. Unlimited(run[i - 1])
    BY <2>1, VisitUnlimited
  <2>3. Expanding(run[i - 1], hop, node, N, part[i - 1])
    BY <1>5, <2>2
  <2>4. PICK depth \in [Nodes -> Nat] :
          /\ Level(run[i - 1], depth, hop, {node}, N)
          /\ node \in run[i - 1].visited /\ depth[node] = hop
          /\ \A e \in part[i - 1] : Done(run[i - 1], depth, node, e)
    BY <2>3 DEF Expanding
  <2>5. PICK d \in [Nodes -> Nat] :
          /\ Level(run[i], d, hop, {node}, N) /\ Extends(run[i - 1], depth, run[i], d)
          /\ Done(run[i], d, node, seq[i])
    BY <2>1, <2>4, VisitLevel
  <2>6. node \in run[i].visited /\ d[node] = hop
    BY <2>4, <2>5 DEF Extends
  <2>7. \A e \in part[i] : Done(run[i], d, node, e)
    BY <1>3, <2>4, <2>5, DoneKept
  <2> QED
    BY <2>5, <2>6, <2>7 DEF Expanding
<1>6. Holds(n)
  <2> HIDE DEF Holds
  <2>1. 0 \in good /\ n \in 0..n
    BY <1>4
  <2>2. \A i \in 1..n : i - 1 \in good => i \in good
    BY <1>5
  <2> HIDE DEF good
  <2>3. n \in good
    BY <2>1, <2>2, LoopEnds
  <2> QED
    BY <2>3 DEF good
<1>7. run[n] = x
  BY <1>2
<1>8. PICK d \in [Nodes -> Nat] :
        /\ Level(x, d, hop, {node}, N) /\ \A e \in part[n] : Done(x, d, node, e)
  BY <1>6, <1>7 DEF Expanding
<1>9. Closed(x, d, node, N)
  BY <1>3, <1>8 DEF Closed
<1>10. Level(x, d, hop, {}, N)
  BY <1>8, <1>9 DEF Level
<1> QED
  BY <1>10

\* rest is w without the node, found at level hop, that was next in its queue
Taken(w, node, hop, rest) ==
  /\ w.queue # <<>> /\ node = Head(w.queue)[1] /\ hop = Head(w.queue)[2]
  /\ rest.queue = Tail(w.queue) /\ rest.visited = w.visited /\ rest.chunks = w.chunks

LEMMA TakenLevel ==
  ASSUME NEW w \in Walks, NEW N, NEW d \in [Nodes -> Nat], NEW old \in Nat,
         Level(w, d, old, {}, N), NEW node, NEW hop, NEW rest, Taken(w, node, hop, rest)
  PROVE  /\ hop \in Nat /\ Level(rest, d, hop, {node}, N)
         /\ node \in rest.visited /\ d[node] = hop
<1> DEFINE q == w.queue
           Q == Nodes \X Nat
<1>1. q \in Seq(Q) /\ q # <<>>
  BY DEF Walks, Taken
<1>2. /\ rest.queue = Tail(q) /\ rest.visited = w.visited /\ rest.chunks = w.chunks
  BY DEF Taken
<1>3. /\ 1 \in DOMAIN q /\ q[1] = Head(q) /\ q[1] \in Q
      /\ \A k \in DOMAIN Tail(q) : k \in Nat /\ k + 1 \in DOMAIN q /\ Tail(q)[k] = q[k + 1]
      /\ \A k \in DOMAIN q : k = 1 \/ (k - 1 \in DOMAIN Tail(q) /\ Tail(q)[k - 1] = q[k])
      /\ \A k \in DOMAIN q : k \in Nat /\ 1 <= k
  <2> HIDE DEF q, Q
  <2> QED
    BY <1>1
<1>4. node = q[1][1] /\ hop = q[1][2] /\ hop \in Nat
  BY <1>3 DEF Taken
<1>5. /\ \A s \in Range(Starts) : d[s] = 0
      /\ Range(Starts) \subseteq w.visited
      /\ \A k \in DOMAIN q : q[k][1] \in w.visited /\ d[q[k][1]] = q[k][2] /\ old <= q[k][2]
      /\ \A k, o \in DOMAIN q : k <= o => q[k][2] <= q[o][2]
      /\ \A u \in w.visited : d[u] <= old + 1
      /\ \A u \in w.visited : Closed(w, d, u, N)
  BY DEF Level
<1> HIDE DEF q
<1>6. \A k \in DOMAIN Tail(q) : /\ Tail(q)[k][1] \in w.visited /\ d[Tail(q)[k][1]] = Tail(q)[k][2]
                                /\ hop <= Tail(q)[k][2]
  BY <1>3, <1>4, <1>5
<1>7. \A k, o \in DOMAIN Tail(q) : k <= o => Tail(q)[k][2] <= Tail(q)[o][2]
  <2> SUFFICES ASSUME NEW k \in DOMAIN Tail(q), NEW o \in DOMAIN Tail(q), k <= o
               PROVE  Tail(q)[k][2] <= Tail(q)[o][2]
    OBVIOUS
  <2>1. k + 1 <= o + 1 /\ k + 1 \in DOMAIN q /\ o + 1 \in DOMAIN q
    BY <1>3
  <2>2. q[k + 1][2] <= q[o + 1][2]
    BY <1>5, <2>1
  <2> QED
    BY <1>3, <2>2
<1>8. \A u \in w.visited : d[u] <= hop + 1
  <2>1. old <= hop
    BY <1>3, <1>4, <1>5
  <2>2. \A u \in w.visited : u \in Nodes
    BY DEF Walks
  <2>3. \A u \in w.visited : d[u] \in Nat
    BY <2>2
  <2> QED
    BY <1>4, <1>5, <2>1, <2>3
<1>9. \A u \in w.visited \ {node} : Closed(rest, d, u, N)
  <2> SUFFICES ASSUME NEW u \in w.visited \ {node}
               PROVE  Closed(rest, d, u, N)
    OBVIOUS
  <2>1. CASE \E k \in DOMAIN q : q[k][1] = u
    <3>1. PICK k \in DOMAIN q : q[k][1] = u
      BY <2>1
    <3>2. k # 1
      BY <1>4, <3>1
    <3>3. k - 1 \in DOMAIN Tail(q) /\ Tail(q)[k - 1][1] = u
      BY <1>3, <3>1, <3>2
    <3> QED
      BY <1>2, <3>3 DEF Closed
  <2>2. CASE MaxHops <= d[u]
    BY <2>2 DEF Closed
  <2>3. CASE \A n \in N : u \in Ends(n) => Done(w, d, u, n)
    BY <1>2, <2>3 DEF Closed, Done
  <2> QED
    BY <1>5, <2>1, <2>2, <2>3 DEF Closed, q
<1>10. Level(rest, d, hop, {node}, N)
  BY <1>2, <1>5, <1>6, <1>7, <1>8, <1>9 DEF Level
<1> QED
  BY <1>2, <1>3, <1>4, <1>5, <1>10

\* an empty queue: every edge near enough has been followed
LEMMA LevelsReach ==
  ASSUME NEW w \in Walks, w.queue = <<>>, NEW N \in SUBSET DOMAIN Edges, NEW hop \in Nat,
         NEW depth \in [Nodes -> Nat], Level(w, depth, hop, {}, N)
  PROVE  Provenance(N) \subseteq Range(w.chunks)
<1> SUFFICES ASSUME NEW n \in N, Ends(n) \cap Near(N, MaxHops - 1) # {}, Edges[n].chunk # 0
             PROVE  Edges[n].chunk \in Range(w.chunks)
  BY DEF Provenance
<1>1. PICK u \in Ends(n) : u \in Near(N, MaxHops - 1)
  OBVIOUS
<1>2. MaxHops - 1 \in Nat /\ MaxHops \in Nat
  BY WalkAssumption
<1>3. PICK j \in 0..(MaxHops - 1) : \E path \in [0..j -> Nodes] : path[j] = u /\ Connects(path, j, N)
  BY <1>1 DEF Near
<1>4. PICK path \in [0..j -> Nodes] : path[j] = u /\ Connects(path, j, N)
  BY <1>3
<1>5. ASSUME NEW v \in w.visited, depth[v] < MaxHops, NEW e \in N, v \in Ends(e)
      PROVE  Done(w, depth, v, e)
  <2>1. depth[v] \in Nat
    BY DEF Walks
  <2>2. Closed(w, depth, v, N) /\ ~(MaxHops <= depth[v])
    BY <1>2, <1>5, <2>1 DEF Level
  <2> QED
    BY <1>5, <2>2 DEF Closed
<1> DEFINE good == {i \in 0..j : path[i] \in w.visited /\ depth[path[i]] <= i}
<1>6. 0 \in good
  BY <1>4 DEF Connects, Level
<1>7. ASSUME NEW i \in 1..j, i - 1 \in good
      PROVE  i \in good
  <2>1. path[i - 1] \in w.visited /\ depth[path[i - 1]] <= i - 1 /\ i \in 0..j /\ i - 1 \in 0..j
    BY <1>7
  <2>2. PICK e \in N : {path[i - 1], path[i]} = Ends(e)
    BY <1>4 DEF Connects
  <2>3. path[i - 1] \in Nodes /\ path[i] \in Nodes
    BY <2>1
  <2>4. depth[path[i - 1]] \in Nat /\ depth[path[i]] \in Nat
    BY <2>3
  <2>5. depth[path[i - 1]] < MaxHops
    BY <1>2, <2>1, <2>4
  <2>6. Done(w, depth, path[i - 1], e)
    BY <1>5, <2>1, <2>2, <2>5
  <2>7. path[i] \in w.visited /\ depth[path[i]] <= depth[path[i - 1]] + 1
    BY <2>2, <2>6 DEF Done
  <2> QED
    BY <2>1, <2>4, <2>7
<1> HIDE DEF good
<1>8. j \in Nat /\ j \in 0..j /\ \A i \in 0..j : i \in good
  <2>1. j \in Nat /\ j \in 0..j
    BY <1>2
  <2> QED
    BY <1>6, <1>7, <2>1, LoopEnds
<1>9. u \in w.visited /\ depth[u] <= j /\ depth[u] \in Nat
  <2>1. u \in w.visited /\ depth[u] <= j /\ path[j] \in Nodes
    BY <1>4, <1>8 DEF good
  <2> QED
    BY <1>4, <2>1
<1>10. Done(w, depth, u, n)
  BY <1>1, <1>2, <1>3, <1>5, <1>9
<1> QED
  BY <1>10 DEF Done

GraphInv ==
  /\ applies \in Nat
  /\ pc \in {"walk", "chunks"} => NearWalk(walk)
  /\ pc \in {"walk", "chunks"} /\ applies = 0 /\ Unlimited(walk) =>
       \E d \in [Nodes -> Nat], hop \in Nat : Level(walk, d, hop, {}, EdgesOf(index))
  /\ pc = "chunks" => walk.queue = <<>> \/ ~Unlimited(walk)

LEMMA FewValues ==
  ASSUME NEW n \in Nat, NEW S, NEW f \in [1..n -> S]
  PROVE  IsFiniteSet(Range(f))
<1>1. f \in Surjection(1..n, Range(f))
  BY DEF Surjection, Range
<1> QED
  BY <1>1, FS_Interval, FS_Surjection

LEMMA NodesAreFinite == IsFiniteSet(Nodes)
<1> DEFINE E == 1..Len(Edges)
           M == 1..Len(Mentions)
<1>1. /\ DOMAIN Edges = E /\ DOMAIN Mentions = M
      /\ Len(Edges) \in Nat /\ Len(Mentions) \in Nat
  BY GraphAssumption
<1> HIDE DEF E, M
<1> DEFINE sources == {Edges[n].source : n \in E}
           targets == {Edges[n].target : n \in E}
           named == {Mentions[n].node : n \in M}
<1>2. IsFiniteSet(sources) /\ IsFiniteSet(targets) /\ IsFiniteSet(named)
  <2> DEFINE source == [n \in E |-> Edges[n].source]
             target == [n \in E |-> Edges[n].target]
             node == [n \in M |-> Mentions[n].node]
  <2>1. sources = Range(source) /\ targets = Range(target) /\ named = Range(node)
    BY DEF Range
  <2>2. source \in [E -> sources] /\ target \in [E -> targets] /\ node \in [M -> named]
    OBVIOUS
  <2> HIDE DEF source, target, node, sources, targets, named
  <2>3. IsFiniteSet(Range(source)) /\ IsFiniteSet(Range(target)) /\ IsFiniteSet(Range(node))
    BY <1>1, <2>2, FewValues DEF E, M
  <2> QED
    BY <2>1, <2>3
<1>3. Nodes \subseteq sources \cup targets \cup named
  <2> SUFFICES ASSUME NEW x \in Nodes
               PROVE  x \in sources \cup targets \cup named
    OBVIOUS
  <2>1. (\E e \in Range(Edges) : x = e.source \/ x = e.target) \/ \E m \in Range(Mentions) : x = m.node
    BY DEF Nodes
  <2> QED
    BY <1>1, <2>1 DEF Range
<1> HIDE DEF sources, targets, named
<1>4. IsFiniteSet(sources \cup targets \cup named)
  BY <1>2, FS_Union
<1> QED
  BY <1>3, <1>4, FS_Subset

LEMMA AfterWalk ==
  ASSUME NEW step \in {"vector", "lexical", "hybrid", "hierarchical", "graph"}, NEW mode
  PROVE  After(step, mode) \notin {"walk", "chunks"}
BY DEF After

LEMMA GraphStarts ==
  ASSUME Init
  PROVE  GraphInv
<1>1. applies = 0 /\ pc \notin {"walk", "chunks"}
  BY ModesAssumption DEF Init, FirstStep, Modes
<1> QED
  BY <1>1 DEF GraphInv

LEMMA GraphKept ==
  ASSUME WalkInv, GraphInv, [Next]_vars
  PROVE  GraphInv'
<1>0. walk \in Walks /\ applies \in Nat
  BY DEF WalkInv, GraphInv
<1>1. CASE Apply
  <2>1. applies' # 0 /\ applies' \in Nat /\ UNCHANGED <<pc, walk>>
    BY <1>0, <1>1 DEF Apply
  <2>2. pc' \in {"walk", "chunks"} => NearWalk(walk')
    BY <2>1 DEF GraphInv
  <2>3. pc' = "chunks" => walk'.queue = <<>> \/ ~Unlimited(walk')
    BY <2>1 DEF GraphInv
  <2> QED
    BY <2>1, <2>2, <2>3 DEF GraphInv
<1>2. CASE UNCHANGED vars
  <2>1. UNCHANGED <<pc, walk, applies, index>>
    BY <1>2 DEF vars
  <2>2. EdgesOf(index') = EdgesOf(index)
    BY <2>1
  <2> QED
    BY <2>1, <2>2 DEF GraphInv
<1>3. CASE pc' \notin {"walk", "chunks"} /\ applies' = applies
  BY <1>0, <1>3 DEF GraphInv
<1>4. CASE \/ ValidateProfile \/ CountVectors \/ ReadCandidates \/ Hydrate \/ Lexical
           \/ Fuse \/ Blend \/ Rerank \/ Return
  <2>1. applies' = applies
    BY <1>4 DEF At, ValidateProfile, CountVectors, ReadCandidates, Hydrate, Lexical, Fuse,
                Blend, Rerank, Return
  <2>2. pc' \notin {"walk", "chunks"}
    BY <1>4, AfterWalk DEF Goes, Finds, ValidateProfile, CountVectors, ReadCandidates,
                           Hydrate, Lexical, Fuse, Blend, Rerank, Return
  <2> QED
    BY <1>3, <2>1, <2>2
<1>5. CASE SearchDocuments \/ Unscoped \/ SearchSections \/ Scoped \/ HydrateChunks \/ Fill
  <2>1. applies' = applies
    BY <1>5 DEF At, SearchDocuments, Unscoped, SearchSections, Scoped, HydrateChunks, Fill
  <2>2. pc' \notin {"walk", "chunks"}
    BY <1>5, AfterWalk DEF Goes, Finds, SearchDocuments, Unscoped, SearchSections, Scoped,
                           HydrateChunks, Fill
  <2> QED
    BY <1>3, <2>1, <2>2
<1>6. CASE LookUpChunks
  <2>1. /\ UNCHANGED <<walk, applies, index>> /\ pc = "walk" /\ pc' = "chunks"
        /\ walk.queue = <<>> \/ Cardinality(walk.visited) > MaxNodes
    BY <1>6 DEF LookUpChunks, At, Goes
  <2>2. Cardinality(walk.visited) \in Nat /\ MaxNodes \in Nat
    <3>1. walk.visited \in SUBSET Nodes
      BY <1>0 DEF Walks
    <3> QED
      BY <3>1, NodesAreFinite, FS_Subset, FS_CardinalityType, WalkAssumption
  <2>3. walk.queue = <<>> \/ ~Unlimited(walk)
    BY <2>1, <2>2 DEF Unlimited
  <2>4. EdgesOf(index') = EdgesOf(index)
    BY <2>1
  <2> QED
    BY <2>1, <2>3, <2>4 DEF GraphInv
<1>7. CASE Resolve
  <2> DEFINE queue == [n \in DOMAIN Starts |-> <<Starts[n], 0>>]
             seen == Range(Starts)
  <2>1. /\ applies' = applies
        /\ \/ pc' = After("graph", query.mode)
           \/ pc' = "walk" /\ walk' = [NoWalk EXCEPT !.queue = queue, !.visited = seen]
    BY <1>7 DEF Resolve, At, Goes, Finds
  <2>2. CASE pc' = "walk" /\ walk' = [NoWalk EXCEPT !.queue = queue, !.visited = seen]
    <3> HIDE DEF queue, seen
    <3>1. walk'.queue = queue /\ walk'.visited = seen /\ walk'.chunks = <<>>
      BY <2>2 DEF NoWalk
    <3>2. \A k \in DOMAIN queue : queue[k][1] \in seen /\ queue[k][2] = 0
      BY DEF queue, seen, Range
    <3>3. \A s \in seen : \E k \in DOMAIN queue : queue[k][1] = s
      BY DEF queue, seen, Range
    <3>4. seen \subseteq Nodes
      BY StartsAreNodes DEF seen, Range
    <3>5. NearWalk(walk')
      <4>1. \A k \in DOMAIN queue : queue[k][1] \in Near(AllEdges, queue[k][2])
        BY <3>2, NearStart DEF seen
      <4> QED
        BY <3>1, <4>1 DEF NearWalk, Range
    <3> DEFINE d == [x \in Nodes |-> 0]
    <3>6. d \in [Nodes -> Nat] /\ \A s \in seen : d[s] = 0
      BY <3>4
    <3> HIDE DEF d
    <3>7. Level(walk', d, 0, {}, EdgesOf(index'))
      BY <3>1, <3>2, <3>3, <3>6 DEF Level, Closed, seen
    <3> QED
      BY <1>0, <2>1, <2>2, <3>5, <3>6, <3>7 DEF GraphInv
  <2> QED
    BY <1>3, <2>1, <2>2, AfterWalk
<1>8. CASE Walk
  <2> DEFINE node == Head(walk.queue)[1]
             hop == Head(walk.queue)[2]
             rest == [walk EXCEPT !.queue = Tail(@)]
             N == EdgesOf(index)
             incident == {n \in N : node \in Ends(n)}
  <2>1. /\ UNCHANGED <<applies, index>> /\ pc = "walk" /\ pc' = "walk" /\ walk.queue # <<>>
        /\ \/ hop >= MaxHops /\ walk' = rest
           \/ ~(hop >= MaxHops) /\ walk' = Expand(rest, node, hop, incident)
    BY <1>8 DEF Walk, At, Goes, Ends
  <2>2. walk.queue \in Seq(Nodes \X Nat)
    BY <1>0 DEF Walks
  <2>3. /\ Head(walk.queue) \in Nodes \X Nat /\ Tail(walk.queue) \in Seq(Nodes \X Nat)
        /\ 1 \in DOMAIN walk.queue /\ walk.queue[1] = Head(walk.queue)
        /\ \A k \in DOMAIN Tail(walk.queue) : /\ k + 1 \in DOMAIN walk.queue
                                              /\ Tail(walk.queue)[k] = walk.queue[k + 1]
    BY <2>1, <2>2
  <2>4. hop \in Nat /\ MaxHops \in Nat
    BY <2>3, WalkAssumption
  <2>5. rest \in Walks
    BY <1>0, <2>3, QueueChanged
  <2>6. /\ rest.queue = Tail(walk.queue) /\ rest.visited = walk.visited
        /\ rest.edges = walk.edges /\ rest.chunks = walk.chunks
    BY <1>0 DEF Walks
  <2>7. N \in SUBSET DOMAIN Edges /\ EdgesOf(index') = N
    BY <2>1 DEF EdgesOf
  <2>8. NearWalk(rest) /\ node \in Near(AllEdges, hop)
    <3>1. NearWalk(walk)
      BY <2>1 DEF GraphInv
    <3> QED
      BY <2>3, <2>6, <3>1 DEF NearWalk
  <2>9. Unlimited(walk) => Unlimited(rest)
    BY <2>6 DEF Unlimited
  <2>10. Unlimited(rest) => Unlimited(walk)
    BY <2>6 DEF Unlimited
  <2> HIDE DEF node, hop, rest, N
  <2>11. applies = 0 /\ Unlimited(rest) =>
           \E d \in [Nodes -> Nat] : /\ Level(rest, d, hop, {node}, N)
                                     /\ node \in rest.visited /\ d[node] = hop
    <3> SUFFICES ASSUME applies = 0, Unlimited(rest)
                 PROVE  \E d \in [Nodes -> Nat] : /\ Level(rest, d, hop, {node}, N)
                                                  /\ node \in rest.visited /\ d[node] = hop
      OBVIOUS
    <3>1. PICK d \in [Nodes -> Nat], old \in Nat : Level(walk, d, old, {}, N)
      BY <2>1, <2>10 DEF GraphInv, N
    <3>2. Taken(walk, node, hop, rest)
      BY <2>1, <2>6 DEF Taken, node, hop
    <3>3. Level(rest, d, hop, {node}, N) /\ node \in rest.visited /\ d[node] = hop
      BY <1>0, <3>1, <3>2, TakenLevel
    <3> QED
      BY <3>3
  <2>12. NearWalk(walk')
    <3>1. CASE walk' = rest
      BY <2>8, <3>1
    <3>2. CASE hop < MaxHops /\ walk' = Expand(rest, node, hop, incident)
      <4>1. incident \in SUBSET AllEdges /\ \A n \in incident : node \in Ends(n)
        BY <2>7 DEF AllEdges
      <4> HIDE DEF incident
      <4>2. NearWalk(Expand(rest, node, hop, incident))
        BY <2>4, <2>5, <2>8, <3>2, <4>1, ExpandNear
      <4> QED
        BY <3>2, <4>2
    <3> QED
      BY <2>1, <2>4, <3>1, <3>2
  <2>13. ASSUME applies = 0, Unlimited(walk')
         PROVE  \E d \in [Nodes -> Nat] : Level(walk', d, hop, {}, N)
    <3>1. CASE hop >= MaxHops /\ walk' = rest
      <4>1. PICK d \in [Nodes -> Nat] : /\ Level(rest, d, hop, {node}, N)
                                        /\ node \in rest.visited /\ d[node] = hop
        BY <2>11, <2>13, <3>1
      <4>2. Closed(rest, d, node, N)
        BY <2>4, <3>1, <4>1 DEF Closed
      <4>3. Level(rest, d, hop, {}, N)
        BY <4>1, <4>2 DEF Level
      <4> QED
        BY <3>1, <4>3
    <3>2. CASE walk' = Expand(rest, node, hop, incident)
      <4>1. Unlimited(rest) => Expanding(rest, hop, node, N, {})
        BY <2>11, <2>13 DEF Expanding
      <4> QED
        BY <2>4, <2>5, <2>7, <2>13, <3>2, <4>1, ExpandLevel
    <3> QED
      BY <2>1, <3>1, <3>2
  <2> QED
    BY <1>0, <2>1, <2>4, <2>7, <2>12, <2>13 DEF GraphInv
<1> QED
  BY <1>1, <1>2, <1>4, <1>5, <1>6, <1>7, <1>8 DEF Next

(* The chunks a graph walk found are provenance of edges at most MaxHops from an entity   *)
(* of the query, whatever builds came in between; and they are all of those, if no build    *)
(* did and the walk met no limit (GraphRetriever.retrieve).                                *)
THEOREM GraphWalksAreNear == Spec => []GraphWalkIsNear
<1>1. Init => StepInv /\ WalkInv /\ FoundInv /\ GraphInv
  BY Starting, GraphStarts
<1>2. StepInv /\ WalkInv /\ FoundInv /\ GraphInv /\ [Next]_vars
        => (StepInv /\ WalkInv /\ FoundInv /\ GraphInv)'
  BY StepsFollow, WalkKept, FoundKept, GraphKept
<1>3. WalkInv /\ GraphInv => GraphWalkIsNear
  <2> SUFFICES ASSUME WalkInv, GraphInv, pc = "chunks"
               PROVE  /\ Range(walk.chunks) \subseteq Provenance(DOMAIN Edges)
                      /\ applies = 0 /\ walk.edges < MaxEdges /\ Cardinality(walk.visited) < MaxNodes
                           => Provenance(EdgesOf(index)) \subseteq Range(walk.chunks)
    BY DEF GraphWalkIsNear
  <2>1. Range(walk.chunks) \subseteq Provenance(DOMAIN Edges)
    BY DEF GraphInv, NearWalk, AllEdges
  <2>2. ASSUME applies = 0, Unlimited(walk)
        PROVE  Provenance(EdgesOf(index)) \subseteq Range(walk.chunks)
    <3>1. PICK d \in [Nodes -> Nat], hop \in Nat : Level(walk, d, hop, {}, EdgesOf(index))
      BY <2>2 DEF GraphInv
    <3>2. walk.queue = <<>> /\ walk \in Walks /\ EdgesOf(index) \in SUBSET DOMAIN Edges
      BY <2>2 DEF GraphInv, WalkInv, EdgesOf
    <3> QED
      BY <3>1, <3>2, LevelsReach
  <2> QED
    BY <2>1, <2>2 DEF Unlimited
<1> QED
  BY <1>1, <1>2, <1>3, PTL DEF Spec
=============================================================================
