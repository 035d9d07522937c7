--------------------------- MODULE RetrievalProofs ---------------------------
(***************************************************************************)
(* Proofs about Retrieval: whatever the searches find and the reranker     *)
(* answers, the fused list is ranked by evidence and the packed context    *)
(* can account for what it leaves out.                                     *)
(*                                                                         *)
(* The first property rests on the order of the scores: a chunk with       *)
(* better evidence has the greater score, so an ordering of the hits       *)
(* without an inversion puts it first.  The second is carried through the  *)
(* loop of pack_context by PackedSoFar.                                    *)
(***************************************************************************)
EXTENDS Retrieval, FiniteSetTheorems, SequenceTheorems, TLAPS

(***************************************************************************)
(* What the scores order, for every K                                      *)
(***************************************************************************)
\* Products of naturals: a larger factor gives no smaller a product.
LEMMA TimesGrows ==
    ASSUME NEW x \in Nat, NEW y \in Nat, NEW z \in Nat
    PROVE  /\ x <= y => x * z <= y * z /\ z * x <= z * y
           /\ x < y /\ z > 0 => x * z < y * z /\ z * x < z * y
           /\ x * z \in Nat /\ x * z = z * x
PROOF BY Z3

\* A rank of at most K + 1 in both lists is worth more than any rank in one list:
\* with K = 60 and at most 20 rows per search, a chunk both searches found always
\* precedes a chunk that one of them found (rrf_fuse, _RRF_K and the limits of
\* vector_search and keyword_search).
THEOREM BothPathsWin ==
    ASSUME NEW i \in 1..(K + 1), NEW j \in 1..(K + 1), NEW r \in Nat \ {0}
    PROVE  /\ Greater(Score(i, j), Score(r, 0))
           /\ Greater(Score(i, j), Score(0, r))
PROOF
<1> USE RankFusionAssumption
<1> DEFINE a == K + i
           b == K + j
           c == K + r
<1>1. a \in Nat /\ b \in Nat /\ c \in Nat /\ a > 0 /\ b > 0 /\ c > 0
  OBVIOUS
<1>2. a <= 2 * K + 1 /\ b <= 2 * K + 1 /\ c >= K + 1
  OBVIOUS
<1>3. (a + b) * c > a * b
  <2> DEFINE m == 2 * K + 1
  <2>1. m \in Nat /\ 2 * c \in Nat /\ a + b \in Nat /\ a + b > 0 /\ m < 2 * c
    BY <1>1, <1>2
  <2>2. a * b <= a * m /\ a * b <= m * b
    <3> HIDE DEF m, a, b
    <3> QED BY <1>1, <1>2, <2>1, TimesGrows DEF m
  <2>3. m * (a + b) < (2 * c) * (a + b)
    <3> HIDE DEF m, a, b, c
    <3> QED BY <1>1, <2>1, TimesGrows
  <2> HIDE DEF m, a, b, c
  <2>4. m * (a + b) = a * m + m * b /\ (2 * c) * (a + b) = 2 * ((a + b) * c)
    BY <1>1, <2>1, Z3
  <2>5. /\ a * b \in Nat /\ a * m \in Nat /\ m * b \in Nat
        /\ m * (a + b) \in Nat /\ (2 * c) * (a + b) \in Nat /\ (a + b) * c \in Nat
    BY <1>1, <2>1, TimesGrows
  <2> QED BY <2>2, <2>3, <2>4, <2>5
<1>4. Score(i, j) = [num |-> a + b, den |-> a * b]
  BY DEF Score
<1>5. Score(r, 0) = [num |-> 1, den |-> c] /\ Score(0, r) = [num |-> 1, den |-> c]
  BY DEF Score
<1> HIDE DEF a, b, c
<1>6. a * b \in Nat /\ (a + b) * c \in Nat /\ 1 * (a * b) = a * b
  BY <1>1, TimesGrows, Z3
<1> QED BY <1>3, <1>4, <1>5, <1>6 DEF Greater

\* A better rank in one list and no worse one in the other is a greater score:
\* fusing never demotes a chunk for being found earlier (rrf_fuse).
THEOREM BetterRankWins ==
    ASSUME NEW i \in Nat \ {0}, NEW j \in Nat \ {0}, NEW k \in Nat \ {0}, i < k
    PROVE  /\ Greater(Score(i, j), Score(k, j)) /\ Greater(Score(j, i), Score(j, k))
           /\ Greater(Score(i, 0), Score(k, 0)) /\ Greater(Score(0, i), Score(0, k))
PROOF
<1> USE RankFusionAssumption
<1> DEFINE a == K + i
           b == K + j
           c == K + k
<1>1. a \in Nat /\ b \in Nat /\ c \in Nat /\ a > 0 /\ b > 0 /\ c > 0 /\ a < c
  OBVIOUS
<1>2. /\ Score(i, j) = [num |-> a + b, den |-> a * b]
      /\ Score(k, j) = [num |-> c + b, den |-> c * b]
      /\ Score(j, i) = [num |-> b + a, den |-> b * a]
      /\ Score(j, k) = [num |-> b + c, den |-> b * c]
      /\ Score(i, 0) = [num |-> 1, den |-> a] /\ Score(k, 0) = [num |-> 1, den |-> c]
      /\ Score(0, i) = [num |-> 1, den |-> a] /\ Score(0, k) = [num |-> 1, den |-> c]
  BY DEF Score
<1> HIDE DEF a, b, c
<1>3. (a + b) * (c * b) > (c + b) * (a * b)
  <2>1. b * b \in Nat /\ b * b > 0
    BY <1>1, Z3
  <2>2. a * (b * b) < c * (b * b)
    BY <1>1, <2>1, TimesGrows
  <2>3. /\ (a + b) * (c * b) = a * (c * b) + c * (b * b)
        /\ (c + b) * (a * b) = a * (c * b) + a * (b * b)
    BY <1>1, Z3
  <2>4. a * (c * b) \in Nat /\ a * (b * b) \in Nat /\ c * (b * b) \in Nat
    BY <1>1, TimesGrows
  <2> QED BY <2>2, <2>3, <2>4
<1>4. b + a = a + b /\ b + c = c + b /\ b * a = a * b /\ b * c = c * b
  BY <1>1, TimesGrows
<1>5. 1 * a = a /\ 1 * c = c
  BY <1>1
<1> QED BY <1>1, <1>2, <1>3, <1>4, <1>5 DEF Greater

\* Better ranks in both lists, which no one step of BetterRankWins covers: first
\* the one, then the other, and greater is transitive.
LEMMA BothRanksBetter ==
    ASSUME NEW i \in Nat \ {0}, NEW j \in Nat \ {0}, NEW k \in Nat \ {0}, NEW l \in Nat \ {0},
           i < k, j < l
    PROVE  Greater(Score(i, j), Score(k, l))
PROOF
<1> USE RankFusionAssumption
<1> DEFINE a == K + i
           b == K + j
           c == K + k
           d == K + l
<1>1. /\ a \in Nat /\ b \in Nat /\ c \in Nat /\ d \in Nat
      /\ a > 0 /\ b > 0 /\ c > 0 /\ d > 0 /\ a < c /\ b < d
  OBVIOUS
<1>2. /\ Score(i, j) = [num |-> a + b, den |-> a * b]
      /\ Score(k, l) = [num |-> c + d, den |-> c * d]
  BY DEF Score
<1> HIDE DEF a, b, c, d
<1>3. (a + b) * (c * d) > (c + d) * (a * b)
  <2>1. /\ a * c \in Nat /\ a * c > 0 /\ b * d \in Nat /\ b * d > 0
    BY <1>1, Z3
  <2>2. /\ a * (b * d) < c * (b * d)
        /\ (a * c) * b < (a * c) * d
    BY <1>1, <2>1, TimesGrows
  <2>3. /\ (a + b) * (c * d) = (a * c) * d + c * (b * d)
        /\ (c + d) * (a * b) = (a * c) * b + a * (b * d)
    BY <1>1, Z3
  <2>4. /\ a * (b * d) \in Nat /\ c * (b * d) \in Nat
        /\ (a * c) * b \in Nat /\ (a * c) * d \in Nat
    BY <1>1, <2>1, TimesGrows
  <2> QED BY <2>2, <2>3, <2>4
<1> QED BY <1>2, <1>3 DEF Greater

(***************************************************************************)
(* Lists without repetitions, and the set of the orders of a finite set    *)
(***************************************************************************)
\* The place of the i-th member is i.
LEMMA PlaceOfMember ==
    ASSUME NEW S, NEW list \in Seq(S), IsInjective(list)
    PROVE  /\ \A i \in DOMAIN list : Place(list, list[i]) = i
           /\ \A c \in Range(list) : Place(list, c) \in DOMAIN list /\ list[Place(list, c)] = c
           /\ \A c : c \notin Range(list) => Place(list, c) = 0
           /\ DOMAIN list = 1..Len(list) /\ Len(list) \in Nat
PROOF
<1>1. DOMAIN list = 1..Len(list) /\ Len(list) \in Nat
  BY LenProperties
<1>2. ASSUME NEW i \in DOMAIN list PROVE Place(list, list[i]) = i
  BY DEF Place, IsInjective
<1>3. ASSUME NEW c \in Range(list)
      PROVE  Place(list, c) \in DOMAIN list /\ list[Place(list, c)] = c
  BY <1>2 DEF Range
<1>4. ASSUME NEW c, c \notin Range(list) PROVE Place(list, c) = 0
  BY <1>4 DEF Place, Range
<1> QED BY <1>1, <1>2, <1>3, <1>4

\* SetToSeqs(S) are the lists of all members of S without repetitions.
LEMMA OrdersOfSet ==
    ASSUME NEW S, IsFiniteSet(S), NEW s \in SetToSeqs(S)
    PROVE  s \in Seq(S) /\ IsInjective(s) /\ Range(s) = S
PROOF
<1> DEFINE n == Cardinality(S)
<1>1. n \in Nat
  BY FS_CardinalityType
<1>2. /\ s \in [1..n -> S]
      /\ \A i, j \in 1..n : i # j => s[i] # s[j]
  BY DEF SetToSeqs
<1>3. s \in Seq(S)
  BY <1>1, <1>2, SeqDef
<1>4. IsInjective(s)
  BY <1>2 DEF IsInjective
<1>5. s \in Injection(1..n, S)
  BY <1>2, <1>4 DEF Injection
<1>6. Cardinality(1..n) = Cardinality(S)
  BY <1>1, FS_Interval
<1>7. s \in Surjection(1..n, S)
  BY <1>5, <1>6, FS_Injection
<1>8. Range(s) = S
  BY <1>2, <1>7 DEF Surjection, Range
<1> QED BY <1>3, <1>4, <1>8

(***************************************************************************)
(* The searches                                                            *)
(***************************************************************************)
\* The rows of a search: no chunk twice, at most TopN of them.
Rows == {s \in Seq(Chunk) : IsInjective(s) /\ Len(s) <= TopN}

LEMMA SearchReturnsRows ==
    ASSUME NEW S \in SUBSET Chunk, NEW sim, NEW rows \in Found(S, sim)
    PROVE  rows \in Rows
PROOF
<1> USE RetrievalAssumption, RankFusionAssumption
<1>1. PICK s \in Orders(S, sim) : rows = SubSeq(s, 1, IF Len(s) < TopN THEN Len(s) ELSE TopN)
  BY DEF Found
<1> DEFINE n == IF Len(s) < TopN THEN Len(s) ELSE TopN
<1>2. s \in Seq(S) /\ IsInjective(s)
  <2>1. IsFiniteSet(S)
    BY FS_Subset
  <2>2. s \in SetToSeqs(S)
    BY DEF Orders
  <2> QED BY <2>1, <2>2, OrdersOfSet
<1>3. s \in Seq(Chunk)
  BY <1>2, SeqMonotonic
<1>4. n \in 0..Len(s) /\ n <= TopN /\ DOMAIN s = 1..Len(s)
  BY <1>3, LenProperties
<1>5. /\ rows \in Seq(Chunk) /\ Len(rows) = n
      /\ \A i \in 1..n : rows[i] = s[i]
  <2> HIDE DEF n
  <2>1. n \in Int /\ Len(s) \in Nat /\ \A i \in 1..n : s[i] \in Chunk
    BY <1>3, <1>4, ElementOfSeq
  <2>2. rows = SubSeq(s, 1, n)
    BY <1>1 DEF n
  <2> QED BY <1>4, <2>1, <2>2, SubSeqProperties
<1>6. DOMAIN rows = 1..n
  BY <1>5, LenProperties
<1>7. IsInjective(rows)
  <2> HIDE DEF n
  <2> SUFFICES ASSUME NEW i \in 1..n, NEW j \in 1..n, rows[i] = rows[j] PROVE i = j
    BY <1>6 DEF IsInjective
  <2>1. s[i] = s[j] /\ i \in DOMAIN s /\ j \in DOMAIN s
    BY <1>4, <1>5
  <2> QED BY <1>2, <2>1 DEF IsInjective
<1> QED BY <1>4, <1>5, <1>7 DEF Rows

LEMMA HitsAreChunks ==
    ASSUME vector \in Rows, keyword \in Rows
    PROVE  /\ Hits \in SUBSET Chunk /\ IsFiniteSet(Hits)
           /\ \A s \in Fusions : s \in Seq(Chunk) /\ IsInjective(s) /\ Range(s) = Hits
PROOF
<1>1. Range(vector) \in SUBSET Chunk /\ Range(keyword) \in SUBSET Chunk
  BY ElementOfSeq, LenProperties DEF Rows, Range
<1>2. Hits \in SUBSET Chunk
  BY <1>1 DEF Hits
<1>3. IsFiniteSet(Hits)
  BY <1>2, FS_Subset, RetrievalAssumption
<1>4. ASSUME NEW s \in Fusions
      PROVE  s \in Seq(Chunk) /\ IsInjective(s) /\ Range(s) = Hits
  <2>1. s \in SetToSeqs(Hits)
    BY DEF Fusions
  <2>2. s \in Seq(Hits) /\ IsInjective(s) /\ Range(s) = Hits
    BY <1>3, <2>1, OrdersOfSet
  <2> QED BY <1>2, <2>2, SeqMonotonic
<1> QED BY <1>2, <1>3, <1>4

(***************************************************************************)
(* Better evidence has the greater score                                   *)
(***************************************************************************)
LEMMA BetterScoresMore ==
    ASSUME vector \in Rows, keyword \in Rows, NEW c \in Hits, NEW d \in Hits, Better(c, d)
    PROVE  Greater(ScoreOf(c), ScoreOf(d))
PROOF
<1> USE RetrievalAssumption, RankFusionAssumption
<1> DEFINE i == Place(vector, c)
           j == Place(keyword, c)
           k == Place(vector, d)
           l == Place(keyword, d)
<1>1. /\ i \in 0..(K + 1) /\ j \in 0..(K + 1) /\ k \in 0..(K + 1) /\ l \in 0..(K + 1)
      /\ i # 0 <=> c \in Range(vector)
      /\ j # 0 <=> c \in Range(keyword)
      /\ k # 0 <=> d \in Range(vector)
      /\ l # 0 <=> d \in Range(keyword)
  <2>1. ASSUME NEW list \in Rows, NEW x
        PROVE  Place(list, x) \in 0..(K + 1) /\ (Place(list, x) # 0 <=> x \in Range(list))
    <3>1. list \in Seq(Chunk) /\ IsInjective(list) /\ Len(list) <= TopN
      BY DEF Rows
    <3>2. DOMAIN list = 1..Len(list) /\ Len(list) \in Nat
      BY <3>1, LenProperties
    <3>3. CASE x \in Range(list)
      <4>1. Place(list, x) \in DOMAIN list
        BY <3>1, <3>3, PlaceOfMember
      <4> QED BY <3>1, <3>2, <3>3, <4>1
    <3>4. CASE x \notin Range(list)
      <4>1. Place(list, x) = 0
        BY <3>1, <3>4, PlaceOfMember
      <4> QED BY <3>4, <4>1
    <3> QED BY <3>3, <3>4
  <2> QED BY <2>1
<1>2. /\ i # 0 /\ k # 0 => i # k
      /\ j # 0 /\ l # 0 => j # l
  <2>1. c # d
    BY DEF Better
  <2>2. ASSUME NEW list \in Rows, c \in Range(list), d \in Range(list)
        PROVE  Place(list, c) # Place(list, d)
    <3>1. list \in Seq(Chunk) /\ IsInjective(list)
      BY DEF Rows
    <3>2. list[Place(list, c)] = c /\ list[Place(list, d)] = d
      BY <2>2, <3>1, PlaceOfMember
    <3> QED BY <2>1, <3>2
  <2> QED BY <1>1, <2>2
<1>3. k # 0 \/ l # 0
  BY <1>1 DEF Hits
<1>4. \/ i # 0 /\ j # 0 /\ (k = 0 \/ l = 0)
      \/ /\ k # 0 => i # 0 /\ i <= k
         /\ l # 0 => j # 0 /\ j <= l
  BY <1>1 DEF Better
<1>5. ScoreOf(c) = Score(i, j) /\ ScoreOf(d) = Score(k, l)
  BY DEF ScoreOf
<1> HIDE DEF i, j, k, l
<1>6. CASE i # 0 /\ j # 0 /\ (k = 0 \/ l = 0)
  BY <1>1, <1>3, <1>5, <1>6, BothPathsWin
<1>7. CASE k # 0 /\ l # 0 /\ i # 0 /\ j # 0 /\ i <= k /\ j <= l
  BY <1>1, <1>2, <1>5, <1>7, BothRanksBetter
<1>8. CASE k # 0 /\ l = 0 /\ i # 0 /\ j = 0 /\ i <= k
  BY <1>1, <1>2, <1>5, <1>8, BetterRankWins
<1>9. CASE k = 0 /\ l # 0 /\ j # 0 /\ i = 0 /\ j <= l
  BY <1>1, <1>2, <1>5, <1>9, BetterRankWins
<1> QED BY <1>3, <1>4, <1>6, <1>7, <1>8, <1>9

\* So a list of the hits without an inversion puts better evidence first.
LEMMA FusionRanks ==
    ASSUME vector \in Rows, keyword \in Rows, NEW s \in Fusions,
           NEW i \in DOMAIN s, NEW j \in DOMAIN s, Better(s[i], s[j])
    PROVE  i < j
PROOF
<1>1. s \in Seq(Chunk) /\ Range(s) = Hits
  BY HitsAreChunks
<1>2. i \in Int /\ j \in Int
  BY <1>1, LenProperties
<1>3. s[i] \in Hits /\ s[j] \in Hits
  BY <1>1 DEF Range
<1>4. Before(s[i], s[j])
  BY <1>3, BetterScoresMore DEF Before
<1>5. i # j
  BY DEF Better
<1>6. ~(j < i)
  BY <1>4 DEF Fusions
<1> QED BY <1>2, <1>5, <1>6

(***************************************************************************)
(* The inductive invariant                                                 *)
(***************************************************************************)
TypeOK ==
    /\ pc \in {"embed", "keyword", "fuse", "rerank", "pack", "done"}
    /\ vector \in Rows /\ keyword \in Rows
    /\ fused \in Seq(Chunk) /\ final \in Seq(Chunk) /\ pack \in Seq(Chunk)
    /\ next \in 1..(Len(final) + 1)
    /\ budget \in 0..MaxTokens

\* Reranking loses and repeats no candidate.
SameCandidates ==
    pc \in {"pack", "done"} => Range(final) = Range(fused) /\ IsInjective(final)

\* What is packed comes from the candidates seen, in their order.
KeptInOrder ==
    /\ \A i \in DOMAIN pack : pack[i] \in Range(final) /\ Place(final, pack[i]) < next
    /\ \A i, j \in DOMAIN pack : i < j => Place(final, pack[i]) < Place(final, pack[j])

\* The rooms left after each packed chunk, from all of it to the budget.
Rooms ==
    {room \in [0..Len(pack) -> 0..MaxTokens] :
        /\ room[0] = MaxTokens /\ room[Len(pack)] = budget
        /\ \A i \in DOMAIN pack : room[i - 1] = room[i] + TokensOf[pack[i]]}

\* last_kept_seq speaks of packed chunks only.
LastIsPacked ==
    \A d \in DOMAIN last : \E i \in DOMAIN pack : DocOf[pack[i]] = d /\ ChunkSeq[pack[i]] = last[d]

\* Why a candidate that the loop has seen is not packed.
Explained(c) ==
    \/ TokensOf[c] > budget
    \/ \E d \in Range(pack) : DocOf[d] = DocOf[c] /\ ChunkSeq[d] = ChunkSeq[c] - 1

PackedSoFar ==
    /\ pc \notin {"pack", "done"} =>
        next = 1 /\ pack = <<>> /\ budget = MaxTokens /\ last = <<>>
    /\ pc = "done" => next = Len(final) + 1
    /\ KeptInOrder
    /\ Rooms # {}
    /\ LastIsPacked
    /\ \A i \in 1..(next - 1) : final[i] \notin Range(pack) => Explained(final[i])

Inv == TypeOK /\ RankedByEvidence /\ SameCandidates /\ PackedSoFar

LEMMA InitInv == Init => Inv
PROOF
<1> USE RetrievalAssumption
<1> SUFFICES ASSUME Init PROVE Inv
  OBVIOUS
<1>1. /\ <<>> \in Seq(Chunk) /\ Len(<<>>) = 0 /\ DOMAIN <<>> = {}
      /\ IsInjective(<<>>) /\ <<>> \in Rows
  <2>1. <<>> \in Seq(Chunk) /\ Len(<<>>) = 0
    BY EmptySeq
  <2>2. DOMAIN <<>> = 1..0
    BY <2>1, LenProperties
  <2> QED BY <2>1, <2>2, RankFusionAssumption DEF Rows, IsInjective
<1>2. TypeOK
  BY <1>1 DEF Init, TypeOK
<1>3. RankedByEvidence /\ SameCandidates
  BY DEF Init, RankedByEvidence, SameCandidates
<1>4. Rooms # {}
  <2> DEFINE all == [x \in 0..0 |-> MaxTokens]
  <2>1. all \in [0..Len(pack) -> 0..MaxTokens] /\ all[0] = MaxTokens
    BY <1>1 DEF Init
  <2>2. all \in Rooms
    <3> HIDE DEF all
    <3> QED BY <1>1, <2>1 DEF Init, Rooms
  <2> QED BY <2>2
<1>5. PackedSoFar
  BY <1>1, <1>4 DEF Init, PackedSoFar, KeptInOrder, LastIsPacked
<1> QED BY <1>2, <1>3, <1>5 DEF Inv

\* What the invariant says does not depend on the steps before the loop.
LEMMA LoopUntouched ==
    ASSUME PackedSoFar, UNCHANGED loop, pc \notin {"pack", "done"}, pc' # "done"
    PROVE  PackedSoFar'
PROOF
<1>1. next' = next /\ pack' = pack /\ budget' = budget /\ last' = last
  BY DEF loop
<1>2. next = 1 /\ pack = <<>> /\ budget = MaxTokens /\ last = <<>>
  BY DEF PackedSoFar
<1>3. Rooms' = Rooms
  BY <1>1 DEF Rooms
<1>4. DOMAIN <<>> = {}
  BY EmptySeq, LenProperties
<1>5. KeptInOrder' /\ LastIsPacked'
  BY <1>1, <1>2, <1>4 DEF KeptInOrder, LastIsPacked
<1> QED BY <1>1, <1>2, <1>3, <1>5 DEF PackedSoFar

LEMMA SearchStep ==
    ASSUME Inv,
           \/ EmbeddingFails
           \/ \E S \in SUBSET Chunk : \E sim \in [S -> Levels] : VectorSearch(S, sim) \/ KeywordSearch(S, sim)
    PROVE  Inv'
PROOF
<1> USE DEF Inv
<1>1. /\ UNCHANGED <<fused, final, loop>>
      /\ pc \in {"embed", "keyword"} /\ pc' \in {"keyword", "fuse"}
      /\ vector' \in Rows /\ keyword' \in Rows
  BY SearchReturnsRows DEF EmbeddingFails, VectorSearch, KeywordSearch, searches, TypeOK
<1>2. TypeOK'
  BY <1>1 DEF TypeOK, loop
<1>3. RankedByEvidence' /\ SameCandidates'
  BY <1>1 DEF RankedByEvidence, SameCandidates
<1>4. PackedSoFar'
  BY <1>1, LoopUntouched
<1> QED BY <1>2, <1>3, <1>4

LEMMA FuseStep ==
    ASSUME Inv, RrfFuse
    PROVE  Inv'
PROOF
<1> USE DEF Inv
<1>1. /\ UNCHANGED <<vector, keyword, final, loop>>
      /\ pc = "fuse" /\ pc' = "rerank" /\ fused' \in Fusions
  BY DEF RrfFuse, searches
<1>2. vector \in Rows /\ keyword \in Rows
  BY DEF TypeOK
<1>3. fused' \in Seq(Chunk) /\ IsInjective(fused') /\ Range(fused') = Hits
  BY <1>1, <1>2, HitsAreChunks
<1>4. TypeOK'
  BY <1>1, <1>3 DEF TypeOK, loop
<1>5. \A i, j \in DOMAIN fused' : Better(fused'[i], fused'[j]) => i < j
  BY <1>1, <1>2, FusionRanks
<1>6. Hits' = Hits /\ \A c, d : Better(c, d)' <=> Better(c, d)
  BY <1>1 DEF Hits, Better
<1>7. RankedByEvidence'
  BY <1>3, <1>5, <1>6 DEF RankedByEvidence
<1>8. SameCandidates'
  BY <1>1 DEF SameCandidates
<1>9. PackedSoFar'
  BY <1>1, LoopUntouched
<1> QED BY <1>4, <1>7, <1>8, <1>9

LEMMA RerankStep ==
    ASSUME Inv, NoRerank \/ \E scores \in Answers(Len(fused)) : ApplyRerank(scores)
    PROVE  Inv'
PROOF
<1> USE DEF Inv
<1>1. /\ UNCHANGED <<vector, keyword, fused, loop>>
      /\ pc = "rerank" /\ pc' = "pack"
      /\ final' = fused \/ \E scores : final' \in Rerankings(scores)
  BY DEF NoRerank, ApplyRerank, searches
<1>2. fused \in Seq(Chunk) /\ IsInjective(fused)
  BY <1>1 DEF TypeOK, RankedByEvidence
<1>3. final' \in Seq(Chunk) /\ IsInjective(final') /\ Range(final') = Range(fused)
  <2>1. CASE final' = fused
    BY <1>2, <2>1
  <2>2. CASE \E scores : final' \in Rerankings(scores)
    <3>1. Range(fused) \in SUBSET Chunk
      BY <1>2, ElementOfSeq, LenProperties DEF Range
    <3>2. IsFiniteSet(Range(fused))
      BY <3>1, FS_Subset, RetrievalAssumption
    <3>3. final' \in SetToSeqs(Range(fused))
      BY <2>2 DEF Rerankings
    <3> QED BY <3>1, <3>2, <3>3, OrdersOfSet, SeqMonotonic
  <2> QED BY <1>1, <2>1, <2>2
<1>4. TypeOK'
  <2>1. Len(final') \in Nat
    BY <1>3, LenProperties
  <2>2. next' = 1
    BY <1>1 DEF PackedSoFar, loop
  <2> QED BY <1>1, <1>3, <2>1, <2>2 DEF TypeOK, loop
<1>5. RankedByEvidence'
  <2>1. Hits' = Hits /\ \A c, d : Better(c, d)' <=> Better(c, d)
    BY <1>1 DEF Hits, Better
  <2> QED BY <1>1, <2>1 DEF RankedByEvidence
<1>6. SameCandidates'
  BY <1>1, <1>3 DEF SameCandidates
<1>7. PackedSoFar'
  BY <1>1, LoopUntouched
<1> QED BY <1>4, <1>5, <1>6, <1>7

\* In the loop only its own variables change.
LEMMA LoopKeepsLists ==
    ASSUME Inv, UNCHANGED <<searches, fused, final>>, pc = "pack", pc' \in {"pack", "done"}
    PROVE  RankedByEvidence' /\ SameCandidates'
PROOF
<1>1. Hits' = Hits /\ \A c, d : Better(c, d)' <=> Better(c, d)
  BY DEF Hits, Better, searches
<1> QED BY <1>1 DEF Inv, RankedByEvidence, SameCandidates

LEMMA LeaveStep ==
    ASSUME Inv, Leave
    PROVE  Inv'
PROOF
<1> USE RetrievalAssumption DEF Inv
<1> DEFINE c == final[next]
<1>1. /\ UNCHANGED <<pc, searches, fused, final, pack, budget, last>>
      /\ pc = "pack" /\ next' = next + 1 /\ next \in 1..Len(final) /\ Len(final) \in Nat
  BY LenProperties DEF Leave, TypeOK
<1>2. TypeOK'
  BY <1>1 DEF TypeOK, searches
<1>3. RankedByEvidence' /\ SameCandidates'
  BY <1>1, LoopKeepsLists
<1>4. Explained(c)
  <2>1. CASE TokensOf[c] > budget
    BY <2>1 DEF Explained
  <2>2. CASE Follows(c)
    <3>1. PICK i \in DOMAIN pack : DocOf[pack[i]] = DocOf[c] /\ ChunkSeq[pack[i]] = last[DocOf[c]]
      BY <2>2 DEF Follows, PackedSoFar, LastIsPacked
    <3>2. pack[i] \in Chunk /\ pack[i] \in Range(pack) /\ c \in Chunk
      BY <1>1, <3>1, ElementOfSeq, LenProperties DEF TypeOK, Range
    <3>3. ChunkSeq[pack[i]] = ChunkSeq[c] - 1
      <4>1. ChunkSeq[c] = ChunkSeq[pack[i]] + 1
        BY <2>2, <3>1 DEF Follows
      <4> HIDE DEF c
      <4> QED BY <3>2, <4>1
    <3> QED BY <3>1, <3>2, <3>3 DEF Explained
  <2> QED BY <2>1, <2>2 DEF Leave
<1>5. KeptInOrder'
  <2>1. \A i \in DOMAIN pack : Place(final, pack[i]) \in Int
    BY PlaceOfMember, <1>1 DEF PackedSoFar, KeptInOrder, SameCandidates, TypeOK
  <2> QED BY <1>1, <2>1 DEF PackedSoFar, KeptInOrder
<1>6. Rooms' = Rooms /\ (LastIsPacked' <=> LastIsPacked)
  BY <1>1 DEF Rooms, LastIsPacked
<1>7. \A x : Explained(x)' <=> Explained(x)
  BY <1>1 DEF Explained
<1>8. \A i \in 1..next : final[i] \notin Range(pack) => Explained(final[i])
  BY <1>1, <1>4 DEF PackedSoFar
<1>9. PackedSoFar'
  <2>1. next' - 1 = next
    BY <1>1
  <2> QED BY <1>1, <1>5, <1>6, <1>7, <1>8, <2>1 DEF PackedSoFar
<1> QED BY <1>2, <1>3, <1>9

LEMMA KeepStep ==
    ASSUME Inv, Keep
    PROVE  Inv'
PROOF
<1> USE RetrievalAssumption DEF Inv
<1> DEFINE c == final[next]
           n == Len(pack)
<1>1. /\ UNCHANGED <<pc, searches, fused, final>>
      /\ pc = "pack" /\ next' = next + 1 /\ next \in 1..Len(final) /\ Len(final) \in Nat
      /\ pack' = Append(pack, c) /\ TokensOf[c] <= budget /\ budget' = budget - TokensOf[c]
      /\ last' = [d \in DOMAIN last \cup {DocOf[c]} |->
                   IF d = DocOf[c] THEN ChunkSeq[c] ELSE last[d]]
  BY LenProperties DEF Keep, TypeOK
<1>2. c \in Chunk /\ c \in Range(final) /\ Place(final, c) = next
  <2>1. final \in Seq(Chunk) /\ IsInjective(final) /\ DOMAIN final = 1..Len(final)
    BY <1>1, LenProperties DEF TypeOK, SameCandidates
  <2> QED BY <1>1, <2>1, ElementOfSeq, PlaceOfMember DEF Range
<1>3. /\ n \in Nat /\ pack \in Seq(Chunk) /\ DOMAIN pack = 1..n
      /\ pack' \in Seq(Chunk) /\ DOMAIN pack' = 1..(n + 1) /\ Len(pack') = n + 1
      /\ \A i \in 1..n : pack'[i] = pack[i]
      /\ pack'[n + 1] = c
  <2>1. pack \in Seq(Chunk)
    BY DEF TypeOK
  <2>2. n \in Nat /\ DOMAIN pack = 1..n
    BY <2>1, LenProperties
  <2>3. /\ pack' \in Seq(Chunk) /\ Len(pack') = n + 1 /\ pack'[n + 1] = c
        /\ \A i \in 1..n : pack'[i] = pack[i]
    BY <1>1, <1>2, <2>1, AppendProperties
  <2> QED BY <2>1, <2>2, <2>3, LenProperties
<1>4. /\ TokensOf[c] \in Nat /\ budget \in 0..MaxTokens /\ budget' \in 0..MaxTokens
      /\ budget' <= budget
  <2>1. TokensOf[c] \in Nat /\ budget \in 0..MaxTokens
    BY <1>2 DEF TypeOK
  <2> HIDE DEF c
  <2> QED BY <1>1, <2>1
<1>5. Range(pack') = Range(pack) \cup {c}
  <2>1. \A x : x \in Range(pack') <=> \E i \in 1..(n + 1) : pack'[i] = x
    BY <1>3 DEF Range
  <2>2. \A x : x \in Range(pack) <=> \E i \in 1..n : pack[i] = x
    BY <1>3 DEF Range
  <2>3. \A i \in 1..(n + 1) : i \in 1..n \/ i = n + 1
    BY <1>3
  <2>4. 1..n \subseteq 1..(n + 1) /\ n + 1 \in 1..(n + 1)
    BY <1>3
  <2> HIDE DEF n, c
  <2> QED BY <1>3, <2>1, <2>2, <2>3, <2>4
<1> HIDE DEF n, c
<1>6. TypeOK'
  <2>1. /\ pc' = pc /\ vector' = vector /\ keyword' = keyword
        /\ fused' = fused /\ final' = final
    BY <1>1 DEF searches
  <2>2. next' \in 1..(Len(final) + 1)
    BY <1>1
  <2> QED BY <1>3, <1>4, <2>1, <2>2 DEF TypeOK
<1>7. RankedByEvidence' /\ SameCandidates'
  BY <1>1, LoopKeepsLists
<1>8. KeptInOrder'
  <2>1. \A i \in 1..n : pack[i] \in Range(final) /\ Place(final, pack[i]) < next
    BY <1>3 DEF PackedSoFar, KeptInOrder
  <2>2. \A i, j \in 1..n : i < j => Place(final, pack[i]) < Place(final, pack[j])
    BY <1>3 DEF PackedSoFar, KeptInOrder
  <2>3. \A x \in Range(final) : Place(final, x) \in Int
    BY <1>1, PlaceOfMember DEF SameCandidates, TypeOK
  <2>4. ASSUME NEW i \in 1..(n + 1)
        PROVE  pack'[i] \in Range(final) /\ Place(final, pack'[i]) < next + 1
    <3>1. CASE i = n + 1
      BY <1>1, <1>2, <1>3, <3>1
    <3>2. CASE i \in 1..n
      <4>1. pack'[i] = pack[i]
        BY <1>3, <3>2
      <4>2. pack[i] \in Range(final) /\ Place(final, pack[i]) \in Int /\ Place(final, pack[i]) < next
        BY <2>1, <2>3, <3>2
      <4>3. next \in Int
        BY <1>1
      <4> QED BY <4>1, <4>2, <4>3
    <3> QED BY <1>3, <3>1, <3>2
  <2>5. ASSUME NEW i \in 1..(n + 1), NEW j \in 1..(n + 1), i < j
        PROVE  Place(final, pack'[i]) < Place(final, pack'[j])
    <3>1. i \in 1..n /\ (j \in 1..n \/ j = n + 1)
      BY <1>3, <2>5
    <3>2. CASE j = n + 1
      BY <1>2, <1>3, <2>1, <3>1, <3>2
    <3>3. CASE j \in 1..n
      BY <1>3, <2>2, <2>5, <3>1, <3>3
    <3> QED BY <3>1, <3>2, <3>3
  <2> QED BY <1>1, <1>3, <2>4, <2>5 DEF KeptInOrder
<1>9. (Rooms # {})'
  <2>1. PICK room : room \in Rooms
    BY DEF PackedSoFar
  <2>2. /\ room \in [0..n -> 0..MaxTokens] /\ room[0] = MaxTokens /\ room[n] = budget
        /\ \A i \in 1..n : room[i - 1] = room[i] + TokensOf[pack[i]]
    BY <1>3, <2>1 DEF Rooms, n
  <2> DEFINE more == [i \in 0..(n + 1) |-> IF i = n + 1 THEN budget' ELSE room[i]]
  <2>3. more \in [0..(n + 1) -> 0..MaxTokens]
    BY <1>3, <1>4, <2>2
  <2>4. more[0] = MaxTokens /\ more[n + 1] = budget'
    BY <1>3, <2>2
  <2>5. ASSUME NEW i \in 1..(n + 1)
        PROVE  more[i - 1] = more[i] + TokensOf[pack'[i]]
    <3>1. CASE i = n + 1
      <4>1. more[i - 1] = budget /\ more[i] = budget'
        BY <1>3, <2>2, <3>1
      <4> HIDE DEF more
      <4> QED BY <1>1, <1>3, <1>4, <3>1, <4>1
    <3>2. CASE i \in 1..n
      <4>1. more[i - 1] = room[i - 1] /\ more[i] = room[i]
        BY <1>3, <3>2
      <4> HIDE DEF more
      <4> QED BY <1>3, <2>2, <3>2, <4>1
    <3> QED BY <1>3, <3>1, <3>2
  <2> HIDE DEF more
  <2>6. more \in Rooms'
    BY <1>1, <1>3, <2>3, <2>4, <2>5 DEF Rooms
  <2> QED BY <2>6
<1>10. LastIsPacked'
  <2> SUFFICES ASSUME NEW d \in DOMAIN last'
               PROVE  \E i \in 1..(n + 1) : DocOf[pack'[i]] = d /\ ChunkSeq[pack'[i]] = last'[d]
    BY <1>3 DEF LastIsPacked
  <2>1. CASE d = DocOf[c]
    <3>1. last'[d] = ChunkSeq[c]
      BY <1>1, <2>1
    <3>2. n + 1 \in 1..(n + 1)
      BY <1>3
    <3> QED BY <1>3, <2>1, <3>1, <3>2
  <2>2. CASE d # DocOf[c]
    <3>1. d \in DOMAIN last /\ last'[d] = last[d]
      BY <1>1, <2>2
    <3>2. PICK i \in 1..n : DocOf[pack[i]] = d /\ ChunkSeq[pack[i]] = last[d]
      BY <1>3, <3>1 DEF PackedSoFar, LastIsPacked
    <3>3. i \in 1..(n + 1)
      BY <1>3
    <3> QED BY <1>3, <3>1, <3>2, <3>3
  <2> QED BY <2>1, <2>2
<1>11. ASSUME NEW i \in 1..next, final[i] \notin Range(pack')
       PROVE  Explained(final[i])'
  <2>1. final[i] \notin Range(pack) /\ i # next
    BY <1>5, <1>11 DEF c
  <2>2. Explained(final[i]) /\ i \in 1..Len(final)
    BY <1>1, <2>1 DEF PackedSoFar
  <2>3. final[i] \in Chunk
    BY <2>2, ElementOfSeq DEF TypeOK
  <2>4. TokensOf[final[i]] \in Nat
    BY <2>3
  <2> QED BY <1>1, <1>4, <1>5, <2>2, <2>4 DEF Explained
<1>12. PackedSoFar'
  <2>1. next' - 1 = next
    BY <1>1
  <2> QED BY <1>1, <1>8, <1>9, <1>10, <1>11, <2>1 DEF PackedSoFar
<1> QED BY <1>6, <1>7, <1>12

LEMMA ReturnStep ==
    ASSUME Inv, Return
    PROVE  Inv'
PROOF
<1> USE DEF Inv
<1>1. /\ UNCHANGED <<searches, fused, final, loop>>
      /\ pc = "pack" /\ pc' = "done" /\ next > Len(final)
  BY DEF Return
<1>2. next = Len(final) + 1
  BY <1>1, LenProperties DEF TypeOK
<1>3. TypeOK'
  BY <1>1 DEF TypeOK, searches, loop
<1>4. RankedByEvidence' /\ SameCandidates'
  BY <1>1, LoopKeepsLists
<1>5. PackedSoFar'
  BY <1>1, <1>2 DEF PackedSoFar, KeptInOrder, Rooms, LastIsPacked, Explained, loop
<1> QED BY <1>3, <1>4, <1>5

LEMMA InvInductive == Inv /\ [Next]_vars => Inv'
PROOF
<1> SUFFICES ASSUME Inv, [Next]_vars PROVE Inv'
  OBVIOUS
<1>1. CASE UNCHANGED vars
  BY <1>1 DEF vars, searches, loop, Inv, TypeOK, RankedByEvidence, SameCandidates, PackedSoFar,
     KeptInOrder, Rooms, LastIsPacked, Explained, Better, Hits
<1>2. CASE Next
  BY <1>2, SearchStep, FuseStep, RerankStep, LeaveStep, KeepStep, ReturnStep DEF Next
<1> QED BY <1>1, <1>2

LEMMA InvHolds == Spec => []Inv
PROOF BY InitInv, InvInductive, PTL DEF Spec

(***************************************************************************)
(* The theorems                                                            *)
(***************************************************************************)
\* For any chunks, documents, similarities, limits up to K + 1 and smoothing
\* constants: the fused list has every hit once and better evidence first
\* (rrf_fuse), and nothing later in retrieve changes it.
THEOREM RankedByEvidenceHolds == Spec => []RankedByEvidence
PROOF
<1>1. Inv => RankedByEvidence
  BY DEF Inv
<1> QED BY <1>1, InvHolds, PTL

\* For any candidates, any answer of the reranker and any budget: the context is
\* the candidates in their final order without those that exceed what is left or
\* continue a packed chunk (apply_rerank, pack_context).
THEOREM PackExplainedHolds == Spec => []PackExplained
PROOF
<1>1. ASSUME Inv, pc = "done" PROVE PackExplained
  <2>1. /\ Range(final) = Range(fused) /\ IsInjective(final)
        /\ final \in Seq(Chunk) /\ DOMAIN final = 1..Len(final) /\ next - 1 = Len(final)
    BY <1>1, LenProperties DEF Inv, TypeOK, SameCandidates, PackedSoFar
  <2>2. KeptInOrder /\ Rooms # {}
    BY <1>1 DEF Inv, PackedSoFar
  <2>3. Range(pack) \subseteq Range(final)
    BY <2>2 DEF KeptInOrder, Range
  <2>4. \A c \in Range(final) \ Range(pack) : Explained(c)
    BY <1>1, <2>1 DEF Inv, PackedSoFar, Range
  <2> QED BY <2>1, <2>2, <2>3, <2>4 DEF PackExplained, KeptInOrder, Rooms, Explained
<1>2. Inv => PackExplained
  BY <1>1 DEF PackExplained
<1> QED BY <1>2, InvHolds, PTL

=============================================================================
