------------------------------ MODULE Retrieval ------------------------------
(***************************************************************************)
(* The retrieval of the evidence for one question: two searches, fused by  *)
(* reciprocal ranks, optionally reordered by scores of a model that may    *)
(* answer anything, packed candidate by candidate into a bounded context.  *)
(*                                                                         *)
(* What a search sees (the tenant, completed documents of the current      *)
(* version) and how similar it finds it is chosen freely at each search,   *)
(* as documents come and go in between.  Fused scores are exact fractions. *)
(***************************************************************************)
EXTENDS Integers, FiniteSets, Sequences, SequencesExt, RankFusion

CONSTANTS
    Chunk, DocOf, ChunkSeq, TokensOf,      \* chunks, their document, place, size
    TopN,           \* rows of a search
    Levels,         \* similarities above the threshold
    Marks,          \* scores a reranker may give, NotFinite among them
    NotFinite,
    MaxTokens

\* In the code K is 60 and a search returns 20 rows at most.
ASSUME RetrievalAssumption ==
    /\ IsFiniteSet(Chunk)
    /\ DocOf \in [Chunk -> Int] /\ ChunkSeq \in [Chunk -> Nat] /\ TokensOf \in [Chunk -> Nat]
    /\ TopN \in 1..(K + 1)
    /\ MaxTokens \in Nat

VARIABLES
    pc,
    vector, keyword,            \* rows of the two searches
    fused, final,               \* candidates, before and after reranking
    next, pack, budget, last    \* pack_context: position, parts, budget, last_kept_seq

searches == <<vector, keyword>>
loop == <<next, pack, budget, last>>
vars == <<pc, searches, fused, final, loop>>

-----------------------------------------------------------------------------
\* The place of a member in a list, 0 when it is not there.
Place(list, c) == IF \E i \in DOMAIN list : list[i] = c
                  THEN CHOOSE i \in DOMAIN list : list[i] = c ELSE 0

\* Searches that pass the threshold with these similarities: by similarity, then
\* by seq, ties as the database likes, the first TopN.
Orders(S, sim) ==
    {s \in SetToSeqs(S) : \A i, j \in DOMAIN s : i < j =>
        \/ sim[s[i]] > sim[s[j]]
        \/ sim[s[i]] = sim[s[j]] /\ ChunkSeq[s[i]] <= ChunkSeq[s[j]]}
Found(S, sim) == {SubSeq(s, 1, IF Len(s) < TopN THEN Len(s) ELSE TopN) : s \in Orders(S, sim)}

ScoreOf(c) == Score(Place(vector, c), Place(keyword, c))

\* The sort key of rrf_fuse.
Before(c, d) ==
    \/ Greater(ScoreOf(c), ScoreOf(d))
    \/ /\ ~Greater(ScoreOf(d), ScoreOf(c))
       /\ \/ DocOf[c] < DocOf[d]
          \/ DocOf[c] = DocOf[d] /\ ChunkSeq[c] < ChunkSeq[d]

\* The fused lists: every hit once, none before one with a smaller key.
Hits == Range(vector) \cup Range(keyword)
Fusions == {s \in SetToSeqs(Hits) : \A i, j \in DOMAIN s : i < j => ~Before(s[j], s[i])}

\* Every candidate has exactly one finite mark.
ValidScores(scores, n) ==
    /\ Len(scores) = n
    /\ \A i \in 1..n : scores[i].index \in 0..(n - 1) /\ scores[i].score # NotFinite
    /\ \A i, j \in 1..n : scores[i].index = scores[j].index => i = j

MarkOf(scores, c) ==
    LET i == CHOOSE x \in DOMAIN scores : scores[x].index = Place(fused, c) - 1
    IN  scores[i].score

\* By mark, the fused order within a mark.
Rerankings(scores) ==
    {s \in SetToSeqs(Range(fused)) : \A i, j \in DOMAIN s : i < j =>
        \/ MarkOf(scores, s[i]) > MarkOf(scores, s[j])
        \/ /\ MarkOf(scores, s[i]) = MarkOf(scores, s[j])
           /\ Place(fused, s[i]) < Place(fused, s[j])}

\* c comes right after, or either side of, the last kept chunk of its document.
FollowsEither(c) == DocOf[c] \in DOMAIN last /\ ChunkSeq[c] \in {last[DocOf[c]] - 1, last[DocOf[c]] + 1}
Follows(c) == DocOf[c] \in DOMAIN last /\ ChunkSeq[c] = last[DocOf[c]] + 1

-----------------------------------------------------------------------------
Init ==
    /\ pc = "embed"
    /\ vector = <<>> /\ keyword = <<>> /\ fused = <<>> /\ final = <<>>
    /\ next = 1 /\ pack = <<>> /\ budget = MaxTokens /\ last = <<>>

VectorSearch(S, sim) ==
    /\ pc = "embed"
    /\ vector' \in Found(S, sim)
    /\ pc' = "keyword"
    /\ UNCHANGED <<keyword, fused, final, loop>>

\* No vector for the question: its words alone have to do.
EmbeddingFails ==
    /\ pc = "embed"
    /\ pc' = "keyword"
    /\ UNCHANGED <<searches, fused, final, loop>>

KeywordSearch(S, sim) ==
    /\ pc = "keyword"
    /\ keyword' \in Found(S, sim)
    /\ pc' = "fuse"
    /\ UNCHANGED <<vector, fused, final, loop>>

RrfFuse ==
    /\ pc = "fuse"
    /\ fused' \in Fusions
    /\ pc' = "rerank"
    /\ UNCHANGED <<searches, final, loop>>

\* Disabled, failed, or refused for what it answered: the fused order stays.
NoRerank ==
    /\ pc = "rerank"
    /\ final' = fused
    /\ pc' = "pack"
    /\ UNCHANGED <<searches, fused, loop>>

ApplyRerank(scores) ==
    /\ pc = "rerank" /\ fused # <<>>
    /\ final' \in IF ValidScores(scores, Len(fused)) THEN Rerankings(scores) ELSE {fused}
    /\ pc' = "pack"
    /\ UNCHANGED <<searches, fused, loop>>

\* One turn of the loop of pack_context: the next candidate continues what was
\* kept of its document, or exceeds the budget, or is kept.
Leave ==
    /\ pc = "pack" /\ next <= Len(final)
    /\ Follows(final[next]) \/ TokensOf[final[next]] > budget
    /\ next' = next + 1
    /\ UNCHANGED <<pc, searches, fused, final, pack, budget, last>>

Keep ==
    /\ pc = "pack" /\ next <= Len(final)
    /\ LET c == final[next]
       IN  /\ ~Follows(c) /\ TokensOf[c] <= budget
           /\ pack' = Append(pack, c)
           /\ budget' = budget - TokensOf[c]
           /\ last' = [d \in DOMAIN last \cup {DocOf[c]} |->
                        IF d = DocOf[c] THEN ChunkSeq[c] ELSE last[d]]
    /\ next' = next + 1
    /\ UNCHANGED <<pc, searches, fused, final>>

Return ==
    /\ pc = "pack" /\ next > Len(final)
    /\ pc' = "done"
    /\ UNCHANGED <<searches, fused, final, loop>>

\* Answers of the model: one mark per candidate in order, except that one may be
\* for another candidate or one that does not exist, or the last may be missing.
Answers(n) ==
    LET Answer(x, y, mark) ==
            [i \in 1..n |-> [index |-> IF i = x THEN y ELSE i - 1, score |-> mark[i]]]
        whole == {Answer(x, y, mark) : x \in 1..n, y \in 0..n, mark \in [1..n -> Marks]}
    IN  whole \cup {Front(a) : a \in whole}

Next ==
    \/ EmbeddingFails \/ RrfFuse \/ NoRerank \/ Leave \/ Keep \/ Return
    \/ \E S \in SUBSET Chunk : \E sim \in [S -> Levels] : VectorSearch(S, sim) \/ KeywordSearch(S, sim)
    \/ \E scores \in Answers(Len(fused)) : ApplyRerank(scores)

Spec == Init /\ [][Next]_vars

-----------------------------------------------------------------------------
\* c is better evidence than d: in both lists while d is in one, or placed at
\* least as well in each and better in one.
Better(c, d) ==
    LET AsGood(list) == /\ c \in Range(list)
                        /\ d \in Range(list) => Place(list, c) <= Place(list, d)
        In(list) == d \in Range(list)
    IN  /\ c # d
        /\ \/ c \in Range(vector) \cap Range(keyword) /\ ~(In(vector) /\ In(keyword))
           \/ /\ In(vector) => AsGood(vector)
              /\ In(keyword) => AsGood(keyword)

\* Whatever the two searches found, fusing loses and repeats nothing, and puts no
\* chunk before better evidence: a chunk both searches found precedes every chunk
\* that only one found, at any rank (rrf_fuse).
RankedByEvidence ==
    pc \in {"rerank", "pack", "done"} =>
        /\ Range(fused) = Hits /\ IsInjective(fused)
        /\ \A i, j \in DOMAIN fused : Better(fused[i], fused[j]) => i < j

\* Every candidate the context leaves out is accounted for: it no longer fits, or
\* it continues a packed chunk.  What is packed keeps the final order, within the
\* budget, of which each packed chunk took its tokens, whatever the reranker
\* answered (apply_rerank, pack_context).
PackExplained ==
    pc = "done" =>
        /\ Range(final) = Range(fused) /\ IsInjective(final)
        /\ Range(pack) \subseteq Range(final)
        /\ \A i, j \in DOMAIN pack : i < j => Place(final, pack[i]) < Place(final, pack[j])
        /\ \E room \in [0..Len(pack) -> 0..MaxTokens] :
            /\ room[0] = MaxTokens /\ room[Len(pack)] = budget
            /\ \A i \in DOMAIN pack : room[i - 1] = room[i] + TokensOf[pack[i]]
        /\ \A c \in Range(final) \ Range(pack) :
            \/ TokensOf[c] > budget
            \/ \E d \in Range(pack) : DocOf[d] = DocOf[c] /\ ChunkSeq[d] = ChunkSeq[c] - 1
=============================================================================
