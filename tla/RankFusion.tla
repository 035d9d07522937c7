----------------------------- MODULE RankFusion -----------------------------
(***************************************************************************)
(* Reciprocal rank fusion: the score of a candidate by its ranks in two    *)
(* lists, a rank of 0 meaning that it is not in the list.  Scores are      *)
(* fractions, compared by cross-multiplication.                            *)
(***************************************************************************)
EXTENDS Naturals

CONSTANT K      \* _RRF_K, the smoothing of the ranks

ASSUME RankFusionAssumption == K \in Nat \ {0}

ScoreUnsmoothed(i, j) ==
    IF i = 0 THEN (IF j = 0 THEN [num |-> 0, den |-> 1] ELSE [num |-> 1, den |-> j])
    ELSE IF j = 0 THEN [num |-> 1, den |-> i]
    ELSE [num |-> i + j, den |-> i * j]

Score(i, j) ==
    IF i = 0 THEN (IF j = 0 THEN [num |-> 0, den |-> 1] ELSE [num |-> 1, den |-> K + j])
    ELSE IF j = 0 THEN [num |-> 1, den |-> K + i]
    ELSE [num |-> (K + i) + (K + j), den |-> (K + i) * (K + j)]

Greater(f, g) == f.num * g.den > g.num * f.den
=============================================================================
