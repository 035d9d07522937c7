---------------------------- MODULE MCRetrieval ----------------------------
(***************************************************************************)
(* Three chunks of one document and one of another, for TLC.               *)
(***************************************************************************)
EXTENDS Retrieval

MCChunk == 1..4
MCDocOf == [c \in MCChunk |-> IF c = 4 THEN 2 ELSE 1]
MCChunkSeq == [c \in MCChunk |-> IF c = 4 THEN 0 ELSE c - 1]
MCTokensOf == [c \in MCChunk |-> IF c = 3 THEN 2 ELSE 1]
MCMarks == {0, 1, NotFinite}
=============================================================================
