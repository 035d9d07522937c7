\* Two searches of two rows each over four chunks, any reranker.
SPECIFICATION Spec
CONSTANTS
    K = 60
    Chunk <- MCChunk
    DocOf <- MCDocOf
    ChunkSeq <- MCChunkSeq
    TokensOf <- MCTokensOf
    TopN = 2
    Levels = {1, 2}
    Marks <- MCMarks
    NotFinite = NotFinite
    MaxTokens = 3
INVARIANTS RankedByEvidence PackExplained
CHECK_DEADLOCK FALSE
