SPECIFICATION FairSpec
CONSTANTS
    d0 = d0
    d1 = d1
    d2 = d2
    b1 = b1
    b2 = b2
    Doc <- MCDoc
    DocsOf <- MCDocsOf
    Batch = {b1, b2}
    NoBatch = NoBatch
    Keyed = {b1, b2}
    Present = {}
    Scanner = Scanner
    MaxCrashes = 1
    MaxFaults = 1
    MaxDeletes = 1
    MaxEarly = 1
    MaxRetries = 1
    Prompt = TRUE
CONSTRAINT TwoTroubles
INVARIANTS QueuedHasObject  OneBatchPerKey NoOrphans
PROPERTIES  PendingSettles KbDeletionEndsUnlessBlocked
CHECK_DEADLOCK FALSE
