SPECIFICATION Spec
CONSTANTS
    w1 = w1
    w2 = w2
    Worker = {w1, w2}
    MaxRetries = 1
    MaxDeletes = 2
    MaxExpirations = 1
    MaxCrashes = 1
    MaxFaults = 2
    MaxMishaps = 1
    Prompt = TRUE
SYMMETRY WorkerSymmetry
CONSTRAINT OneConcern
INVARIANTS
    PublishedHasChunks
    AttemptsCounted
    ProcessingHoldsSlot
    DeletedLeavesNothing
    DeletingProgress
    StagesEarned
\* A document that is completed, failed or deleted has nothing left to do.
CHECK_DEADLOCK FALSE
