SPECIFICATION Spec
CONSTANTS
    w1 = w1
    w2 = w2
    Worker = {w1, w2}
    MaxRetries = 1
    MaxDeletes = 0
    MaxExpirations = 0
    MaxCrashes = 0
    MaxFaults = 2
    MaxMishaps = 1
    Prompt = TRUE
SYMMETRY WorkerSymmetry
INVARIANTS
    TypeOK
    SlotWhileRunning
    OneStageAtATime
    StageOrder
    DerivedDataKept
PROPERTIES
    HistoryFinal
\* A document that is completed, failed or deleted has nothing left to do.
CHECK_DEADLOCK FALSE
