SPECIFICATION FairSpec
CONSTANTS
    w1 = w1
    Worker = {w1}
    MaxRetries = 1
    MaxDeletes = 1
    MaxExpirations = 0
    MaxCrashes = 0
    MaxFaults = 1
    MaxMishaps = 1
    Prompt = TRUE
PROPERTIES
    Settles
    DeleteEnds
\* A document that is completed, failed or deleted has nothing left to do.
CHECK_DEADLOCK FALSE
