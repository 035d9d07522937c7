SPECIFICATION FairSpec
CONSTANTS
    w1 = w1
    Worker = {w1}
    MaxRetries = 1
    MaxDeletes = 0
    MaxExpirations = 2
    MaxCrashes = 1
    MaxFaults = 0
    MaxMishaps = 0
    Prompt = TRUE
PROPERTIES
    Settles
\* A document that is completed, failed or deleted has nothing left to do.
CHECK_DEADLOCK FALSE
