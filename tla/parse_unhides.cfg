SPECIFICATION Spec
CONSTANTS
    w1 = w1
    Worker = {w1}
    MaxRetries = 1
    MaxDeletes = 1
    MaxExpirations = 0
    MaxCrashes = 0
    MaxFaults = 0
    MaxMishaps = 0
    Prompt = TRUE
PROPERTIES
    HiddenStaysHidden
\* A document that is completed, failed or deleted has nothing left to do.
CHECK_DEADLOCK FALSE
