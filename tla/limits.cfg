SPECIFICATION Spec
CONSTANTS
    Request = {r1, r2, r3}
    Key = {"ip", "account", "user"}
    Policy = {"auth", "default"}
    Rules <- MCRules
    Reads = {"default"}
    Limit <- MCLimit
    Window <- MCWindow
    Second = 2
    FailOpen = TRUE
    MaxDelay = 1
    Horizon = 4
SYMMETRY RequestsAlike
INVARIANTS WindowLimit RetryAfterSuffices WritesAreCounted
CHECK_DEADLOCK FALSE
