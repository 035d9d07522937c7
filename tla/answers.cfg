SPECIFICATION FairSpec
CONSTANTS
    MaxRetries = 1
    MaxChunks = 2
    GatewayQueue = 1
    SseQueue = 1
    MaxCrashes = 1
    MaxUsers = 1
    Prompt = TRUE
INVARIANTS ClientSawTruth AnswerIsOneStream AuditMatches
PROPERTIES TerminalStateFinal Released MessageSettles
CHECK_DEADLOCK FALSE
