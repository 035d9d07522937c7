SPECIFICATION FairSpec
CONSTANTS
    Tab = {"tab", "other"}
    Call = {"logout", "upload", "list"}
    TabOf <- MCTabOf
    Kind <- MCKind
    MaxSessions = 3
    MaxFaults = 1
CHECK_DEADLOCK FALSE
INVARIANTS OneLivePerLogin SingleFlight
PROPERTIES CallsEnd LogoutEndsLoginUnlessOverlapped
