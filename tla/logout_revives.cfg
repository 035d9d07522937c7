SPECIFICATION Spec
CONSTANTS
    Tab = {"tab", "other"}
    Call = {"logout", "upload", "list"}
    TabOf <- MCTabOf
    Kind <- MCKind
    MaxSessions = 3
    MaxFaults = 0
CHECK_DEADLOCK FALSE
INVARIANTS LogoutEndsLogin
