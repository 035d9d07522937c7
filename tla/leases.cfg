SPECIFICATION FairSpec
CONSTANTS
    d1 = d1
    d2 = d2
    d3 = d3
    d4 = d4
    u1 = u1
    u2 = u2
    k1 = k1
    w1 = w1
    w2 = w2
    w3 = w3
    r1 = r1
    r2 = r2
    r3 = r3
    NoOne = NoOne
    Doc = {d1, d2, d3, d4}
    User = {u1, u2}
    Owner <- MCOwner
    Key = {k1}
    LockKey <- MCLockKey
    Worker = {w1, w2, w3}
    LeaseId = {r1, r2, r3}
    MaxPerUser = 2
INVARIANTS
    SlotLimit
    OneSlotPerDocument
PROPERTIES
    PoolSpec
    EveryRequestAnswered
