SPECIFICATION Spec
CONSTANTS
    none = none
    w1 = w1
    w2 = w2
    None = none
    Workers = {w1, w2}
    Reported = {"ASSIGNED", "DELIVERED", "FAILED", "CANCELLED"}
    MaxReports = 3
    MaxFaults = 2
INVARIANTS
    TypeOK
    LeaseKept
    OncePerOrder
    MoneyFirst
PROPERTIES
    
    LockIsFreed
    ImplementsLease
CHECK_DEADLOCK FALSE
