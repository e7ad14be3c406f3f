SPECIFICATION Spec
CONSTANTS
    o1 = o1
    o2 = o2
    p1 = p1
    p2 = p2
    none = none
    admin = admin
    job1 = job1
    Orders = {o1, o2}
    Payouts = {p1, p2}
    None = none
    Actors = {admin, job1}
    Net <- Nets
    Share <- Shares
    Amounts = {1, 2}
    MaxTransfers = 2
    MaxFaults = 2
SYMMETRY Symmetry
INVARIANTS
    TypeOK
    PaidEntriesHaveAPayout
    PaidOnOneTransfer
    EarmarkedWithinPayout
    BooksAgree
CHECK_DEADLOCK FALSE
