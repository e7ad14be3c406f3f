SPECIFICATION Spec
CONSTANTS
    o1 = o1
    o2 = o2
    p1 = p1
    p2 = p2
    none = none
    admin = admin
    job1 = job1
    Orders = {o1}
    Payouts = {p1}
    None = none
    Actors = {admin}
    Net <- OneOrder
    Share <- OneShare
    Amounts = {2}
    MaxTransfers = 3
    MaxFaults = 0
INVARIANT
    SentOnce
CHECK_DEADLOCK FALSE
