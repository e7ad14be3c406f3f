SPECIFICATION Spec
CONSTANTS
    milk = milk  rice = rice  c1 = c1  c2 = c2  w1 = w1  w2 = w2
    Checkouts = {c1, c2}
    InitialQty = {2}
    Variants = {milk, rice}
    Workers = {w1}
    Demand <- UnequalDemand
    Counts = {2}
    Sales = {1}
    MaxEntries = 0
INVARIANT ReservedWithinQuantity
CHECK_DEADLOCK FALSE
