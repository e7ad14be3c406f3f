SPECIFICATION Spec
CONSTANTS
    milk = milk  rice = rice  c1 = c1  c2 = c2  w1 = w1  w2 = w2
    Checkouts = {c1, c2}
    InitialQty = {0, 2}
    Variants = {milk, rice}
    Workers = {w1, w2}
    Demand <- UnequalDemand
    Counts = {0, 2}
    Sales = {1}
    MaxEntries = 2
INVARIANTS TypeOK CountersExact DriftOneSided ListingMatchesStock DisabledStays
PROPERTY ImplementsLifecycle
SYMMETRY WorkerSymmetry
CHECK_DEADLOCK FALSE
