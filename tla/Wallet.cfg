SPECIFICATION Spec
CONSTANTS
    o1 = o1
    o2 = o2
    o3 = o3
    none = none
    buyer = buyer
    job1 = job1
    Orders = {o1, o2, o3}
    None = none
    Actors = {buyer, job1}
    Opening <- Start1
    Wish <- Wishes
    Redeem <- Redeems
    Cashback <- Cashbacks
    Bonus <- Bonuses
    Earns <- Earnings
    Claimed <- Claims
    Adjustments = {1}
    MaxAdjustments = 1
    MaxFaults = 2
SYMMETRY Symmetry
INVARIANTS
    TypeOK
    RowsTellTheOrder
    WalletMatchesRows
CHECK_DEADLOCK FALSE
