SPECIFICATION FairSpec
CONSTANTS
    o1 = o1  o2 = o2  r1 = r1  r2 = r2  none = none  admin = admin  cron = cron  auto = auto
    Orders = {o1}
    Riders = {r1, r2}
    NoRider = none
    Admins = {admin}
    Crons = {cron}
    Workers = {auto}
    MaxOffers <- Twice
    MaxFaults = 1
INVARIANTS TypeOK HandoversVerified DispatchAgrees
PROPERTY OffersAreSettled
CHECK_DEADLOCK FALSE
