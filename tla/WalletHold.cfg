SPECIFICATION Spec
CONSTANTS
    w1 = w1  w2 = w2  rzp1 = rzp1  rzp2 = rzp2  NoRzp = NoRzp
    Workers = {w1}
    RzpOrders = {rzp1}
    Methods = {"WALLET"}
    Requests = {"initiate", "reservation-cron"}
    MaxJobs = 1
    MaxCrashes = 0
INVARIANT StockHeldUntilDelivery
CHECK_DEADLOCK FALSE
