SPECIFICATION Spec
CONSTANTS
    w1 = w1  w2 = w2  rzp1 = rzp1  rzp2 = rzp2  NoRzp = NoRzp
    Workers = {w1}
    RzpOrders = {rzp1}
    Methods = {"RAZORPAY", "WALLET_RAZORPAY"}
    Requests = {"initiate", "pay", "verify", "sync", "captured", "failed", "advance", "reservation-cron", "order-expiry", "refund-retry", "buyer", "merchant", "admin"}
    MaxJobs = 1
    MaxCrashes = 1
INVARIANTS TablesAgree
CHECK_DEADLOCK FALSE
