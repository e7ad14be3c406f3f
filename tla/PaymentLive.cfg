SPECIFICATION FairSpec
CONSTANTS
    w1 = w1  w2 = w2  rzp1 = rzp1  rzp2 = rzp2  NoRzp = NoRzp
    Workers = {w1, w2}
    RzpOrders = {rzp1}
    Methods = {"RAZORPAY"}
    Requests = {"initiate", "pay", "captured", "failed", "reservation-cron", "order-expiry"}
    MaxJobs = 4
    MaxCrashes = 1
PROPERTIES UnpaidStockComesBack CaptureIsNoticed
CHECK_DEADLOCK FALSE
