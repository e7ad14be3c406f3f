SPECIFICATION Spec
CONSTANTS
    w1 = w1  w2 = w2  rzp1 = rzp1  rzp2 = rzp2  NoRzp = NoRzp
    Workers = {w1, w2}
    RzpOrders = {rzp1, rzp2}
    Methods = {"RAZORPAY"}
    Requests = {"initiate", "pay", "verify", "sync", "captured", "failed", "reservation-cron"}
    MaxJobs = 2
    MaxCrashes = 1
INVARIANTS TypeOK NothingForNothing AckedCaptureRecorded
SYMMETRY Symmetry
CHECK_DEADLOCK FALSE
