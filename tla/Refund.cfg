SPECIFICATION FairSpec
CONSTANTS
    buyer = buyer  cron = cron  created = created  processed = processed  captured = captured
    Callers = {buyer}
    Crons = {cron}
    Hooks = {created, processed}
    Captures = {captured}
    Splits <- AllSplits
    MaxRetries = 2
    MaxFaults = 2
INVARIANTS TypeOK ReturnedExactlyOnce
PROPERTIES KnownRefundIsRecorded 
CHECK_DEADLOCK FALSE
