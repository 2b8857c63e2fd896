SPECIFICATION MCSpec
CONSTANTS
    Symbols = {aapl, tsla}
    Levels = {100}
    Forces = {TRUE, FALSE}
    Outcomes = {"ok", "rejected", "unacknowledged"}
    Flushers = {f1, f2}
    MaxAdds = 2
    MinInterval = 1
    MaxInterval = 2
CHECK_DEADLOCK FALSE

INVARIANT TypeOK
 
 
 

PROPERTY FlushEnds
