SPECIFICATION MCSpec
CONSTANTS
    Symbols = {aapl}
    MaxAdds = 2
    MaxForced = 1
    MaxBufferSize = 2
    MaxQueryFailures = 2
CHECK_DEADLOCK FALSE

INVARIANTS LifecycleTypeOK  OnlyLatePricesAreLeft
 
