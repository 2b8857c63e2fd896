SPECIFICATION Spec
CONSTANTS
    Symbols = {aapl, tsla}
    MaxAdds = 3
    MaxForced = 2
    MaxBufferSize = 2
CHECK_DEADLOCK FALSE

INVARIANT TypeOK
PROPERTY ImplementsBuffer
PROPERTY BufferedPriceLeaves
PROPERTY ForceFlushNeverBlocks
PROPERTY StopReturns
