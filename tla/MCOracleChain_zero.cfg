SPECIFICATION MCSpec
CONSTANTS
    Symbols = {s1}
    MaxQueryFailures = 1
    MaxSpawned = 1
    MarketStatuses = {"trading", "closed"}
    StockStatuses = {"normal"}
    Levels = {100}
    QuotePrices = {0, 100}
    Freshness = {TRUE}
    Jumps = {FALSE}
    QueryErrors = {FALSE}
    StoreErrors = {FALSE}
    Sending = {"cex", "pyth", "gate"}
    Switchers = {w1}
    Restarts = {FALSE}
INVARIANT OnlyPositivePricesRelayed
