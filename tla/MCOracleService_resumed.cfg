SPECIFICATION MCSpec
CONSTANTS
    Symbols = {s1}
    MaxQueryFailures = 1
    MaxSpawned = 1
    MarketStatuses = {"trading", "closed"}
    StockStatuses = {"normal", "delisted"}
    Levels = {100}
    QuotePrices = {100}
    Freshness = {TRUE}
    Jumps = {TRUE, FALSE}
    QueryErrors = {FALSE}
    StoreErrors = {FALSE}
    Sending = {"pyth", "gate"}
    Switchers = {w1}
    Restarts = {FALSE}
INVARIANT AbnormalStockIsPaused
