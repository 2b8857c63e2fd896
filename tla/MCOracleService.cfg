SPECIFICATION MCSpec
CONSTANTS
    Symbols = {s1}
    MaxQueryFailures = 1
    MaxSpawned = 1
    MarketStatuses = {"trading"}
    StockStatuses = {"normal", "circuit_breaker", "delisted"}
    Levels <- Far
    QuotePrices <- Far
    Freshness = {TRUE, FALSE}
    Jumps = {FALSE}
    QueryErrors = {TRUE, FALSE}
    StoreErrors = {TRUE, FALSE}
    Sending = {"cex"}
    Switchers = {w1, w2}
    Restarts = {TRUE, FALSE}
INVARIANTS TypeOK NothingBeforeReady QuotesOnlyAsDecided 
SYMMETRY Symmetry
