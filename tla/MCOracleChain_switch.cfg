SPECIFICATION MCSpec
CONSTANTS
    Symbols = {s1}
    MaxQueryFailures = 1
    MaxSpawned = 1
    MarketStatuses = {"trading", "closed"}
    StockStatuses = {"normal"}
    Levels <- Far
    QuotePrices = {100}
    Freshness = {TRUE}
    Jumps = {FALSE}
    QueryErrors = {FALSE}
    StoreErrors = {FALSE}
    Sending = {"cex", "pyth"}
    Switchers = {w1}
    Restarts = {FALSE}
PROPERTY SwitchIsChecked
