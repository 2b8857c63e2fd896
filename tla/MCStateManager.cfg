SPECIFICATION Spec
CONSTANTS
    Symbols = {aapl}
    MarketStatuses = {"trading", "market_closed"}
    StockStatuses = {"normal", "circuit_breaker", "halted"}
    MaxQueryFailures = 3
    MaxSpawned = 2

INVARIANT TypeOK
INVARIANT FatalExactlyAfterConsecutiveFailures
PROPERTY PollAnnouncesEverySwitch
