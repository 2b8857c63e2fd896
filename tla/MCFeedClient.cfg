SPECIFICATION MCSpec
CONSTANTS
    Feeds = {"cex", "gate", "pyth"}
    MaxReconnectAttempts = 2
    MaxConns = 3
CHECK_DEADLOCK FALSE
INVARIANTS TypeOK OneReader FatalOnlyAfterFailedAttempts
  
