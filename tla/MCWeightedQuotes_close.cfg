SPECIFICATION MCSpec
CONSTANTS
    Unit = 100000
    Messages <- JumpingMessages
    Quotes = {0, 99999, 105000}
    StoreErrors = {FALSE}
    Restarts = {TRUE, FALSE}
INVARIANT CloseIsTheCaptured
