SPECIFICATION LiveMCSpec
CONSTANTS
    Unit = 100000
    Messages <- JumpingMessages
    Quotes = {105000}
    StoreErrors = {TRUE, FALSE}
    Restarts = {TRUE, FALSE}
INVARIANTS TypeOK WeightedBetweenUsableInputs PricedOnlyFromTwoInputs
  
PROPERTIES  CollectedPriceSettles
