CONSTANTS
    bound = btc
    free = wc
    Tickers = {btc, wc}
    Bound = {btc}
    QuoteSizes = {2}
    MaxInventory = 2
    MaxOpenOrders = 1
    Leftover <- MCLeftover
    NoOrder = none
    MaxQuotes = 2
    MaxUnbooked = 1
SPECIFICATION Spec
INVARIANT OnlyRestingOrdersCounted
CHECK_DEADLOCK FALSE
