CONSTANTS
    bound = btc
    free = wc
    Tickers = {btc, wc}
    Bound = {btc}
    QuoteSizes = {2}
    MaxInventory = 2
    MaxOpenOrders = 1
    Leftover <- MCLeftover
    NoOrder = none
    MaxQuotes = 1
    MaxUnbooked = 1
SPECIFICATION FairSpec
PROPERTY StaleFeedPullsQuotes
CHECK_DEADLOCK FALSE
