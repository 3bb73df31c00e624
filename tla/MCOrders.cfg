CONSTANTS
    bound = btc
    free = wc
    Tickers = {btc, wc}
    Bound = {btc}
    QuoteSizes = {2}
    MaxInventory = 2
    MaxOpenOrders = 1
    Leftover = {}
    NoOrder = none
    MaxQuotes = 2
    MaxUnbooked = 1
SPECIFICATION FairSpec
INVARIANTS OrphansAreExplained SlotsAreLive
PROPERTIES BudgetAdmits RisingEdgePulls
CHECK_DEADLOCK FALSE
