CONSTANTS
    market = market
    Tickers = {market}
    Kinds <- MCKinds
    Rate <- MCRate
    Waits = {1}
    Results = {"yes", "no", "void"}
    HistoryCap = 3
    MaxDailyLoss = 60
    StopLoss <- MCStopLoss
    MaxValue = 150
    MaxFills = 3
    MaxBoots = 1
SPECIFICATION Spec
INVARIANT NoEntryWhenFlat
CHECK_DEADLOCK FALSE
