CONSTANTS
    Prices = {10000, 10012, 10400}
    Jump = 2000
    JumpWindow = 1
    ReturnWindow = 2
    Retain = 3
    StaleMax = 1
    Trip = 150
    Release = 105
    Capacity = 1
    Mids = {40, 60}
    MidWindow = 2
    HistoryLen = 3
    MaxVol = 5
    MaxMoves = 2
    MaxFaults = 1
    NoPrice = NoPrice
SPECIFICATION FairSignalSpec
INVARIANTS SignalTypeOK BaseIsOldBelief
PROPERTIES QuotingResumes
