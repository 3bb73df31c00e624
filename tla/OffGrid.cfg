CONSTANTS
    Tickers <- MCTickers
    NoStrike = none
    Own <- MCOwn
    Levels <- MCLevels
    Top = 1000
    Ranges <- MCRanges
    Dists <- MCDists
    DeltaMax = 5
    ShiftMax = 100
    HalfSpreads = {10, 25}
    Skews <- MCSkews
    BandLo = 50
    BandHi = 950
    Subpenny = TRUE
    QuoteSize = 2
    ExtremeSize = 3
    ExtremeBand = 100
    FeeRate = 175
    MinEdge = 10
    MaxInventory = 2
    MaxPosition = 3
    None = None
SPECIFICATION Spec
INVARIANTS OnGrid
