CONSTANTS
    Overlap = 1
    Lookback = 0
    SweepCap = 2
    FillIdCap = 3
    MaxFills = 5
    MaxTime = 2
    MaxFailures = 1
    MaxBoots = 1
SPECIFICATION FairFeedSpec
INVARIANTS FeedTypeOK EachFillOnce NothingSkipped
PROPERTIES FillsAreBooked
CHECK_DEADLOCK FALSE
