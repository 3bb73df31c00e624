SPECIFICATION Spec
CONSTANTS
    Sizes = {1}
    MaxInventory = 1
    Listing = 3
    MaxHeld = 2
    MaxQuotes = 2
    MaxRestarts = 2
    MaxFaults = 0
INVARIANTS
    KeptOrdersOnlyReduce
CHECK_DEADLOCK FALSE
