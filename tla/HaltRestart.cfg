SPECIFICATION Spec
CONSTANTS
    Sizes = {1}
    MaxInventory = 1
    Listing = 3
    MaxHeld = 2
    MaxQuotes = 1
    MaxRestarts = 1
    MaxFaults = 0
INVARIANTS
    HaltHolds
CHECK_DEADLOCK FALSE
