\* Two restarts, so that leftovers of two lives meet; listings that hold all
\* orders of one life but not those of all.
SPECIFICATION Spec
CONSTANTS
    Sizes = {1, 2}
    MaxInventory = 1
    Listing = 3
    MaxHeld = 2
    MaxQuotes = 3
    MaxRestarts = 2
    MaxFaults = 1
INVARIANTS
    LeftoversUnwind
    HaltClears
CHECK_DEADLOCK FALSE
