CONSTANTS
    Others = {o}
    Holdings <- MCHoldings
    Marks = {2, 8}
    Dollar = 10
    Sizes = {1, 2}
    MaxInventory = 1
    TailCap = 8
    MaxPlans = 1
    MaxFaults = 1
    MaxParts = 1
SPECIFICATION Spec
PROPERTIES SuppressedSideIsPulled
