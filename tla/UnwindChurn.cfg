SPECIFICATION TriggerSpec
CONSTANTS
    Prices = {200, 260, 320, 400}
    QuotePrices = {190, 210, 390, 410}
    Shifts <- MCShifts
    UnwindShift = 40
    Tick = 10
    None = None
INVARIANTS
    UnwindsFollowMoves
