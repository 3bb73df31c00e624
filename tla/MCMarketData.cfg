CONSTANTS
    Tickers = {t1, t2}
    Categories = {c1}
    CategoryOf <- MCCategoryOf
    Capacity = 1
    MaxQty = 1
    MaxMoves = 1
    MaxFaults = 1
SPECIFICATION FairSpec
INVARIANTS TypeOK BooksFollow
PROPERTIES OpenMarketsAreServed BooksSettle ExpiredAreForgotten
CHECK_DEADLOCK FALSE
