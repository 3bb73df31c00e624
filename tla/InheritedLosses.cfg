CONSTANTS
    Tickers = {t1}
    Categories = {c1}
    CategoryOf <- MCCategoryOf
    NoCategory = none
    Absent = absent
    HaltLimit = 2
    MaxChecks = 2
    FillDeltas <- MCFillDeltas
    MaxFills = 3
    MaxBoots = 1
SPECIFICATION Spec
PROPERTY InheritedIsExempt
CHECK_DEADLOCK FALSE
