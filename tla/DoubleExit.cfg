CONSTANTS
    Base = 2
    Cap = 4
    Holdoff = 2
    MaxLag = 1
    NoRetry = none
    MaxNet = 2
    MaxStray = 2
SPECIFICATION Spec
INVARIANTS ExitsNeverStack
