SPECIFICATION FairSpec
CONSTANTS
    Keys = {k1, k2, k3, k4}
    Values = {p}
    Capacity = 4
    Empty = Empty
    Null = Null
    MaxSentinel = 0
PROPERTY EraseEnds
