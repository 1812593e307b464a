SPECIFICATION Spec
CONSTANTS
    Keys = {k1, k2, k3, k4, k5}
    Values = {p, q}
    Capacity = 4
    Empty = Empty
    Null = Null
    MaxSentinel = 1
SYMMETRY Symmetry
INVARIANTS KeysUnique FindIsLookup
PROPERTY ImplementsKeyValueMap
