SPECIFICATION Spec
CONSTANTS
    Ids = {0, 1, 2, 3, 4, 6}
    OrderSlots = {o1, o2, o3}
    Capacity = 2
    Null = Null
SYMMETRY Symmetry
INVARIANTS NoStalePointer NoDoubleEntry InsertNeverRefused SizeMatches
PROPERTY ImplementsOrderMap
