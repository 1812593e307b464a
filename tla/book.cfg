SPECIFICATION Spec
CONSTANTS
    OrderSlots = {o1, o2, o3, o4}
    LevelCapacity = 3
    Prices = {10, 11, 12}
    Quantities = {1, 2}
    MapCapacity = 4
    Null = Null
SYMMETRY Symmetry
INVARIANTS QueuesLinked LevelsLinked FreeListWhole
PROPERTY ImplementsMarketBook
