SPECIFICATION Spec
CONSTANTS
    Locates = {1}
    Ids = {i1, i2, i3, i4}
    Prices = {10, 11, 99}
    Quantities = {0, 1, 2}
    OrderSlots = {o1, o2, o3}
    LevelSlots = {v1, v2}
    EmptyPrice = 99
    Null = Null
SYMMETRY Symmetry
VIEW StateView
INVARIANTS OrderSlotsAccounted
PROPERTIES ClosingCrossReclaims ImplementsMarketBook
