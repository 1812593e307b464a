SPECIFICATION Spec
CONSTANTS
    Locates = {1, 2}
    Ids = {i1, i2, i3}
    Prices = {10, 11}
    Quantities = {1, 2}
    OrderSlots = {o1, o2, o3}
    LevelSlots = {v1, v2}
    EmptyPrice = 99
    Null = Null
SYMMETRY Symmetry
VIEW StateView
INVARIANTS TypeOK OrderSlotsAccounted LevelSlotsAccounted IndexAgreesWithBook BooksSorted TotalsMatch GaugesMatch
PROPERTIES OrdersStayPut ImplementsMarketBook
