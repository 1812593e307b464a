SPECIFICATION Spec
CONSTANTS
    Users = {u1, u2}
    Descriptors = {3, 4, 5}
    Addresses = {a1, a2, a3}
    Sizes = {1, 2}
    Null = Null
    Locates = {l1, l2}
    Attributes = {dir}
    NoAttributes = none
    TradingStates = {Halted, Trading}
    Halted = Halted
    RegSHOActions = {Restricted}
    NoPriceTest = NoPriceTest
    MaxFed = 3
SYMMETRY Symmetry
INVARIANTS OwnedOnce RunCleansUp ReportIsOfThisRun InstrumentsFollowFeed
