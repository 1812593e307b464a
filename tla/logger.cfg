SPECIFICATION FairSpec
CONSTANTS
    Capacity = 4
    Batch = 2
    EntrySize = 2
    Lengths = {1, 3}
    Levels = {0, 1}
    MaxHead = 5
    MaxDropped = 1
    MaxStarts = 2
INVARIANTS RingBounded NoSlotRace StopFlushes FileOpenWhileDraining ScratchFits
PROPERTIES ImplementsBoundedLog StopReturns EventuallyDrained
