SPECIFICATION CycleSpec
CONSTANTS
    Types <- SomeTypes
    People <- SomePeople
    FirstDate <- NewYear2003
    LastDate <- May2007
INVARIANT
    NoDayDeductedTwice
CHECK_DEADLOCK FALSE
