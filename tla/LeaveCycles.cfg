SPECIFICATION CycleSpec
CONSTANTS
    Types <- SomeTypes
    People <- SomePeople
    FirstDate <- NewYear2003
    LastDate <- May2007
INVARIANTS
    TakeOnCountsOnce
    DeductionsFit
    AccrualKeepsPace
PROPERTY
    CyclesFollowOn
CHECK_DEADLOCK FALSE
