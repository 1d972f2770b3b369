SPECIFICATION BrowserSpec
CONSTANTS
    Parts = {"pages"}
    Pages <- MCPages
    MaxVisits = 1
    MaxExtra = 2
    HabitsTried = {"middle", "drop"}
    Kinds = {"log", "audit"}
    MaxSearches = 2
    MaxRows = 4
    MaxPending = 2
    FirstSize = 2
    ChangeValue = 1
    MaxRowSize = 3
    ModelLimit = 3
    FaultSets <- MCFaultSets
    Tabs = {t1, t2}
    Times = {1, 2, 3}
    FirstTime = 2
    TroubleSets <- MCTroubleSets
INVARIANT SomeTabMarked
CHECK_DEADLOCK FALSE
