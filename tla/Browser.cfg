SPECIFICATION BrowserSpec
CONSTANTS
    Parts = {"pages", "list", "countdown"}
    Pages <- MCPages
    MaxVisits = 3
    MaxExtra = 2
    HabitsTried = {"rush", "middle", "drop"}
    Kinds = {"log", "audit"}
    MaxSearches = 2
    MaxRows = 4
    MaxPending = 2
    FirstSize = 2
    ChangeValue = 1
    MaxRowSize = 3
    ModelLimit = 3
    FaultSets <- MCFaultSets
    Tabs = {t1, t2}
    Times = {1, 2, 3}
    FirstTime = 2
    TroubleSets <- MCTroubleSets
INVARIANTS OneContainer NobodyAskedTwice ClosedTabsSilent StaticKeepsSearch
INVARIANTS PaneIsTheTabs MarkedTabListens
INVARIANTS NoRowTwice NothingSkipped ShowsWindow
INVARIANTS CountWithinSession
PROPERTIES PageComesUp ReadingOnEnds InUseNotEnded EndedTabLeaves
CHECK_DEADLOCK FALSE
