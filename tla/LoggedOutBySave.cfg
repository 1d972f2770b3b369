SPECIFICATION StaticSpec
CONSTANTS
    Fields = {"sysMap"}
    Sessions = {s1, s2}
    Pages = {p1, p2, p3}
    MaxDrops = 2
    RaceSets <- MCRaceSets
    Threads = {t1, t2, t3}
    MaxUses = 2
    Crowds = {TRUE}
    Requests = {r1, r2}
    Forms <- MCForms
    StartForm <- MCStartForm
    MaxServed = 3
    SettingsFaults <- MCSettingsFaults
INVARIANT KeptAddressAdmitted
SYMMETRY RequestSymmetry
CHECK_DEADLOCK FALSE
