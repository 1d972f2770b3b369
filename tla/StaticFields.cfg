SPECIFICATION StaticSpec
CONSTANTS
    Fields = {"passPhrase", "cipher", "sysMap"}
    Sessions = {s1, s2}
    Pages = {p1, p2, p3}
    MaxDrops = 2
    RaceSets <- MCRaceSets
    Threads = {t1, t2, t3}
    MaxUses = 4
    Crowds = {FALSE, TRUE}
    Requests = {r1, r2}
    Forms <- MCForms
    StartForm <- MCStartForm
    MaxServed = 3
    SettingsFaults <- MCSettingsFaults
INVARIANTS KeyHasOneOwner OwnKeyInTurn
INVARIANTS SaveAloneSettles LoginFindsSettings SensorFileCurrent AddressesInForce
PROPERTY KeysKeepPromise
SYMMETRY RequestSymmetry
CHECK_DEADLOCK FALSE
