SPECIFICATION LoginSpec
CONSTANTS
    Users = {u, a, b}
    Admins = {a, b}
    Sessions = {s1, s2, s3}
    None = None
    a = a
    b = b
    s1 = s1
    s2 = s2
    s3 = s3
    u = u
    Security = TRUE
    MaxAtWork = 2
    FaultSets = {{}, {"overlap", "gone", "audit"}, {"overlap", "db", "audit"}}
    Requests = {r1, r2}
    r1 = r1
    r2 = r2
    Limits = {2, 3}
    FirstLimit = 3
    LockTime = 2
    Never = Never
    MaxTime = 6
    MaxFails = 5
    CaseSets = {{}, {"conf"}, {"neverIn"}}
INVARIANTS SingleLoginInTurn LoginsRegistered RegistryIsLive LimitEnforcedInTurn
PROPERTIES ControlNotTaken SuspensionLastsInTurn AdminLockLastsInTurn
SYMMETRY LoginSymmetry
CHECK_DEADLOCK FALSE
