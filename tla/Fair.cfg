SPECIFICATION FairSpec
CONSTANTS
    Kinds = {"LOG", "AUDIT"}
    AuditKind = "AUDIT"
    KindOrder <- TwoKindOrder
    FirstDay = 1
    MaxDay = 2
    Faults = {}
    RetentionOrder <- TwoRetentionOrder
    AuditFrom = 2
    Periods = {1}
    Manual = {"now"}
    Scheduled = {}
    Groups = {"detection"}
    BackupOrder <- TwoBackupOrder
    GroupAt <- OneGroupOfTwoAt
    SoloGroups = {}
    Spans = {1}
    MaxInserts = 0
INVARIANT LogTablesReady
PROPERTIES ExpiredTablesGo JobsEnd
CHECK_DEADLOCK FALSE
