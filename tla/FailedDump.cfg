SPECIFICATION Spec
CONSTANTS
    Kinds = {"LOG", "AUDIT"}
    AuditKind = "AUDIT"
    KindOrder <- TwoKindOrder
    FirstDay = 2
    MaxDay = 3
    Faults = {"dump"}
    RetentionOrder <- TwoRetentionOrder
    AuditFrom = 2
    Periods = {1}
    Manual = {"now"}
    Scheduled = {}
    Groups = {"audit", "detection"}
    BackupOrder <- TwoBackupOrder
    GroupAt <- TwoGroupAt
    SoloGroups = {"audit"}
    Spans = {2}
    MaxInserts = 1
INVARIANT BackupKeepsRows
CHECK_DEADLOCK FALSE
