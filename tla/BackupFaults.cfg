SPECIFICATION Spec
CONSTANTS
    Kinds = {"AUDIT"}
    AuditKind = "AUDIT"
    KindOrder <- OneKindOrder
    FirstDay = 2
    MaxDay = 3
    Faults = {"drop", "dump", "zip", "today", "late"}
    RetentionOrder <- OneRetentionOrder
    AuditFrom = 1
    Periods = {1}
    Manual = {"now"}
    Scheduled = {}
    Groups = {"audit"}
    BackupOrder <- OneBackupOrder
    GroupAt <- OneGroupAt
    SoloGroups = {"audit"}
    Spans = {2}
    MaxInserts = 1
PROPERTY CurrentTablesKept
CHECK_DEADLOCK FALSE
