SPECIFICATION Spec
CONSTANTS
    Kinds = {"LOG", "AUDIT", "TRAFFIC_DETECTION"}
    AuditKind = "AUDIT"
    KindOrder <- ThreeKindOrder
    FirstDay = 2
    MaxDay = 2
    Faults = {"drop"}
    RetentionOrder <- ThreeRetentionOrder
    AuditFrom = 2
    Periods = {1}
    Manual = {"now"}
    Scheduled = {"daily"}
    Groups = {"audit", "detection"}
    BackupOrder <- ThreeBackupOrder
    GroupAt <- ThreeGroupAt
    SoloGroups = {"audit"}
    Spans = {1}
    MaxInserts = 0
INVARIANT BackupKeepsRows
CHECK_DEADLOCK FALSE
