SPECIFICATION Spec
CONSTANTS
    Kinds = {"LOG", "AUDIT", "TRAFFIC_DETECTION"}
    AuditKind = "AUDIT"
    KindOrder <- ThreeKindOrder
    FirstDay = 2
    MaxDay = 4
    Faults = {"create", "straddle", "drop"}
    RetentionOrder <- ThreeRetentionOrder
    AuditFrom = 2
    Periods = {1, 2}
    Manual = {}
    Scheduled = {}
    Groups = {"audit", "detection"}
    BackupOrder <- ThreeBackupOrder
    GroupAt <- ThreeGroupAt
    SoloGroups = {"audit"}
    Spans = {1}
    MaxInserts = 0
PROPERTIES OldestDroppedFirst RetentionHonoursPeriods CalendarSpec
CHECK_DEADLOCK FALSE
