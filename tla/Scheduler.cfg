SPECIFICATION FairSpec
CONSTANTS
    Calls = {c1, c2, c3}
    Settings = {s1, s2}
    DefaultSetting = s1
    AuditKeep = 2
    MaxAudit = 3
    None = None
CHECK_DEADLOCK FALSE
INVARIANTS
    EnabledHasWorker
    OneWorkerPerSchedule
    AuditExplainsState
    DisabledHasNoWorker
PROPERTIES
    DisabledDrains
    EnabledKeepsPolling
