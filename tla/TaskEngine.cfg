SPECIFICATION FairSpec
CONSTANTS
    Tasks = {t1, t2}
    Keys = {k1}
    Calls = {c1, c2}
    NoTask = NoTask
    NoKey = NoKey
INVARIANTS
    NoWriteWithoutApproval
    OneLiveTaskPerKey
    OneExecutorPerTask
    AuditAccountsForChanges
    CurrentStateAnnounced
PROPERTIES
    TerminalIsFinal
    RunningEnds
CHECK_DEADLOCK FALSE
