\* Two pools, one retry each; two solutions out and two connection attempts at a time.
SPECIFICATION Spec
CONSTANTS
    Jobs = {j1, j2}
    NoJob = NoJob
    Submitters = {t1, t2}
    NumConnections = 2
    ExitConnection = 0
    Tries = 1
    m_worktimeout = 2
    Version = "STRATUM"
    MaxFlight = 1
    MaxWrites = 2
    MaxAttempts = 2
    MaxDue = 1
INVARIANTS OneReadPending NeverIdle StaleIsNotFresh SolutionIsTimed
PROPERTIES Failover SameJobTimesOut
