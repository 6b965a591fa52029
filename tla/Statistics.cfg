CONSTANTS
    N = 1
    m_hashrateSmoothInterval = 0
    Readers = {"main"}
    MaxBatches = 2
    MaxSolutions = 2
    MaxTime = 1
SPECIFICATION Spec
INVARIANTS
    HashesCountedOnce
    EraseFindsProgress
PROPERTIES
    SolutionBringsJob
CHECK_DEADLOCK FALSE
