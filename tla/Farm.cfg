\* Farms of every kind; the pool connects, disconnects and sends work while the API
\* restarts the miners.  With restarts, and in a mixed farm, callers may block for ever.
CONSTANTS
    Works = {wA, wB}
    NoWork = NoWork
    MinerTypes = {"CUDA", "CL", "Mixed"}
    Sealers = {"cuda", "opencl"}
    Instances <- TwoAndOne
    ApiEnabled = TRUE
    PromptService = TRUE
    MaxQueued = 2
SPECIFICATION Spec
INVARIANTS
    NoStaleMiner
PROPERTIES
    HandlersComplete
    HashRateIsCollected
CHECK_DEADLOCK FALSE
