CONSTANTS
    Works = {wA, wB}
    NoWork = NoWork
    MinerTypes = {"CUDA"}
    Sealers = {"cuda", "opencl"}
    Instances <- TwoAndOne
    ApiEnabled = TRUE
    PromptService = FALSE
    MaxQueued = 2
SPECIFICATION Spec
PROPERTIES
    RestartCompletes
CHECK_DEADLOCK FALSE
