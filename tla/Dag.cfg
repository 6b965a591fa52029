\* Every mode of both kinds of miner, two epochs, the first with two periods; the
\* farm is started twice.
CONSTANTS
    NumInstances = 3
    Sealers = {"cuda", "opencl"}
    Modes = {"parallel", "sequential", "single"}
    DagCreateDevice = 1
    PeriodsPerEpoch = 2
    MaxPeriod = 3
    MaxStarts = 2
SPECIFICATION Spec
CONSTRAINT WithinBounds
INVARIANTS
    OneLoadsAtATime
    MinesWithItsDag
PROPERTIES
    EveryMinerLoads
