\* DAG sizes are in units of memory in which a GPU has 1, 4 or 8.
CONSTANTS
    MAX_MINERS = 4
    MaxUInt = 100
    FirstDag = 2
    LaterDag = 6
    AMD = 4098
    Machines <- MCMachines
    Commands <- MCCommands
    Number <- MCNumber
    Url <- MCUrl
    UserPass <- MCUserPass
    Dashed <- MCDashed
    k_max_endpoints = 2
SPECIFICATION Spec
INVARIANTS
    PoolsAsAsked
    DevicesAsAsked
    SensorsOfTheMiner
CHECK_DEADLOCK FALSE
