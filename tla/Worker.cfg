CONSTANTS
    Callers = {c1, c2, c3}
SPECIFICATION Spec
INVARIANTS
    NoWorkOnDestroyedMiner
    KillIsNotLost
PROPERTIES
    CallsTerminate
