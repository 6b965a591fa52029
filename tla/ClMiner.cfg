SPECIFICATION Spec
CONSTANTS
    Headers = {h1, h2}
    Starts = {0, 3}
    GlobalWorkSize = 2
    Space = 8
    NoHeader = NoHeader
    One = One
INVARIANT BatchesTile
PROPERTY ImplementsService
