\* Two solutions, a node and an "exit" behind it.
SPECIFICATION Spec
CONSTANTS
    Solutions = {s1, s2}
    None = None
    Headers = {h1, h2}
    NoHeader = NoHeader
    NumConnections = 2
    ExitConnection = 2
    Tries = 1
INVARIANTS AnsweredOnce
PROPERTIES UncontendedIsHandled
