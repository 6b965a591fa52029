\* Two headers, so that work is replaced, and given back, while two streams are in
\* flight; with the slice added, one start nonce is 0 in 32 bits, which does not
\* restart the counter.  Word is small enough for several wraps.
CONSTANTS
    Headers = {hA, hB}
    Starts = {0, 2}
    NumStreams = 2
    Batch = 1
    Word = 8
    Low = 128
    Devs = 4
    High = 2
    Device = 1
    StartNonce = 515
    Slice = 6
    NoHeader = NoHeader
    One = One
SPECIFICATION Spec
INVARIANTS
    KickIsNotLost
    NoncesAttributed
PROPERTIES
    ImplementsService
