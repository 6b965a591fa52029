\* A nonce of 14 bits with the layout of the code's 64.  Some scramblers lie above
\* CUDAMiner's max_nonce, some reach it, one is close to the end of the space.  Batches
\* are longer than the slices of an extranonce, as in the code.
CONSTANTS
    Sealers = {"cuda", "opencl"}
    NumMiners = 2
    Digit = 4
    Digits = 7
    MaxMiners = 4
    Sizes = {1}
    Scramblers = {0, 50, 100, 16380}
    Stride = 4096
    MaxJobs = 2
    MaxBatches = 2
    Batch = 8
    Word = 64
    Low = 1024
    Devs = 4
    High = 4
SPECIFICATION NonceSpec
INVARIANTS
    NoNonceTwice
    ShareIsWhatWasTried
