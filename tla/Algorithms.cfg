CONSTANTS
    Word = 16
    NODE_WORDS = 4
    ETHASH_CACHE_ROUNDS = 2
    ETHASH_DATASET_PARENTS = 3
    ETHASH_ACCESSES = 3
    NodesOfUInt = 8
    Sha512 <- MCSha512
    Sha256 <- MCSha256
    Nibble = 4
    HashSize = 3
    MaxBytes = 5
    DataStart = 8
    ListStart = 12
    MaxLengthBytes = 2
    Data <- MCData
    Ints <- MCInts
    MaxAppends = 4
    MaxList = 2
    MaxReads = 3
    HashFields = 2
    MaxNumber = 16
    ETHASH_EPOCH_LENGTH = 4
    States <- MCStates
    HeaderHashes <- MCHeaderHashes
    MaxMessage = 7
    Rate = 3
    DagPages = {1, 2, 3, 5}
    WorkSizes = {1, 3, 4}
    Blocks4 <- MCGrids
    CacheNodes = 5
    Nonces = {0, 1, 7, 15}
    Values <- MCValues
    Headers <- MCHeaders
    ByteBits = 2
    Words64 = {0, 1, 128, 255, 256, 4660, 32768, 43981, 65535}
    BlockSizes = {1, 9, 16, 17, 32, 80}
    Launch <- MCLaunch
    PROGPOW_PERIOD = 10
    PROGPOW_REGS = 32
    PROGPOW_DAG_LOADS = 4
    PROGPOW_CNT_CACHE = 11
    PROGPOW_CNT_MATH = 20
    BlockNumbers <- MCBlocks
    Fills <- MCFills
    Vectors <- FromDocs
    PROGPOW_LANES = 4
    PROGPOW_CNT_DAG = 2
    LoadWords = 4
    PROGPOW_CACHE_WORDS = 40
    MAX_OUTPUTS = 1
    MaxGroups = 3
SPECIFICATION MCSpec
INVARIANTS
    CopiesAgree DagIsWhole AccessesStayInside
    EncodingsRoundTrip WorkIsItsHeader
    ProgramMixesEverything MatchesVectors
    SharedMemoryIsOwn
    RlpRoundTrips
CHECK_DEADLOCK FALSE
