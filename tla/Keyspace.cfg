SPECIFICATION Spec
CONSTANTS
    Key = {"a", "b"}
    MaxInt = 19
    MaxDeadline = 8
    SecMs = 2
    MaxTime = 3
    MaxSize = 2
    ByteBits = 2
    WordBits = 5
    MaxStrLen = 4
    GeoStepMax = 3
    PolarBands = {{0, 1, 15, 16}, {0, 16}}
    SeqRange = 2
    MaxMs = 3
    NodeMax = 2
    ItemHash <- MCItemHash
    MinBits = 8
    DefaultRate = 2
    GrowFactor = 2
    MetaSize = 2
    MaxChunk = 7
    Fingerprints = 7
    MixConstant = 5
    CuckooCapacity = 4
    CuckooIterations = 4
    MaxCounter = 2
    Registers = 4
    MaxPattern = 3
    ZeroMaxLen = 2
    ValMaxLen = 2
    ValMax = 2
    SparseMaxBytes = 7
    Commands <- MCCommands
INVARIANTS TableSound NoSideEffects ExpiryInvisible ExistenceVersioned ShardsAgree CursorsComplete
