\* Every small call of build_context.
SPECIFICATION FairSpec
CONSTANTS
    Inputs <- SmallInputs
    Texts = {"t", "u", "v"}
    MemoryFrame = 1
    ChunkFrame = 1
    MarkerCost = 1
    NoTurnLimit = NoTurnLimit
INVARIANTS
    TypeOK
    CeilingHolds
    EveryDropRecorded
    SectionsAccounted
    NoSentenceTwice
PROPERTIES
    Returns
CHECK_DEADLOCK FALSE
