SPECIFICATION Spec
CONSTANTS
    Handlers = {h1, h2}
    Sids = {s1, s2, s3, s4, s5}
    Keys = {k1}
    NoSid = NoSid
    NoKey = NoKey
    NoClient = NoClient
    Operations <- AllOperations
    StoreOutcomes <- MayFail
    Opened = {s1}
    MaxCalls = 3
SYMMETRY HandlerSymmetry
INVARIANTS
    TypeOK
    SessionsIsolated
    TranscriptSound
