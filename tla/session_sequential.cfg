SPECIFICATION FairSpec
CONSTANTS
    Handlers = {h1}
    Sids = {s1, s2, s3, s4, s5, s6}
    Keys = {k1}
    NoSid = NoSid
    NoKey = NoKey
    NoClient = NoClient
    Operations <- AllOperations
    StoreOutcomes <- NeverFails
    Opened = {s1}
    MaxCalls = 5
INVARIANTS
    ForgottenStaysForgotten
    HistoryIsEarlier
    CachesCurrent
PROPERTIES
    KeepsPromise
    CallbacksReturn
