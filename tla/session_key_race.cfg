SPECIFICATION Spec
CONSTANTS
    Handlers = {h1, h2}
    Sids = {s1, s2, s3, s4, s5}
    Keys = {k1}
    NoSid = NoSid
    NoKey = NoKey
    NoClient = NoClient
    Operations <- ChatAndKeys
    StoreOutcomes <- NeverFails
    Opened = {s1}
    MaxCalls = 3
INVARIANTS
    ClientHasCurrentKey
