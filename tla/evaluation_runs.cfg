\* Two handlers, an open session, an abandoned one and one that cannot be swept.
SPECIFICATION Spec
CONSTANTS
    Handlers = {h1, h2}
    Sids = {s1, n1, n2, n3, a1, u1}
    Opened = {s1}
    Abandoned = {a1, u1}
    Unremovable = {u1}
    MaxRuns = 1
    MaxAge = 1
    SweepMax = 1
    StoreOutcomes = {TRUE}
    NoSid = NoSid
    Epoch = 1
    MaxClock = 3
    MaxCalls = 3
SYMMETRY Symmetric
INVARIANTS TypeOK RunsBounded SweepReclaims EndedLeavesNoRuns
PROPERTY FreshFilesKept
