\* A client of the API that switches to an ablation and back.
SPECIFICATION Spec
CONSTANTS
    Offered = {"brainos", "brainos_no_relevance"}
    RecentTurns = 1
    RecentBudget = 1
    SlidingTurns = 2
    Evidence = 2
    DefaultCeiling = 4
    Ceilings = {2}
    Windows = {3}
    EvidenceSizes = {1}
    MaxRequests = 1
    MaxEvents = 4
    Unlimited = Unlimited
    Clients = {"api"}
    Conversations <- MCConversations
    Kinds <- MCKinds
    Slack = 1
    Overhead = 1
    RecallLimit = 2
    TopK = 2
    MaxMessages = 2
INVARIANT LabelledSystemRuns
