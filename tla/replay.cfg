\* Replays of every conversation up to three messages, and of longer ones; live turns
\* while the mode and the sliders change.
SPECIFICATION Spec
CONSTANTS
    Offered = {"full_context", "rag", "brainos", "brainos_rag"}
    RecentTurns = 1
    RecentBudget = 1
    SlidingTurns = 2
    Evidence = 2
    DefaultCeiling = 4
    Ceilings = {2}
    Windows = {3}
    EvidenceSizes = {1}
    MaxRequests = 1
    MaxEvents = 4
    Unlimited = Unlimited
    Clients = {"sidebar", "api", "replay"}
    Conversations <- MCConversations
    Kinds <- MCKinds
    Slack = 1
    Overhead = 1
    RecallLimit = 2
    TopK = 2
    MaxMessages = 2
INVARIANTS TypeOK IsolationHolds ReferenceIsWhole EvidenceFitsMode SidebarTruthful
