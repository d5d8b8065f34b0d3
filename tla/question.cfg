\* Three memories of thirteen kinds, three policies, five tasks in two kinds of mode.
SPECIFICATION Spec
CONSTANTS
    Memories <- MCMemories
    Observations <- MCObservations
    Policies <- MCPolicies
    MaxRecall = 3
    MaxReports = 1
    None = None
    Facts = {"pg", "mysql", "region"}
    Tasks <- MCTasks
    Histories <- MCHistories
INVARIANTS TypeOK CandidatesAccounted ConflictsSettled FailuresLabelled
