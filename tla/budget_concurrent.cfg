\* Two handlers race on the budgets of two sessions.
SPECIFICATION Spec
CONSTANTS
    Handlers = {h1, h2}
    Sids = {s1, s2}
    LimitSets <- SmallLimits
    PromptCosts = {1, 2}
    CompletionCosts = {0, 1}
    MaxCost = 3
    MaxChats = 3
    MaxBudgets = 2
    MaxUpdates = 1
SYMMETRY Symmetry
INVARIANTS TypeOK TurnsBounded RequestsBounded TokensBounded NoRequestWithoutTurn
PROPERTIES ExhaustionIsFinal
