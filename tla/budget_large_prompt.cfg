\* limits.py says an over-long prompt is refused before it is sent.
SPECIFICATION Spec
CONSTANTS
    Handlers = {h1}
    Sids = {s1}
    LimitSets <- SmallLimits
    PromptCosts = {1, 2}
    CompletionCosts = {0, 1}
    MaxCost = 3
    MaxChats = 2
    MaxBudgets = 1
    MaxUpdates = 0
INVARIANTS LargePromptNotSent
