\* Two presets of two modes, two tasks; four deployments; 27 requests; one credential
\* echoed, two operations on files that fail or files that a scan does not read.
SPECIFICATION Spec
CONSTANTS
    PromptSizes = {1, 2}
    UsageSizes = {1, 2}
    LeakKinds = {"known", "shaped"}
    None = None
    MaxFaults = 2
    Presets <- MCPresets
    ModeOrder <- MCModeOrder
    AblationOrder <- MCAblationOrder
    Canonical <- MCCanonical
    Contents <- MCContents
    Inside <- MCInside
    DefaultPolicy <- MCDefaultPolicy
    Deployments <- MCDeployments
    Asked <- MCAsked
INVARIANTS TypeOK SpendAuthorised RecordsPaired ExitZeroIsSound QuarantineComplete ReportTrue
