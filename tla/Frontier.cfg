SPECIFICATION FrontierSpec
CONSTANTS
    None = None
    BestMatch <- MCBestMatch
    JobsOf <- MCJobsOf
    EquipmentRates <- MCEquipmentRates
    Invoices <- Corpus
    TaskIds <- MCTaskIds
    Configs <- MCConfigs
    TrueDiscrepancy <- MCTrueDiscrepancy
    Budgets = {9, 100}
    Routings <- MCConfigTables
    CallTokens = {2}
    ProviderSets <- BothProviders
    ResumedStatuses = {}
    Faults = {"provider_error"}
    MaxCalls = 4
    MaxIterationsPerTask = 5
INVARIANTS
    OnlyAmbiguityCallsModels
    ConfigsScoreAlike
    CallsFollowEscalations
    LogNamesCallTiers
    CompletedIsScored
CHECK_DEADLOCK FALSE
