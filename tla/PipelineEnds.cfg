SPECIFICATION FairSpec
CONSTANTS
    None = None
    BestMatch <- MCBestMatch
    JobsOf <- MCJobsOf
    EquipmentRates <- MCEquipmentRates
    Invoices <- RefusedBatch
    TaskIds <- MCTaskIds
    Budgets = {1, 4}
    Routings <- EveryTable
    CallTokens = {1, 2}
    ProviderSets <- EveryProvider
    ResumedStatuses = {"running", "halted", "completed"}
    Faults = {"crash", "provider_error"}
    MaxCalls = 2
    MaxIterationsPerTask = 2
PROPERTIES
    CallsEnd
    CallsGetShorter
CHECK_DEADLOCK FALSE
