SPECIFICATION Spec
CONSTANTS
    None = None
    BestMatch <- MCBestMatch
    JobsOf <- MCJobsOf
    EquipmentRates <- MCEquipmentRates
    Invoices <- DriftedBatch
    TaskIds <- MCTaskIds
    Budgets = {1, 9}
    Routings <- ShippedOnly
    CallTokens = {2}
    ProviderSets <- BothProviders
    ResumedStatuses = {"halted"}
    Faults = {"crash"}
    MaxCalls = 3
    MaxIterationsPerTask = 3
INVARIANT NothingClosedIsReprocessed
CHECK_DEADLOCK FALSE
