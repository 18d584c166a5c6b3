SPECIFICATION Spec
CONSTANTS
    None = None
    BestMatch <- MCBestMatch
    JobsOf <- MCJobsOf
    EquipmentRates <- MCEquipmentRates
    Invoices <- MixedBatch
    TaskIds <- MCTaskIds
    Budgets = {2, 4, 20}
    Routings <- ShippedOnly
    CallTokens = {1, 2}
    ProviderSets <- EveryProvider
    ResumedStatuses = {"halted"}
    Faults = {}
    MaxCalls = 3
    MaxIterationsPerTask = 3
INVARIANTS
    SkippedMeansDelivered
    NothingClosedIsReprocessed
CHECK_DEADLOCK FALSE
