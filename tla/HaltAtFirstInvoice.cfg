SPECIFICATION Spec
CONSTANTS
    None = None
    BestMatch <- MCBestMatch
    JobsOf <- MCJobsOf
    EquipmentRates <- MCEquipmentRates
    Invoices <- DoubtfulBatch
    TaskIds <- MCTaskIds
    Budgets = {1, 4}
    Routings <- ShippedOnly
    CallTokens = {1, 2}
    ProviderSets <- BothProviders
    ResumedStatuses = {"halted"}
    Faults = {}
    MaxCalls = 3
    MaxIterationsPerTask = 3
INVARIANT HaltedRunIsResumable
CHECK_DEADLOCK FALSE
