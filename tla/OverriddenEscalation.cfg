SPECIFICATION Spec
CONSTANTS
    None = None
    BestMatch <- MCBestMatch
    JobsOf <- MCJobsOf
    EquipmentRates <- MCEquipmentRates
    Invoices <- DriftedBatch
    TaskIds <- MCTaskIds
    Budgets = {5, 20}
    Routings <- ShippedOnly
    CallTokens = {2}
    ProviderSets <- BothProviders
    ResumedStatuses = {"halted"}
    Faults = {}
    MaxCalls = 2
    MaxIterationsPerTask = 3
INVARIANT EscalationIsFinal
CHECK_DEADLOCK FALSE
