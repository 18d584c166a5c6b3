SPECIFICATION Spec
CONSTANTS
    None = None
    BestMatch <- MCBestMatch
    JobsOf <- MCJobsOf
    EquipmentRates <- MCEquipmentRates
    Invoices <- MixedBatch
    TaskIds <- MCTaskIds
    Budgets = {3, 9}
    Routings <- ShippedOnly
    CallTokens = {1, 2}
    ProviderSets <- BothProviders
    ResumedStatuses = {"running", "halted", "completed"}
    Faults = {"crash", "provider_error"}
    MaxCalls = 3
    MaxIterationsPerTask = 3
INVARIANTS
    TypeOK
    CheckpointDecided
    CallAccountsForItsInvoices
    NoInvoiceDeliveredTwice
    DoubtfulDateNeverClosed
    VerdictFollowsValidator
    ExpensiveFollowsMid
    SpendStopsAtBudget
    CapNeedsReusedGuardrails
    ReviewCarriesFinding
    ReportCoversCall
PROPERTY
    ImplementsLedger
CHECK_DEADLOCK FALSE
