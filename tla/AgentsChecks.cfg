SPECIFICATION Spec
CONSTANTS
    None = None
    BestMatch <- MCBestMatch
    JobsOf <- MCJobsOf
    EquipmentRates <- MCEquipmentRates
    Equipment = {"crane", "lift"}
    JobDates = {None, 10, 13, 14, 43}
    BilledDate = 11
    Amounts = {38, 42, 43, 300}
    Days <- MCDays
    Scores = {74, 75}
    MaxJobs = 2
    FallbackDate = 12
    UnknownCustomerName <- MCUnknownName
    Catalog = {"crane", "lift"}
    BilledDays = {1, 5}
    OverbillPercents = {120, 150}
    PhantomOffsets = {30}
    PhantomRates = {200, 300}
    DriftDays = {3, 4, 10}
INVARIANTS
    NearestIsHeadOfStableSort
    ClearCutVerdictsAreAgreed
    ProviderDecidesOnlyTheGap
    OffAmountIsNeverClean
    CleanGoldenIsSettled
    InjectedDiscrepancyIsFound
