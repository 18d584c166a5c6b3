SPECIFICATION ScoredSpec
CONSTANTS
    None = None
    Similarity <- MCSimilarity
    RecordIds = {"C1", "C1D", "C2", "C2D", "C3", "B1", "B2", "J1", "J2"}
    Datasets <- MCDatasets
    Variation <- MCVariation
    Corpora <- MCCorpora
    JobCounts = {1}
    KestrelDatasets <- GeneratedDatasets
    CustomerLookupInput <- MCLookupInput
    Resolvers = {TRUE, FALSE}
    ReplyIds = {1, 2, 9}
    Confidences = {6000000, 7500000}
    Faults = {"provider_error"}
INVARIANTS
    TypeOK
    OutcomesExplainRegistry
    UnplacedWaitForReview
    CustomersStayApart
    KeyFollowsAccount
    PlacedByNameIsBest
    ServerAgreesWithRegistry
    CustomerFoundByOwnName
    NamedJobIsFoundUnderItsName
    FalsePairsNeedLookalikes
    KeyedPairsAreRecalled
    ScoreMeetsQueue
PROPERTIES
    ImplementsPartition
CHECK_DEADLOCK FALSE
