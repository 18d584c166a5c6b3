SPECIFICATION Spec
CONSTANTS
    None = None
    Similarity <- MCSimilarity
    RecordIds = {"C1", "C2", "C3", "B1", "J1", "J2"}
    Datasets <- SmallDatasets
    CustomerLookupInput <- MCLookupInput
    Resolvers = {TRUE}
    ReplyIds = {1, 9}
    Confidences = {7500000}
    Faults = {}
INVARIANT
    EveryRecordResolvesOrWaits
CHECK_DEADLOCK FALSE
