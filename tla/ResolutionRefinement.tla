------------------------ MODULE ResolutionRefinement ------------------------
(***************************************************************************)
(* Entity resolution implements the partition of the export: a customer is *)
(* the set of the rows whose outcomes name it, and a row waits when its    *)
(* outcome names nobody.                                                   *)
(***************************************************************************)
EXTENDS ResolutionProperties

\* The positions of the rows whose outcome names a customer, or nobody.
RowsOf(id) == {n \in DOMAIN outcomes : outcomes[n].matched_canonical_id = id}

CustomerRows == [id \in Ids |-> RowsOf(id)]
WaitingRows  == RowsOf(None)

AlikeNames ==
    {p \in Names \X Names : Similarity[p[1]][p[2]] >= FuzzyAutoAccept}

Partition == INSTANCE CustomerPartition WITH
    Exports   <- Datasets,
    Alike     <- AlikeNames,
    rows      <- dataset,
    customers <- CustomerRows,
    waiting   <- WaitingRows

\* Every step of the resolver is a step of the partition or changes nothing
\* in it; the tool server and the reviewers change nothing.
ImplementsPartition == Partition!PartitionSpec

=============================================================================
