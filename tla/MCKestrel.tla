----------------------------- MODULE MCKestrel -----------------------------
(***************************************************************************)
(* The hand-made datasets of MCResolution and small generated corpora: two *)
(* customers of after the cutover who share a truncated name, and a legacy *)
(* customer next to one whose name is nothing like it.                     *)
(***************************************************************************)
EXTENDS MCResolution, Kestrel, EntityScore

MCVariation ==
    [n \in MCNameSet |-> CASE n \in {"rental", "machinery"} -> {n, "short"}
                           [] n = "group" -> {n, "sarg"}
                           [] OTHER -> {n}]

MCCustomer(name, year) == [canonical_name |-> name, onboarded_year |-> year]

MCCorpora ==
    {<<MCCustomer("rental", 2021), MCCustomer("machinery", 2025)>>,
     <<MCCustomer("group", 2020), MCCustomer("rental", 2021)>>}

MCDatasets == AllDatasets \cup {g.records : g \in GeneratedDatasets}

=============================================================================
