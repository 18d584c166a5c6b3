---------------------------- MODULE MCResolution ----------------------------
(***************************************************************************)
(* Instances of entity resolution for TLC.  The similarity table holds the *)
(* scores name_similarity gives (ten-millionths, rounded down) to          *)
(*   equipment "Blue Ridge Equipment"    eqpt   "Blue Ridge Eqpt LLC"      *)
(*   rental    "Blue Ridge Equipment Rental"    short  "Blue Ridge"        *)
(*   ridge     "Ridge Equipment"         summit "Summit Tools"             *)
(*   llc       "LLC", which normalizes to the empty name                   *)
(*   machinery "Blue Ridge Machinery Rental"                               *)
(*   group     "Summit Aggregate Rental Group"   sarg   its acronym        *)
(* so that every band of the cascade is met, and a name can match two      *)
(* customers that do not match each other.                                 *)
(***************************************************************************)
EXTENDS ResolutionRefinement, Functions

MCNames == <<"equipment", "eqpt", "short", "rental", "ridge", "summit", "llc",
             "machinery", "group", "sarg">>

MCScores ==
    << <<10000000,10000000, 6666666, 8510638, 8571428,  625000,       0, 6382978, 2857142, 1666666>>,
       <<10000000,10000000, 6666666, 8510638, 8571428,  625000,       0, 6382978, 2857142, 1666666>>,
       << 6666666, 6666666,10000000, 5405405, 4000000,  909090,       0, 5405405, 2564102, 2857142>>,
       << 8510638, 8510638, 5405405,10000000, 7142857, 3076923,       0, 7037037, 3928571, 1290322>>,
       << 8571428, 8571428, 4000000, 7142857,10000000, 2222222,       0, 4761904, 3181818, 2105263>>,
       << 1875000, 1875000, 1818181, 3076923, 2222222,10000000,       0, 2564102, 4390243, 1250000>>,
       <<       0,       0,       0,       0,       0,       0,10000000,       0,       0,       0>>,
       << 6382978, 6382978, 5405405, 7407407, 4761904,  512820,       0,10000000, 3928571, 1290322>>,
       << 2857142, 2857142, 2564102, 3571428, 3181818, 4390243,       0, 3928571,10000000, 1818181>>,
       << 1666666, 1666666, 2857142,  645161, 2105263, 1250000,       0, 1290322, 2424242,10000000>> >>

\* Names as long as a lookup may be, and one that is longer:
\*   crane       "Regional Leasing Service Parts Cooperative Municipal
\*                Machinery Utilities Rental Crane"
\*   division    that, and "Repair Division"
\*   contractors that, and "Supply Contractors"
\*   northern    a name of 220 characters around that
\* The first and the third resemble the second almost equally.
MCLongNames == <<"crane", "division", "contractors", "northern">>

MCLongScores ==
    << <<10000000, 9139784, 8292682, 5723905>>,
       << 9139784,10000000, 9140271, 6453674>>,
       << 8292682, 9140271,10000000, 7228915>>,
       << 5723905, 6453674, 7228915,10000000>> >>

\* The long names resemble the others too little to matter, and no dataset
\* has both.
MCScore(names, scores, a, b) ==
    IF {a, b} \subseteq Range(names)
    THEN scores[CHOOSE k \in DOMAIN names : names[k] = a]
               [CHOOSE k \in DOMAIN names : names[k] = b]
    ELSE 0

MCNameSet == Range(MCNames) \cup Range(MCLongNames)
MCSimilarity ==
    [a \in MCNameSet |->
        [b \in MCNameSet |->
            MCScore(MCNames, MCScores, a, b)
                + MCScore(MCLongNames, MCLongScores, a, b)]]

MCLookupInput == MCNameSet \ {"northern"}

MCRecord(system, id, name, key) ==
    [system |-> system, record_id |-> id, name |-> name, crm_account_id |-> key]

CrmExports(names, most) ==
    UNION {{ [k \in 1 .. n |-> MCRecord("crm", <<"C1", "C2", "C3">>[k], f[k], None)]
             : f \in [1 .. n -> names]} : n \in 0 .. most}

\* A billing record may refer to an account that the export has not.
BillingExports(names) ==
    {<<MCRecord("billing", "B1", name, key)>> :
        name \in names, key \in {None, "C1", "C2", "C9"}}

PsaExports(names) ==
    {<<MCRecord("psa", "J1", a, None), MCRecord("psa", "J2", b, None)>> :
        a, b \in names}

Combined(crm, billing, psa) ==
    {c \o b \o p : c \in crm, b \in billing, p \in psa}

\* Two customers with long names, and a job named like both; a customer whose
\* name no lookup accepts, and its job.
LongNamed ==
    Combined(CrmExports({"crane", "contractors"}, 2), {<<>>},
             {<<MCRecord("psa", "J1", "division", None)>>})
    \cup {<<MCRecord("crm", "C1", "northern", None),
            MCRecord("psa", "J1", "northern", None)>>}

\* Up to two customers of any kind, or three that resemble one another.
AllDatasets ==
    Combined(CrmExports({"equipment", "rental", "ridge", "summit", "llc"}, 2)
                 \cup CrmExports({"equipment", "rental", "ridge"}, 3),
             BillingExports({"short", "eqpt"}), PsaExports({None, "rental"}))
    \cup LongNamed

SmallDatasets ==
    Combined(CrmExports({"equipment", "llc"}, 2),
             BillingExports({"short"}), PsaExports({None, "short"}))

\* The instances meet the hypothesis of the theorems about the tool server.
ASSUME MCHypothesis == DistinctJobs

=============================================================================
