-------------------------- MODULE CustomerPartition --------------------------
(***************************************************************************)
(* What entity resolution promises, with the registry, the index, the      *)
(* scores, the outcomes and the queue left out: a customer is a set of     *)
(* rows of the export, and every row in turn founds a customer, joins one  *)
(* for good, or waits for a person.  Only a row that neither a key nor its *)
(* likeness to the row that founded a customer decides is left to          *)
(* judgement.                                                              *)
(***************************************************************************)
EXTENDS Integers, Sequences

CONSTANTS
    None,
    Exports,      \* the exports there may be: sequences of rows
    Alike         \* pairs of names that the program takes for one customer

VARIABLES
    rows,         \* the export being resolved
    customers,    \* sequence of sets of positions in rows
    waiting,      \* set of positions in rows
    status

partitionVars == <<rows, customers, waiting, status>>

Settled == waiting \cup UNION {customers[i] : i \in DOMAIN customers}
Pending == DOMAIN rows \ Settled

\* Rows are taken in the order of the export.
Turn(n) == status = "running" /\ n \in Pending /\ \A m \in Pending : n <= m

IsAccount(n) == rows[n].system = "crm"
Nameless(n)  == rows[n].system = "psa" /\ rows[n].name \in {None, ""}

Founder(customer) == CHOOSE n \in customer : \A m \in customer : n <= m

\* The accounts whose key a billing row carries.
Accounts(n) ==
    {a \in DOMAIN rows : /\ IsAccount(a) /\ rows[n].system = "billing"
                         /\ rows[a].record_id = rows[n].crm_account_id}

\* The customers whose founder a row resembles.
Lookalikes(n) ==
    {i \in DOMAIN customers :
        ~Nameless(n) /\ <<rows[n].name, rows[Founder(customers[i])].name>> \in Alike}

\* Where a row may go.
Homes(n) ==
    IF Accounts(n) # {}
    THEN {i \in DOMAIN customers : customers[i] \cap Accounts(n) # {}}
    ELSE IF IsAccount(n) \/ Nameless(n) \/ Lookalikes(n) # {} THEN Lookalikes(n)
    ELSE DOMAIN customers

PartitionInit ==
    /\ rows \in Exports
    /\ customers = <<>> /\ waiting = {} /\ status = "running"

FoundCustomer(n) ==
    /\ IsAccount(n) /\ Lookalikes(n) = {}
    /\ customers' = Append(customers, {n})
    /\ UNCHANGED <<rows, waiting, status>>

JoinCustomer(n) ==
    /\ \E i \in Homes(n) : customers' = [customers EXCEPT ![i] = @ \cup {n}]
    /\ UNCHANGED <<rows, waiting, status>>

WaitForPerson(n) ==
    /\ ~IsAccount(n) /\ Accounts(n) = {} /\ Lookalikes(n) = {}
    /\ waiting' = waiting \cup {n}
    /\ UNCHANGED <<rows, customers, status>>

Deliver ==
    /\ status = "running" /\ Pending = {}
    /\ status' = "reported"
    /\ UNCHANGED <<rows, customers, waiting>>

\* The call raises.
GiveUp ==
    /\ status = "running"
    /\ status' = "raised"
    /\ UNCHANGED <<rows, customers, waiting>>

PartitionNext ==
    \/ \E n \in DOMAIN rows :
           Turn(n) /\ (FoundCustomer(n) \/ JoinCustomer(n) \/ WaitForPerson(n))
    \/ Deliver \/ GiveUp

PartitionSpec == PartitionInit /\ [][PartitionNext]_partitionVars

=============================================================================
